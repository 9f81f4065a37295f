---------------------------- MODULE SaasBilling ----------------------------
(***************************************************************************)
(* How one tenant buys its subscription.  Owners open a checkout, the      *)
(* server creates a recurring billing at HitPay and stores what HitPay     *)
(* answered; HitPay then reports what becomes of it through webhooks, late,*)
(* repeatedly and in any order.  Every await of a request and of a webhook *)
(* handler is a step of its own: no transaction spans two of them.  A      *)
(* query may throw, and the process may end between two of them.           *)
(***************************************************************************)
EXTENDS Integers, Sequences

CONSTANTS Requests,      \* bound: checkout requests in flight
          Hooks,         \* bound: webhook handlers in flight
          Plans,         \* active plans with a price
          NoPlan,
          Overrides,     \* bound: the statuses the System Owner sets
          MaxCheckouts,  \* bound: checkouts the tenant opens
          MaxEvents      \* bound: reports HitPay sends

ASSUME BillingAssumption ==
  /\ NoPlan \notin Plans
  /\ Overrides \subseteq {"TRIAL", "ACTIVE", "PAST_DUE", "CANCELLED"}
  /\ MaxCheckouts \in Nat \ {0} /\ MaxEvents \in Nat

VARIABLES checkout,   \* rows of saas_billing_checkouts, oldest first
          outcome,    \* outcome of each row of saas_billing_events
          plan,       \* the tenant's subscription: plan_code
          status,     \* and status
          invoices,   \* events whose charge has an invoice
          hitpay,     \* HitPay: what became of each checkout's billing
          sent,       \* HitPay: the reports it sends
          req,        \* the requests in flight
          hook,       \* the handlers in flight
          paid,       \* history: checkouts HitPay activated
          dropped,    \* history: checkouts whose request disappeared
          override    \* history: the System Owner set the subscription last

tables == <<checkout, outcome, plan, status, invoices>>
provider == <<hitpay, sent>>
history == <<paid, dropped, override>>
vars == <<tables, provider, req, hook, history>>

Checkouts == 1 .. MaxCheckouts
Events == 1 .. MaxEvents
Open == {"PENDING", "ACTION_REQUIRED"}
SubscriptionStatuses == {"TRIAL", "ACTIVE", "PAST_DUE", "CANCELLED"}

Newest == Len(checkout)
OpenRows == {c \in 1 .. Len(checkout) : checkout[c].status \in Open}

IdleRequest == [at |-> "idle", plan |-> NoPlan, row |-> 0]
IdleHook == [at |-> "idle", event |-> 0]

Init ==
  /\ checkout = << >>
  /\ outcome = [e \in Events |-> "NONE"]
  /\ plan = NoPlan /\ status = "TRIAL"
  /\ invoices = {}
  /\ hitpay = [c \in Checkouts |-> "none"]
  /\ sent = << >>
  /\ req = [r \in Requests |-> IdleRequest]
  /\ hook = [h \in Hooks |-> IdleHook]
  /\ paid = {} /\ dropped = {} /\ override = FALSE
-----------------------------------------------------------------------------
\* createCheckout, first half: the newest checkout is reused when it is open,
\* for the same plan, and has a URL; else a new one is to be inserted.
Reusable(p) ==
  /\ Newest > 0
  /\ checkout[Newest].plan = p
  /\ checkout[Newest].url
  /\ checkout[Newest].status \in Open

ReadOverview(r, p) ==
  /\ req[r].at = "idle"
  /\ ~Reusable(p)
  /\ req' = [req EXCEPT ![r] = [at |-> "insert", plan |-> p, row |-> 0]]
  /\ UNCHANGED <<tables, provider, hook, history>>

\* createBillingCheckout: the unique index allows one open checkout a tenant.
InsertCheckout(r) ==
  /\ req[r].at = "insert"
  /\ \/ /\ OpenRows # {}
        /\ req' = [req EXCEPT ![r] = IdleRequest]
        /\ UNCHANGED checkout
     \/ /\ OpenRows = {} /\ Newest < MaxCheckouts
        /\ checkout' = Append(checkout, [plan |-> req[r].plan, status |-> "PENDING", url |-> FALSE])
        /\ req' = [req EXCEPT ![r].at = "create", ![r].row = Newest + 1]
  /\ UNCHANGED <<outcome, plan, status, invoices, provider, hook, history>>

\* createRecurring: HitPay answers, refuses, or its answer is lost.
CreateRecurring(r) ==
  LET c == req[r].row
  IN /\ req[r].at = "create"
     /\ \/ hitpay' = [hitpay EXCEPT ![c] = "waiting"] /\ req' = [req EXCEPT ![r].at = "attach"]
        \/ /\ hitpay' \in {hitpay, [hitpay EXCEPT ![c] = "waiting"]}
           /\ req' = [req EXCEPT ![r].at = "fail"]
     /\ UNCHANGED <<tables, sent, hook, history>>

\* attachBillingProvider sets the status whatever it is by now; the index may
\* refuse it, and a query may throw before or after its commit.
AttachProvider(r) ==
  LET c == req[r].row
      attached == [checkout EXCEPT ![c].status = "ACTION_REQUIRED", ![c].url = TRUE]
  IN /\ req[r].at = "attach"
     /\ \/ /\ OpenRows \subseteq {c}
           /\ checkout' = attached
           /\ req' = [req EXCEPT ![r] = IdleRequest]
        \/ /\ \/ checkout' = checkout
              \/ OpenRows \subseteq {c} /\ checkout' = attached
           /\ req' = [req EXCEPT ![r].at = "fail"]
     /\ UNCHANGED <<outcome, plan, status, invoices, provider, hook, history>>

\* Mutated form: the catch forgets the row.
ForgetCheckout(r) ==
  /\ req[r].at = "fail"
  /\ req' = [req EXCEPT ![r] = IdleRequest]
  /\ UNCHANGED <<tables, provider, hook, history>>

\* The catch: failBillingCheckout, then the error is thrown on.
FailCheckout(r) ==
  /\ req[r].at = "fail"
  /\ checkout' = [checkout EXCEPT ![req[r].row].status = "FAILED"]
  /\ req' = [req EXCEPT ![r] = IdleRequest]
  /\ UNCHANGED <<outcome, plan, status, invoices, provider, hook, history>>

\* The request disappears: the process ends, or failBillingCheckout throws.
DropRequest(r) ==
  /\ req[r].at # "idle"
  /\ req' = [req EXCEPT ![r] = IdleRequest]
  /\ dropped' = dropped \cup {req[r].row}
  /\ UNCHANGED <<tables, provider, hook, paid, override>>
-----------------------------------------------------------------------------
\* HitPay: the customer pays or never does, a charge fails, a billing ends;
\* a report may lack the reference, a charge, or a status the code knows.
Fates ==
  [waiting |-> {"ACTIVE", "CANCELLED"}, ACTIVE |-> {"ACTIVE", "PAST_DUE", "CANCELLED"},
   PAST_DUE |-> {"ACTIVE", "CANCELLED"}, CANCELLED |-> {}, none |-> {}]

Report(c, s, charge) ==
  /\ Len(sent) < MaxEvents
  /\ \E reference \in BOOLEAN :
       sent' = Append(sent, [row |-> c, status |-> s, reference |-> reference, charge |-> charge])
  /\ UNCHANGED <<tables, req, hook, dropped, override>>

HitPay(c) ==
  \/ \E s \in Fates[hitpay[c]], charge \in BOOLEAN :
       /\ charge => s = "ACTIVE"
       /\ Report(c, s, charge)
       /\ hitpay' = [hitpay EXCEPT ![c] = s]
       /\ paid' = IF s = "ACTIVE" THEN paid \cup {c} ELSE paid
  \/ /\ hitpay[c] # "none"
     /\ Report(c, "UNKNOWN", FALSE)
     /\ UNCHANGED <<hitpay, paid>>

At(h, here, next) ==
  /\ hook[h].at = here
  /\ hook' = [hook EXCEPT ![h] = IF next = "idle" THEN IdleHook ELSE [@ EXCEPT !.at = next]]

EventOf(h) == sent[hook[h].event]

\* Mutated form: an event that was received but not finished is taken again.
ReceiveUnfinished(h, e) ==
  /\ hook[h].at = "idle" /\ e <= Len(sent)
  /\ outcome[e] \in {"NONE", "RECEIVED"}
  /\ outcome' = [outcome EXCEPT ![e] = "RECEIVED"]
  /\ hook' = [hook EXCEPT ![h] = [at |-> "find", event |-> e]]
  /\ UNCHANGED <<checkout, plan, status, invoices, provider, req, history>>

\* recordBillingEvent: HitPay delivers an event as often as it likes; only the
\* delivery that inserts its row goes on.
Receive(h, e) ==
  /\ hook[h].at = "idle" /\ e <= Len(sent)
  /\ outcome[e] = "NONE"
  /\ outcome' = [outcome EXCEPT ![e] = "RECEIVED"]
  /\ hook' = [hook EXCEPT ![h] = [at |-> "find", event |-> e]]
  /\ UNCHANGED <<checkout, plan, status, invoices, provider, req, history>>

\* findBillingCheckout: by the id HitPay gave the billing, or by reference.
Matches(e) == e.reference \/ checkout[e.row].url

FindCheckout(h) ==
  LET e == EventOf(h)
      next == IF ~Matches(e) THEN "unmatched"
              ELSE IF e.status = "UNKNOWN" THEN "finish" ELSE "checkout"
  IN /\ At(h, "find", next)
     /\ UNCHANGED <<tables, provider, req, history>>

\* updateBillingCheckout
CheckoutStatus == [ACTIVE |-> "ACTIVE", PAST_DUE |-> "FAILED", CANCELLED |-> "CANCELLED"]

UpdateCheckout(h) ==
  LET e == EventOf(h)
  IN /\ At(h, "checkout", "subscription")
     /\ checkout' = [checkout EXCEPT ![e.row].status = CheckoutStatus[e.status]]
     /\ UNCHANGED <<outcome, plan, status, invoices, provider, req, history>>

\* Mutated form: whatever HitPay reports, the tenant is active.
ActivateAnyway(h) ==
  LET e == EventOf(h)
  IN /\ At(h, "subscription", IF e.charge THEN "invoice" ELSE "finish")
     /\ plan' = checkout[e.row].plan
     /\ status' = "ACTIVE"
     /\ override' = FALSE
     /\ UNCHANGED <<checkout, outcome, invoices, provider, req, paid, dropped>>

\* setSubscription, with the plan of the event's own checkout.
SetSubscription(h) ==
  LET e == EventOf(h)
  IN /\ At(h, "subscription", IF e.charge THEN "invoice" ELSE "finish")
     /\ plan' = checkout[e.row].plan
     /\ status' = e.status
     /\ override' = FALSE
     /\ UNCHANGED <<checkout, outcome, invoices, provider, req, paid, dropped>>

RecordInvoice(h) ==
  /\ At(h, "invoice", "finish")
  /\ invoices' = invoices \cup {hook[h].event}
  /\ UNCHANGED <<checkout, outcome, plan, status, provider, req, history>>

\* Mutated form: the event is finished before its effects.
FinishFirst(h) ==
  /\ hook[h].at \in {"checkout", "unmatched", "finish"}
  /\ outcome' = [outcome EXCEPT ![hook[h].event] =
                   IF hook[h].at = "unmatched" THEN "UNMATCHED" ELSE EventOf(h).status]
  /\ hook' = [hook EXCEPT ![h] = IdleHook]
  /\ UNCHANGED <<checkout, plan, status, invoices, provider, req, history>>

\* finishBillingEvent
FinishEvent(h) ==
  /\ \/ /\ At(h, "unmatched", "idle")
        /\ outcome' = [outcome EXCEPT ![hook[h].event] = "UNMATCHED"]
     \/ /\ At(h, "finish", "idle")
        /\ outcome' = [outcome EXCEPT ![hook[h].event] = EventOf(h).status]
  /\ UNCHANGED <<checkout, plan, status, invoices, provider, req, history>>

\* The handler disappears: a query throws, or the process ends.  HitPay will
\* deliver the event again.
DropHook(h) ==
  /\ hook[h].at # "idle"
  /\ hook' = [hook EXCEPT ![h] = IdleHook]
  /\ UNCHANGED <<tables, provider, req, history>>

\* PUT /system/tenants/:tenantId/subscription
OverrideSubscription(p, s) ==
  /\ plan' = p /\ status' = s
  /\ override' = TRUE
  /\ UNCHANGED <<checkout, outcome, invoices, provider, req, hook, paid, dropped>>
-----------------------------------------------------------------------------
StepRequest(r) == InsertCheckout(r) \/ CreateRecurring(r) \/ AttachProvider(r) \/ FailCheckout(r)
StepHook(h) ==
  FindCheckout(h) \/ UpdateCheckout(h) \/ SetSubscription(h) \/ RecordInvoice(h) \/ FinishEvent(h)

Next ==
  \/ \E r \in Requests : (\E p \in Plans : ReadOverview(r, p)) \/ StepRequest(r) \/ DropRequest(r)
  \/ \E c \in Checkouts : HitPay(c)
  \/ \E h \in Hooks : (\E e \in Events : Receive(h, e)) \/ StepHook(h) \/ DropHook(h)
  \/ \E p \in Plans, s \in Overrides : OverrideSubscription(p, s)

Spec == Init /\ [][Next]_vars

-----------------------------------------------------------------------------
\* "Browser redirects never activate a plan": a tenant is active on a plan only
\* if HitPay activated a checkout for that plan, or the System Owner said so.
ActivationBacked ==
  status = "ACTIVE" => override \/ \E c \in paid : checkout[c].plan = plan

\* The outcome of an event is the truth: when it says ACTIVE, the charge has its
\* invoice and HitPay did activate the checkout, and an invoice is only ever
\* written for an event that reports a payment.
OutcomeTrue ==
  /\ \A e \in Events : 
       outcome[e] = "ACTIVE" => /\ sent[e].row \in paid
                                /\ sent[e].charge => e \in invoices
  /\ \A e \in invoices : sent[e].charge /\ outcome[e] # "NONE"

\* One delivery of an event works on it, however often it is delivered.
HandledOnce ==
  \A g, h \in Hooks :
    hook[g].at # "idle" /\ hook[g].event = hook[h].event => g = h

\* A tenant is locked out of paying (an open checkout without a URL refuses
\* every further checkout) only while a request works on it or after its
\* request disappeared: every error the code can catch frees the tenant.
LockedOutOnlyByCrash ==
  \A c \in OpenRows :
    checkout[c].url \/ c \in dropped \/ \E r \in Requests : req[r].row = c

\* What the test of the service promises: an unfinished checkout is reused
\* instead of creating a second HitPay subscription.
NoSecondBilling ==
  \A c, d \in Checkouts : hitpay[c] = "waiting" /\ hitpay[d] = "waiting" => c = d
=============================================================================
