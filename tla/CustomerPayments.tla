-------------------------- MODULE CustomerPayments --------------------------
(***************************************************************************)
(* The customers' payments.  A payment is a row first and exists at the    *)
(* provider later; the provider reports what became of it by webhooks; the *)
(* owner refunds parts of it from a page that shows a copy of the rows.    *)
(* Requests and webhooks overlap, fail at every step and are repeated.     *)
(***************************************************************************)
EXTENDS Integers, FiniteSets

CONSTANTS Payments,  \* rows of payments, named before they are created
          Amount,    \* amount_minor of each
          Calls,     \* bound: requests, to create or to refund
          Tabs,      \* tabs that show the Payments page
          None, NotRead

VARIABLES pay,       \* the rows
          refunds,   \* payment_refunds: [pay, key, amount]
          receipts,  \* payment_artifacts: the payments that have one
          call,      \* requests to the service
          hook,      \* each report: how far its webhook has come
          made,      \* provider: the refunds made, [pay, key, amount]
          opened,    \* provider: the payments it has a checkout for
          paid,      \* provider: the payments that were paid
          page,      \* what each tab shows
          overlap    \* history: payments two refunds of which overlapped
provider == <<made, opened, paid>>
vars == <<pay, refunds, receipts, call, hook, provider, page, overlap>>

Statuses == {"ABSENT", "PENDING", "PAID", "FAILED", "PARTIALLY_REFUNDED", "REFUNDED"}
Refundable == {"PAID", "PARTIALLY_REFUNDED"}
Receipted == Refundable \cup {"REFUNDED"}

Reports == Payments \X {"PAID", "FAILED"}

ASSUME PaymentsAssumption ==
  /\ Amount \in [Payments -> Nat \ {0}]
  /\ None \notin Payments

ASSUME TabsAssumption == None \notin Tabs

NoRow == [status |-> "ABSENT", attached |-> FALSE, refunded |-> 0]
Unused == [at |-> "unused", pay |-> None, amount |-> 0, seen |-> 0, tab |-> None]
NoModal == [pay |-> None, refunded |-> 0]

Init ==
  /\ pay = [p \in Payments |-> NoRow]
  /\ refunds = {} /\ receipts = {}
  /\ call = [c \in Calls |-> Unused]
  /\ hook = [e \in Reports |-> "new"]
  /\ made = {} /\ opened = {} /\ paid = {}
  /\ page = [t \in Tabs |-> [rows |-> NotRead, modal |-> NoModal,
                          load |-> "none", got |-> NotRead]]
  /\ overlap = {}

CallAt(c, at, next) == /\ call[c].at = at
                       /\ call' = [call EXCEPT ![c] = next]
Continue(c, at, next) == CallAt(c, at, [call[c] EXCEPT !.at = next])

-----------------------------------------------------------------------------
(* PaymentService.create.                                                  *)

Create(c, p) ==
  /\ pay[p] = NoRow
  /\ CallAt(c, "unused", [Unused EXCEPT !.at = "checkout", !.pay = p])
  /\ pay' = [pay EXCEPT ![p] = [NoRow EXCEPT !.status = "PENDING"]]
  /\ UNCHANGED <<refunds, receipts, hook, provider, page, overlap>>

Checkout(c) ==
  /\ Continue(c, "checkout", "attach")
  /\ opened' = opened \cup {call[c].pay}
  /\ UNCHANGED <<pay, refunds, receipts, hook, made, paid, page, overlap>>

\* attachProvider writes the status of the provider's answer.
Assumed == "PAID"           \* mutant: a checkout that was opened counts as paid
CheckoutStatus == "PENDING"
Attach(c) ==
  /\ Continue(c, "attach", "done")
  /\ pay' = [pay EXCEPT ![call[c].pay] =
                [status |-> CheckoutStatus, attached |-> TRUE, refunded |-> @.refunded]]
  /\ UNCHANGED <<refunds, receipts, hook, provider, page, overlap>>

-----------------------------------------------------------------------------
(* The customer, and PaymentService.reconcile.                             *)

Pay(p) == /\ p \in opened
          /\ paid' = paid \cup {p}
          /\ UNCHANGED <<pay, refunds, receipts, call, hook, made, opened, page, overlap>>

HookAt(e, at, next) == /\ hook[e] = at
                       /\ hook' = [hook EXCEPT ![e] = next]

\* recordWebhook: only the first delivery of a report goes on.
Deliver(e) ==
  /\ e[1] \in opened
  /\ e[2] = "PAID" => e[1] \in paid
  /\ HookAt(e, "new", "find")
  /\ UNCHANGED <<pay, refunds, receipts, call, provider, page, overlap>>

\* findByProvider: the row must have the provider's id by now.
Find(e) ==
  /\ HookAt(e, "find", IF pay[e[1]].attached THEN "apply" ELSE "lost")
  /\ UNCHANGED <<pay, refunds, receipts, call, provider, page, overlap>>

\* applyStatus writes the reported status over any other.
Apply(e) ==
  /\ HookAt(e, "apply", "applied")
  /\ pay' = [pay EXCEPT ![e[1]].status = e[2]]
  /\ UNCHANGED <<refunds, receipts, call, provider, page, overlap>>

\* The handler ends early; the next delivery is a duplicate.
HookFails(e) ==
  /\ hook[e] \in {"find", "apply"}
  /\ hook' = [hook EXCEPT ![e] = "lost"]
  /\ UNCHANGED <<pay, refunds, receipts, call, provider, page, overlap>>

\* PaymentService.artifact: a second one of a kind replaces the first.
Artifact(p) ==
  /\ pay[p].status \in Receipted
  /\ receipts' = receipts \cup {p}
  /\ UNCHANGED <<pay, refunds, call, hook, provider, page, overlap>>

-----------------------------------------------------------------------------
(* The Payments page.                                                      *)

Copy == [p \in Payments |-> [status |-> pay[p].status, refunded |-> pay[p].refunded]]

Refresh(t) ==
  /\ page[t].load = "none"
  /\ page' = [page EXCEPT ![t].load = "asked"]
  /\ UNCHANGED <<pay, refunds, receipts, call, hook, provider, overlap>>

ServeList(t) ==
  /\ page[t].load = "asked"
  /\ page' = [page EXCEPT ![t] = [@ EXCEPT !.load = "served", !.got = Copy]]
  /\ UNCHANGED <<pay, refunds, receipts, call, hook, provider, overlap>>
ShowList(t) ==
  /\ page[t].load = "served"
  /\ page' = [page EXCEPT ![t] = [@ EXCEPT !.load = "none", !.rows = page[t].got, !.got = NotRead]]
  /\ UNCHANGED <<pay, refunds, receipts, call, hook, provider, overlap>>

OpenRefund(t, p) ==
  /\ page[t].rows # NotRead
  /\ page[t].rows[p].status \in Refundable /\ page[t].rows[p].refunded < Amount[p]
  /\ page' = [page EXCEPT ![t].modal = [pay |-> p, refunded |-> page[t].rows[p].refunded]]
  /\ UNCHANGED <<pay, refunds, receipts, call, hook, provider, overlap>>

\* refund: checked against the copy the dialog was opened with.  The dialog
\* stays open, and may be confirmed again, until an answer closes it.
Owed(t) == LET m == page[t].modal
           IN IF m.pay = None THEN 0 ELSE Amount[m.pay] - m.refunded
Confirm(t, c, a) ==
  /\ a <= Owed(t)
  /\ CallAt(c, "unused", [at |-> "read", pay |-> page[t].modal.pay, amount |-> a,
                          seen |-> 0, tab |-> t])
  /\ UNCHANGED <<pay, refunds, receipts, hook, provider, page, overlap>>

-----------------------------------------------------------------------------
(* PaymentService.refund.                                                  *)

InRefund == {"refund", "record"}
Overlaps(c) == \E d \in Calls \ {c} :
                 call[d].at \in InRefund /\ call[d].pay = call[c].pay

\* get, and the checks on what it returned.
FullAmount(row, p, a) == a <= Amount[p]      \* mutant: earlier refunds forgotten
Remaining(row, p, a) == a <= Amount[p] - row.refunded
ReadPayment(c) ==
  LET p == call[c].pay  row == pay[p]
  IN /\ call[c].at = "read"
     /\ \/ /\ row.attached /\ row.status \in Refundable
           /\ Remaining(row, p, call[c].amount)
           /\ call' = [call EXCEPT ![c] = [at |-> "refund", pay |-> p, seen |-> row.refunded,
                                           amount |-> @.amount, tab |-> @.tab]]
           /\ overlap' = IF Overlaps(c) THEN overlap \cup {p} ELSE overlap
        \/ /\ ~(/\ row.attached /\ row.status \in Refundable
                /\ Remaining(row, p, call[c].amount))
           /\ call' = [call EXCEPT ![c].at = "done"]
           /\ UNCHANGED overlap
     /\ UNCHANGED <<pay, refunds, receipts, hook, provider, page>>

\* The provider refunds once for each key; a known key is answered with the
\* refund made for it.
KeyOfCall(c) == c                            \* mutant: a new key for each call
RefundKey(c) == call[c].seen + call[c].amount
GatewayRefund(c) ==
  LET p == call[c].pay  key == RefundKey(c)
      known == \E r \in made : r.pay = p /\ r.key = key
  IN /\ call[c].at = "refund"
     /\ made' = IF known THEN made
                ELSE made \cup {[pay |-> p, key |-> key, amount |-> call[c].amount]}
     /\ \E next \in {"record", "done"} :     \* its answer may be lost
          call' = [call EXCEPT ![c].at = next]
     /\ UNCHANGED <<pay, refunds, receipts, hook, opened, paid, page, overlap>>

\* recordRefund: one transaction; a provider_refund_id that is there already
\* rolls it back.
FromCopy(c) == call[c].seen + call[c].amount   \* mutant: refunded_minor=$3
RefundedAfter(c) == pay[call[c].pay].refunded + call[c].amount
RecordRefund(c) ==
  LET p == call[c].pay  key == RefundKey(c)  sum == RefundedAfter(c)
  IN /\ call[c].at = "record"
     /\ IF \E r \in refunds : r.pay = p /\ r.key = key
        THEN /\ call' = [call EXCEPT ![c].at = "done"]
             /\ UNCHANGED <<pay, refunds>>
        ELSE /\ call' = [call EXCEPT ![c].at = "answer"]
             /\ refunds' = refunds \cup {[pay |-> p, key |-> key, amount |-> call[c].amount]}
             /\ pay' = [pay EXCEPT ![p] =
                  [status |-> IF sum >= Amount[p] THEN "REFUNDED" ELSE "PARTIALLY_REFUNDED",
                   attached |-> @.attached, refunded |-> sum]]
     /\ UNCHANGED <<receipts, hook, provider, page, overlap>>

\* The answer closes whatever dialog is open and loads the list.
Answer(c) ==
  LET t == call[c].tab
  IN /\ Continue(c, "answer", "done")
     /\ page' = [page EXCEPT ![t] = [@ EXCEPT !.modal = NoModal, !.load = "asked"]]
     /\ UNCHANGED <<pay, refunds, receipts, hook, provider, overlap>>

\* A step of the service throws, or its process ends: the page shows an error
\* and keeps the dialog.
CallFails(c) ==
  /\ call[c].at \notin {"unused", "done"}
  /\ call' = [call EXCEPT ![c].at = "done"]
  /\ UNCHANGED <<pay, refunds, receipts, hook, provider, page, overlap>>

CloseRefund(t) ==
  /\ page[t].modal # NoModal
  /\ page' = [page EXCEPT ![t].modal = NoModal]
  /\ UNCHANGED <<pay, refunds, receipts, call, hook, provider, overlap>>

Next ==
  \/ \E c \in Calls :
       \/ \E p \in Payments : Create(c, p)
       \/ Checkout(c) \/ Attach(c)
       \/ \E t \in Tabs : \E a \in 1 .. Owed(t) : Confirm(t, c, a)
       \/ ReadPayment(c) \/ GatewayRefund(c) \/ RecordRefund(c)
       \/ Answer(c) \/ CallFails(c)
  \/ \E p \in Payments : Pay(p) \/ Artifact(p)
  \/ \E e \in Reports : Deliver(e) \/ Find(e) \/ Apply(e) \/ HookFails(e)
  \/ \E t \in Tabs : \/ Refresh(t) \/ ServeList(t) \/ ShowList(t) \/ CloseRefund(t)
                     \/ \E p \in Payments : OpenRefund(t, p)

Spec == Init /\ [][Next]_vars

-----------------------------------------------------------------------------
(* Properties.                                                             *)

\* What the rows of p add up to, counted unit by unit.
UnitsOf(rows, p) == UNION {{r} \X (1 .. r.amount) : r \in {x \in rows : x.pay = p}}
SumOf(rows, p) == Cardinality(UnitsOf(rows, p))

\* refunded_minor is the sum of the payment's rows in payment_refunds, with
\* any number of refunds in flight and any of them interrupted.
LedgerAdds == \A p \in Payments : pay[p].refunded = SumOf(refunds, p)

\* The check of the remaining amount and the update are two statements; the
\* recorded refunds exceed the payment only if two refunds of it overlapped.
OverRefundNeedsOverlap ==
  \A p \in Payments : pay[p].refunded > Amount[p] => p \in overlap

\* What the key is for: when every refund asked of a payment names one
\* amount, no overlap, lost answer, crash or retry makes the provider refund
\* more than was paid.
SameAmountIsSafe ==
  \A p \in Payments :
    (\A c, d \in Calls : /\ call[c].tab # None /\ call[d].tab # None
                         /\ call[c].pay = p /\ call[d].pay = p
                         => call[c].amount = call[d].amount)
    => SumOf(made, p) <= Amount[p]

\* A payment that is shown as paid, has a receipt or was refunded was paid at
\* the provider, whatever order its webhooks arrive in.
PaidIsBacked ==
  \A p \in Payments :
    pay[p].status \in Receipted \/ p \in receipts \/ pay[p].refunded > 0 => p \in paid
=============================================================================
