---------------------------- MODULE BillingProofs ----------------------------
(***************************************************************************)
(* Theorems about SaasBilling for any plans, any number of requests and    *)
(* webhook handlers, any number of checkouts and reports.  The properties  *)
(* of the run speak of what is recorded at the end; the invariant adds     *)
(* what a handler knows of its event at each of its awaits (Handling), that*)
(* HitPay reports only what happened to billings that exist (Reported),    *)
(* and whose fault an open checkout without a URL is                       *)
(* (LockedOutOnlyByCrash).                                                 *)
(***************************************************************************)
EXTENDS SaasBilling, SequenceTheorems, TLAPS

CheckoutRow == [plan : Plans, url : BOOLEAN,
                status : Open \cup {"ACTIVE", "FAILED", "CANCELLED"}]
SentReport == [row : Checkouts, reference : BOOLEAN, charge : BOOLEAN,
               status : {"ACTIVE", "PAST_DUE", "CANCELLED", "UNKNOWN"}]

RequestState == [at : {"idle", "insert", "create", "attach", "fail"},
                 plan : Plans \cup {NoPlan}, row : Nat]

Typed ==
  /\ checkout \in Seq(CheckoutRow) /\ Len(checkout) <= MaxCheckouts
  /\ sent \in Seq(SentReport) /\ Len(sent) <= MaxEvents
  /\ outcome \in [Events -> {"NONE", "RECEIVED", "UNMATCHED", "ACTIVE", "PAST_DUE",
                             "CANCELLED", "UNKNOWN"}]
  /\ hitpay \in [Checkouts -> {"none", "waiting", "ACTIVE", "PAST_DUE", "CANCELLED"}]
  /\ invoices \subseteq Events
  /\ req \in [Requests -> RequestState]
  /\ hook \in [Hooks -> [at : {"idle", "find", "checkout", "subscription", "invoice",
                               "finish", "unmatched"}, event : Nat]]

\* A request past its insert works on a row that is there; before it, on none.
Requested(r) ==
  /\ req[r].at = "insert" => req[r].plan \in Plans
  /\ req[r].at \in {"idle", "insert"} => req[r].row = 0
  /\ req[r].at \in {"create", "attach", "fail"} => req[r].row \in 1 .. Len(checkout)

\* HitPay knows billings of rows only.
Billed ==
  /\ \A c \in Checkouts : hitpay[c] # "none" => c \in 1 .. Len(checkout)
  /\ paid \subseteq 1 .. Len(checkout)

Reported(i) ==
  /\ sent[i].row \in 1 .. Len(checkout)
  /\ sent[i].status = "ACTIVE" => sent[i].row \in paid
  /\ sent[i].charge => sent[i].status = "ACTIVE"

\* What a handler has learned of its event, and done for it.
Handling(h) ==
  IF hook[h].at = "idle" THEN hook[h].event = 0
  ELSE LET e == hook[h].event
       IN /\ e \in 1 .. Len(sent) /\ outcome[e] = "RECEIVED"
          /\ hook[h].at \in {"checkout", "subscription"} => sent[e].status # "UNKNOWN"
          /\ hook[h].at = "invoice" => sent[e].charge
          /\ hook[h].at = "finish" /\ sent[e].charge => e \in invoices

Received == \A e \in Events : outcome[e] # "NONE" => e \in 1 .. Len(sent)

Inv ==
  /\ Typed /\ Billed /\ Received
  /\ \A r \in Requests : Requested(r)
  /\ \A i \in 1 .. Len(sent) : Reported(i)
  /\ \A h \in Hooks : Handling(h)
  /\ ActivationBacked /\ OutcomeTrue /\ HandledOnce /\ LockedOutOnlyByCrash

-----------------------------------------------------------------------------
\* A checkout that gets another status is a checkout of the same plan.
LEMMA NewStatus ==
  ASSUME NEW row \in CheckoutRow, NEW s \in Open \cup {"ACTIVE", "FAILED", "CANCELLED"}
  PROVE  /\ [row EXCEPT !.status = s] \in CheckoutRow
         /\ [row EXCEPT !.status = s].plan = row.plan
         /\ [row EXCEPT !.status = s].url = row.url
         /\ [row EXCEPT !.status = s].status = s
BY DEF CheckoutRow

\* A row is replaced in place: the others, and their number, stay.
LEMMA ReplaceRow ==
  ASSUME NEW S, NEW s \in Seq(S), NEW i \in 1 .. Len(s), NEW e \in S
  PROVE  /\ [s EXCEPT ![i] = e] \in Seq(S)
         /\ Len([s EXCEPT ![i] = e]) = Len(s)
         /\ \A j \in 1 .. Len(s) : [s EXCEPT ![i] = e][j] = IF j = i THEN e ELSE s[j]
BY ExceptSeq

\* A row is added at the end.
LEMMA AddRow ==
  ASSUME NEW S, NEW s \in Seq(S), NEW e \in S
  PROVE  /\ Append(s, e) \in Seq(S)
         /\ Len(Append(s, e)) = Len(s) + 1
         /\ \A j \in 1 .. Len(s) : Append(s, e)[j] = s[j]
         /\ Append(s, e)[Len(s) + 1] = e
BY AppendProperties

LEMMA InitInv == Init => Inv
<1> SUFFICES ASSUME Init PROVE Inv
  OBVIOUS
<1> USE BillingAssumption DEF Init, IdleRequest, IdleHook, Events, Checkouts
<1>1. Typed
  <2>1. checkout \in Seq(CheckoutRow) /\ sent \in Seq(SentReport) /\ Len(checkout) = 0 /\ Len(sent) = 0
    BY EmptySeq
  <2> QED BY <2>1 DEF Typed, RequestState
<1>2. Billed /\ Received /\ \A r \in Requests : Requested(r)
  BY DEF Billed, Received, Requested
<1>3. (\A i \in 1 .. Len(sent) : Reported(i)) /\ \A h \in Hooks : Handling(h)
  BY DEF Reported, Handling
<1>4. ActivationBacked /\ OutcomeTrue /\ HandledOnce
  BY DEF ActivationBacked, OutcomeTrue, HandledOnce
<1>5. LockedOutOnlyByCrash
  BY DEF LockedOutOnlyByCrash, OpenRows
<1> QED BY <1>1, <1>2, <1>3, <1>4, <1>5 DEF Inv

-----------------------------------------------------------------------------
\* What the steps of requests leave to handlers and reports: rows keep their
\* plans and stay, and none is lost.
RowsKept ==
  /\ checkout' \in Seq(CheckoutRow) /\ Len(checkout') \in Len(checkout) .. MaxCheckouts
  /\ \A c \in 1 .. Len(checkout) : checkout'[c].plan = checkout[c].plan

LEMMA RequestKeepsOthers ==
  ASSUME Inv, RowsKept,
         UNCHANGED <<outcome, plan, status, invoices, sent, hook, paid, override>>,
         \A c \in Checkouts : hitpay'[c] = hitpay[c] \/ c \in 1 .. Len(checkout),
         Typed', \A r \in Requests : Requested(r)', LockedOutOnlyByCrash'
  PROVE  Inv'
<1> USE DEF Inv, Typed, RowsKept
<1>1. Len(checkout) \in Nat /\ 1 .. Len(checkout) \subseteq 1 .. Len(checkout')
  OBVIOUS
<1>2. Billed' /\ Received'
  BY <1>1 DEF Billed, Received
<1>3. \A i \in 1 .. Len(sent') : Reported(i)'
  BY <1>1 DEF Reported
<1>4. (\A h \in Hooks : Handling(h)') /\ OutcomeTrue' /\ HandledOnce'
  BY DEF Handling, OutcomeTrue, HandledOnce
<1>5. ActivationBacked'
  BY DEF ActivationBacked, Billed
<1> QED BY <1>2, <1>3, <1>4, <1>5

\* A request's row changes its status and URL.
LEMMA RowChanged ==
  ASSUME Inv, NEW c \in 1 .. Len(checkout), NEW e \in CheckoutRow,
         e.plan = checkout[c].plan, checkout' = [checkout EXCEPT ![c] = e]
  PROVE  /\ RowsKept /\ Len(checkout') = Len(checkout)
         /\ \A d \in 1 .. Len(checkout) : checkout'[d] = IF d = c THEN e ELSE checkout[d]
<1>1. checkout \in Seq(CheckoutRow) /\ Len(checkout) \in Nat /\ Len(checkout) <= MaxCheckouts
  BY LenProperties DEF Inv, Typed
<1>2. /\ checkout' \in Seq(CheckoutRow) /\ Len(checkout') = Len(checkout)
      /\ \A d \in 1 .. Len(checkout) : checkout'[d] = IF d = c THEN e ELSE checkout[d]
  BY <1>1, ReplaceRow
<1> QED BY <1>1, <1>2, BillingAssumption DEF RowsKept

\* The request r goes on, or ends; the others stay where they are.
LEMMA RequestMoves ==
  ASSUME Typed, NEW r \in Requests, NEW next \in RequestState,
         req' = [req EXCEPT ![r] = next]
  PROVE  /\ req' \in [Requests -> RequestState] /\ req'[r] = next
         /\ \A q \in Requests \ {r} : req'[q] = req[q]
BY DEF Typed

LEMMA RequestAt ==
  ASSUME Typed, NEW r \in Requests, NEW a \in {"create", "attach", "fail"},
         req' = [req EXCEPT ![r].at = a]
  PROVE  /\ req' \in [Requests -> RequestState]
         /\ req'[r].at = a /\ req'[r].row = req[r].row
         /\ \A q \in Requests \ {r} : req'[q] = req[q]
<1> DEFINE next == [req[r] EXCEPT !.at = a]
<1>1. req[r] \in RequestState
  BY DEF Typed
<1>2. next \in RequestState /\ next.at = a /\ next.row = req[r].row
  BY <1>1 DEF RequestState
<1>3. req' = [req EXCEPT ![r] = next]
  OBVIOUS
<1> HIDE DEF next
<1> QED BY <1>2, <1>3, RequestMoves

LEMMA RequestStep ==
  ASSUME Inv, NEW r \in Requests,
         (\E p \in Plans : ReadOverview(r, p)) \/ StepRequest(r) \/ DropRequest(r)
  PROVE  Inv'
<1> USE BillingAssumption
<1>0. /\ checkout \in Seq(CheckoutRow) /\ Len(checkout) \in Nat /\ Len(checkout) <= MaxCheckouts
      /\ \A c \in 1 .. Len(checkout) : checkout[c] \in CheckoutRow
      /\ 1 .. Len(checkout) \subseteq Checkouts
  BY LenProperties, ElementOfSeq DEF Inv, Typed, Checkouts
<1>k. UNCHANGED checkout => RowsKept
  BY <1>0 DEF RowsKept
<1>i. IdleRequest \in RequestState /\ IdleRequest.at = "idle" /\ IdleRequest.row = 0
  BY DEF IdleRequest, RequestState
<1>t. Typed /\ Requested(r) /\ req[r] \in RequestState
  BY DEF Inv, Typed
\* Whoever is to blame for an open checkout without a URL stays so when a
\* request without a row moves.
<1>b. ASSUME req[r].row = 0, \A q \in Requests \ {r} : req'[q] = req[q],
             UNCHANGED <<checkout, dropped>>
      PROVE  LockedOutOnlyByCrash'
  <2> SUFFICES ASSUME NEW c \in OpenRows'
               PROVE  checkout[c].url \/ c \in dropped \/ \E q \in Requests : req'[q].row = c
    BY <1>b DEF LockedOutOnlyByCrash
  <2>1. c \in OpenRows /\ c # 0
    BY <1>b DEF OpenRows
  <2>2. checkout[c].url \/ c \in dropped \/ \E q \in Requests : req[q].row = c
    BY <2>1 DEF Inv, LockedOutOnlyByCrash
  <2> QED BY <1>b, <2>1, <2>2
<1>1. ASSUME NEW p \in Plans, ReadOverview(r, p) PROVE Inv'
  <2> DEFINE next == [at |-> "insert", plan |-> p, row |-> 0]
  <2>0. next \in RequestState /\ next.at = "insert" /\ next.plan \in Plans /\ next.row = 0
    BY DEF RequestState
  <2>1. /\ req[r].at = "idle" /\ req' = [req EXCEPT ![r] = next]
        /\ UNCHANGED <<checkout, outcome, plan, status, invoices, hitpay, sent, hook, paid,
                       dropped, override>>
    BY <1>1 DEF ReadOverview, tables, provider, history
  <2> HIDE DEF next
  <2>2. /\ req' \in [Requests -> RequestState] /\ req'[r] = next
        /\ \A q \in Requests \ {r} : req'[q] = req[q]
    BY <2>0, <2>1, <1>t, RequestMoves
  <2>3. Typed'
    BY <2>1, <2>2, <1>t DEF Typed
  <2>4. \A q \in Requests : Requested(q)'
    BY <2>0, <2>1, <2>2 DEF Inv, Requested
  <2>5. LockedOutOnlyByCrash'
    BY <2>1, <2>2, <1>t, <1>b DEF Requested
  <2> QED BY <2>1, <1>k, <2>3, <2>4, <2>5, RequestKeepsOthers
<1>2. ASSUME InsertCheckout(r) PROVE Inv'
  <2>0. req[r].at = "insert" /\ req[r].row = 0 /\ req[r].plan \in Plans
    BY <1>2, <1>t DEF InsertCheckout, Requested
  <2>1. CASE checkout' = checkout /\ req' = [req EXCEPT ![r] = IdleRequest]
    <3>0. UNCHANGED <<outcome, plan, status, invoices, hitpay, sent, hook, paid, dropped, override>>
      BY <1>2 DEF InsertCheckout, provider, history
    <3>1. /\ req' \in [Requests -> RequestState] /\ req'[r] = IdleRequest
          /\ \A q \in Requests \ {r} : req'[q] = req[q]
      BY <2>1, <1>i, <1>t, RequestMoves
    <3>2. Typed'
      BY <2>1, <3>0, <3>1, <1>t DEF Typed
    <3>3. \A q \in Requests : Requested(q)'
      BY <2>1, <3>1, <1>i DEF Inv, Requested
    <3>4. LockedOutOnlyByCrash'
      BY <2>0, <2>1, <3>0, <3>1, <1>b
    <3> QED BY <2>1, <3>0, <1>k, <3>2, <3>3, <3>4, RequestKeepsOthers
  <2>2. CASE ~(checkout' = checkout /\ req' = [req EXCEPT ![r] = IdleRequest])
    <3> DEFINE e == [plan |-> req[r].plan, status |-> "PENDING", url |-> FALSE]
    <3> DEFINE next == [[req[r] EXCEPT !.at = "create"] EXCEPT !.row = Len(checkout) + 1]
    <3>1. /\ Len(checkout) < MaxCheckouts /\ OpenRows = {}
          /\ checkout' = Append(checkout, e)
          /\ req' = [req EXCEPT ![r] = next]
          /\ UNCHANGED <<outcome, plan, status, invoices, hitpay, sent, hook, paid, dropped, override>>
      BY <1>2, <2>2, <1>t DEF InsertCheckout, provider, history, Newest, Typed
    <3>2. e \in CheckoutRow
      BY <2>0 DEF CheckoutRow, Open
    <3>3. next \in RequestState /\ next.at = "create" /\ next.row = Len(checkout) + 1
      <4> DEFINE half == [req[r] EXCEPT !.at = "create"]
      <4>1. half \in RequestState /\ half.at = "create"
        BY <1>t DEF RequestState
      <4>2. next = [half EXCEPT !.row = Len(checkout) + 1]
        OBVIOUS
      <4> HIDE DEF half, next
      <4> QED BY <4>1, <4>2, <1>0 DEF RequestState
    <3> HIDE DEF e, next
    <3>4. /\ checkout' \in Seq(CheckoutRow) /\ Len(checkout') = Len(checkout) + 1
          /\ \A j \in 1 .. Len(checkout) : checkout'[j] = checkout[j]
      BY <3>1, <3>2, <1>0, AddRow
    <3>5. /\ req' \in [Requests -> RequestState] /\ req'[r] = next
          /\ \A q \in Requests \ {r} : req'[q] = req[q]
      BY <3>1, <3>3, <1>t, RequestMoves
    <3>6. RowsKept
      BY <3>1, <3>4, <1>0 DEF RowsKept
    <3>7. Typed'
      BY <3>1, <3>4, <3>5, <1>0, <1>t DEF Typed
    <3>8. \A q \in Requests : Requested(q)'
      BY <3>3, <3>4, <3>5, <1>0 DEF Inv, Requested
    <3>9. LockedOutOnlyByCrash'
      <4> SUFFICES ASSUME NEW c \in OpenRows' PROVE \E q \in Requests : req'[q].row = c
        BY DEF LockedOutOnlyByCrash
      <4>1. c = Len(checkout) + 1
        BY <3>1, <3>4, <1>0 DEF OpenRows
      <4> QED BY <4>1, <3>3, <3>5
    <3> QED BY <3>1, <3>6, <3>7, <3>8, <3>9, RequestKeepsOthers
  <2> QED BY <2>1, <2>2
\* From here on the request has a row.
<1>r. req[r].at \in {"create", "attach", "fail"} => req[r].row \in 1 .. Len(checkout)
  BY <1>t DEF Requested
<1>3. ASSUME CreateRecurring(r) PROVE Inv'
  <2>0. /\ req[r].row \in 1 .. Len(checkout) /\ req[r].row \in Checkouts
        /\ hitpay' \in {hitpay, [hitpay EXCEPT ![req[r].row] = "waiting"]}
        /\ UNCHANGED <<checkout, outcome, plan, status, invoices, sent, hook, paid, dropped, override>>
    BY <1>3, <1>0, <1>r DEF CreateRecurring, tables, history
  <2>1. PICK a \in {"attach", "fail"} : req' = [req EXCEPT ![r].at = a]
    BY <1>3 DEF CreateRecurring
  <2>2. /\ req' \in [Requests -> RequestState]
        /\ req'[r].at = a /\ req'[r].row = req[r].row
        /\ \A q \in Requests \ {r} : req'[q] = req[q]
    BY <2>1, <1>t, RequestAt
  <2>3. Typed'
    BY <2>0, <2>2, <1>t DEF Typed
  <2>4. \A q \in Requests : Requested(q)'
    BY <2>0, <2>2 DEF Inv, Requested
  <2>5. LockedOutOnlyByCrash'
    BY <2>0, <2>2 DEF Inv, LockedOutOnlyByCrash, OpenRows
  <2>6. \A d \in Checkouts : hitpay'[d] = hitpay[d] \/ d \in 1 .. Len(checkout)
    BY <2>0, <1>t DEF Typed
  <2> QED BY <2>0, <1>k, <2>3, <2>4, <2>5, <2>6, RequestKeepsOthers
<1>4. ASSUME AttachProvider(r) PROVE Inv'
  <2> DEFINE c == req[r].row
  <2> DEFINE e == [[checkout[c] EXCEPT !.status = "ACTION_REQUIRED"] EXCEPT !.url = TRUE]
  <2>0. /\ req[r].at = "attach" /\ c \in 1 .. Len(checkout)
        /\ UNCHANGED <<outcome, plan, status, invoices, hitpay, sent, hook, paid, dropped, override>>
    BY <1>4, <1>r DEF AttachProvider, provider, history
  <2>1. e \in CheckoutRow /\ e.plan = checkout[c].plan /\ e.url
    <3> DEFINE half == [checkout[c] EXCEPT !.status = "ACTION_REQUIRED"]
    <3>0. checkout[c] \in CheckoutRow /\ "ACTION_REQUIRED" \in Open
      BY <2>0, <1>0 DEF Open
    <3>1. half \in CheckoutRow /\ half.plan = checkout[c].plan
      BY <3>0, NewStatus
    <3>2. e = [half EXCEPT !.url = TRUE]
      OBVIOUS
    <3> HIDE DEF half, e
    <3> QED BY <3>1, <3>2 DEF CheckoutRow
  <2>2. \/ checkout' = checkout /\ req' = [req EXCEPT ![r].at = "fail"]
        \/ checkout' = [checkout EXCEPT ![c] = e] /\ req' = [req EXCEPT ![r].at = "fail"]
        \/ checkout' = [checkout EXCEPT ![c] = e] /\ req' = [req EXCEPT ![r] = IdleRequest]
    BY <1>4 DEF AttachProvider
  <2> HIDE DEF c, e
  <2>3. /\ RowsKept /\ Len(checkout') = Len(checkout)
        /\ \A d \in 1 .. Len(checkout) : checkout'[d] = checkout[d] \/ (d = c /\ checkout'[d] = e)
    <3>1. CASE checkout' = checkout
      BY <3>1, <1>k
    <3>2. CASE checkout' = [checkout EXCEPT ![c] = e]
      <4>1. /\ RowsKept /\ Len(checkout') = Len(checkout)
            /\ \A d \in 1 .. Len(checkout) : checkout'[d] = IF d = c THEN e ELSE checkout[d]
        BY <3>2, <2>0, <2>1, RowChanged
      <4> QED BY <4>1
    <3> QED BY <2>2, <3>1, <3>2
  <2>4. /\ req' \in [Requests -> RequestState]
        /\ \A q \in Requests \ {r} : req'[q] = req[q]
        /\ \/ req'[r].at = "fail" /\ req'[r].row = c
           \/ /\ req'[r] = IdleRequest
              /\ \A d \in 1 .. Len(checkout) : d = c => checkout'[d] = e
    BY <2>0, <2>1, <2>2, <1>i, <1>t, RequestAt, RequestMoves, RowChanged DEF c
  <2>5. Typed'
    BY <2>0, <2>3, <2>4, <1>0, <1>t DEF Typed, RowsKept
  <2>6. \A q \in Requests : Requested(q)'
    BY <2>0, <2>3, <2>4, <1>i DEF Inv, Requested
  <2>7. LockedOutOnlyByCrash'
    <3> SUFFICES ASSUME NEW d \in OpenRows'
                 PROVE  checkout'[d].url \/ d \in dropped' \/ \E q \in Requests : req'[q].row = d
      BY DEF LockedOutOnlyByCrash
    <3>1. d \in 1 .. Len(checkout)
      BY <2>3 DEF OpenRows
    <3>2. CASE d = c
      BY <2>1, <2>4, <3>1, <3>2
    <3>3. CASE d # c
      <4>1. checkout'[d] = checkout[d] /\ d \in OpenRows
        BY <3>1, <3>3, <2>3 DEF OpenRows
      <4>2. checkout[d].url \/ d \in dropped \/ \E q \in Requests : req[q].row = d
        BY <4>1 DEF Inv, LockedOutOnlyByCrash
      <4>3. \A q \in Requests : req[q].row = d => req'[q] = req[q]
        BY <2>4, <3>3 DEF c
      <4> QED BY <2>0, <4>1, <4>2, <4>3
    <3> QED BY <3>2, <3>3
  <2> QED BY <2>0, <2>3, <2>5, <2>6, <2>7, RequestKeepsOthers
<1>5. ASSUME FailCheckout(r) PROVE Inv'
  <2> DEFINE c == req[r].row
  <2> DEFINE e == [checkout[c] EXCEPT !.status = "FAILED"]
  <2>0. /\ c \in 1 .. Len(checkout)
        /\ checkout' = [checkout EXCEPT ![c] = e] /\ req' = [req EXCEPT ![r] = IdleRequest]
        /\ UNCHANGED <<outcome, plan, status, invoices, hitpay, sent, hook, paid, dropped, override>>
    BY <1>5, <1>r DEF FailCheckout, provider, history
  <2>1. e \in CheckoutRow /\ e.plan = checkout[c].plan /\ e.status \notin Open
    <3>1. checkout[c] \in CheckoutRow /\ "FAILED" \notin Open
      BY <2>0, <1>0 DEF Open
    <3> QED BY <3>1, NewStatus
  <2> HIDE DEF c, e
  <2>2. /\ RowsKept /\ Len(checkout') = Len(checkout)
        /\ \A d \in 1 .. Len(checkout) : checkout'[d] = IF d = c THEN e ELSE checkout[d]
    BY <2>0, <2>1, RowChanged
  <2>3. /\ req' \in [Requests -> RequestState] /\ req'[r] = IdleRequest
        /\ \A q \in Requests \ {r} : req'[q] = req[q]
    BY <2>0, <1>i, <1>t, RequestMoves
  <2>4. Typed'
    BY <2>0, <2>2, <2>3, <1>0, <1>t DEF Typed, RowsKept
  <2>5. \A q \in Requests : Requested(q)'
    BY <2>0, <2>2, <2>3, <1>i DEF Inv, Requested
  <2>6. LockedOutOnlyByCrash'
    <3> SUFFICES ASSUME NEW d \in OpenRows'
                 PROVE  checkout'[d].url \/ d \in dropped' \/ \E q \in Requests : req'[q].row = d
      BY DEF LockedOutOnlyByCrash
    <3>1. d # c /\ d \in OpenRows /\ checkout'[d] = checkout[d]
      BY <2>1, <2>2 DEF OpenRows
    <3>2. checkout[d].url \/ d \in dropped \/ \E q \in Requests : req[q].row = d
      BY <3>1 DEF Inv, LockedOutOnlyByCrash
    <3>3. \A q \in Requests : req[q].row = d => req'[q] = req[q]
      BY <2>3, <3>1 DEF c
    <3> QED BY <2>0, <3>1, <3>2, <3>3
  <2> QED BY <2>0, <2>2, <2>4, <2>5, <2>6, RequestKeepsOthers
<1>6. ASSUME DropRequest(r) PROVE Inv'
  <2>0. /\ req' = [req EXCEPT ![r] = IdleRequest] /\ dropped' = dropped \cup {req[r].row}
        /\ UNCHANGED <<checkout, outcome, plan, status, invoices, hitpay, sent, hook, paid, override>>
    BY <1>6 DEF DropRequest, tables, provider
  <2>1. /\ req' \in [Requests -> RequestState] /\ req'[r] = IdleRequest
        /\ \A q \in Requests \ {r} : req'[q] = req[q]
    BY <2>0, <1>i, <1>t, RequestMoves
  <2>2. Typed'
    BY <2>0, <2>1, <1>t DEF Typed
  <2>3. \A q \in Requests : Requested(q)'
    BY <2>0, <2>1, <1>i DEF Inv, Requested
  <2>4. LockedOutOnlyByCrash'
    BY <2>0, <2>1 DEF Inv, LockedOutOnlyByCrash, OpenRows
  <2> QED BY <2>0, <1>k, <2>2, <2>3, <2>4, RequestKeepsOthers
<1> QED BY <1>1, <1>2, <1>3, <1>4, <1>5, <1>6 DEF StepRequest

-----------------------------------------------------------------------------
\* Both ways in which HitPay moves, in one form.
HitPayDoes(c, s, charge) ==
  /\ s \in {"ACTIVE", "PAST_DUE", "CANCELLED", "UNKNOWN"} /\ charge \in BOOLEAN
  /\ hitpay[c] # "none" /\ Len(sent) < MaxEvents
  /\ charge => s = "ACTIVE"
  /\ \E reference \in BOOLEAN :
       sent' = Append(sent, [row |-> c, status |-> s, reference |-> reference, charge |-> charge])
  /\ hitpay' = hitpay \/ (hitpay' = [hitpay EXCEPT ![c] = s] /\ s # "UNKNOWN")
  /\ paid' = IF s = "ACTIVE" THEN paid \cup {c} ELSE paid
  /\ UNCHANGED <<tables, req, hook, dropped, override>>

\* A report tells of a billing that exists, and says ACTIVE of a paid one.
LEMMA HitPayStep ==
  ASSUME Inv, NEW c \in Checkouts, HitPay(c)
  PROVE  Inv'
<1> USE BillingAssumption
<1>0. \E s, charge : HitPayDoes(c, s, charge)
  <2>1. ASSUME NEW s \in Fates[hitpay[c]], NEW charge \in BOOLEAN,
               charge => s = "ACTIVE", Report(c, s, charge),
               hitpay' = [hitpay EXCEPT ![c] = s],
               paid' = IF s = "ACTIVE" THEN paid \cup {c} ELSE paid
        PROVE  HitPayDoes(c, s, charge)
    <3>1. s \in {"ACTIVE", "PAST_DUE", "CANCELLED"} /\ hitpay[c] # "none"
      BY DEF Inv, Typed, Fates
    <3> QED BY <3>1, <2>1 DEF HitPayDoes, Report
  <2>2. ASSUME hitpay[c] # "none", Report(c, "UNKNOWN", FALSE), UNCHANGED <<hitpay, paid>>
        PROVE  HitPayDoes(c, "UNKNOWN", FALSE)
    BY <2>2 DEF HitPayDoes, Report
  <2>3. CASE \E s \in Fates[hitpay[c]], charge \in BOOLEAN :
                /\ charge => s = "ACTIVE"
                /\ Report(c, s, charge)
                /\ hitpay' = [hitpay EXCEPT ![c] = s]
                /\ paid' = IF s = "ACTIVE" THEN paid \cup {c} ELSE paid
    <3>1. PICK s \in Fates[hitpay[c]], charge \in BOOLEAN :
                /\ charge => s = "ACTIVE"
                /\ Report(c, s, charge)
                /\ hitpay' = [hitpay EXCEPT ![c] = s]
                /\ paid' = IF s = "ACTIVE" THEN paid \cup {c} ELSE paid
      BY <2>3
    <3>2. HitPayDoes(c, s, charge)
      BY <3>1, <2>1
    <3> QED BY <3>2
  <2>4. CASE hitpay[c] # "none" /\ Report(c, "UNKNOWN", FALSE) /\ UNCHANGED <<hitpay, paid>>
    BY <2>2, <2>4
  <2> QED BY <2>3, <2>4 DEF HitPay
<1>1a. PICK s, charge : HitPayDoes(c, s, charge)
  BY <1>0
<1>1. /\ s \in {"ACTIVE", "PAST_DUE", "CANCELLED", "UNKNOWN"} /\ charge \in BOOLEAN
      /\ hitpay[c] # "none" /\ Len(sent) < MaxEvents
      /\ charge => s = "ACTIVE"
      /\ hitpay' = hitpay \/ (hitpay' = [hitpay EXCEPT ![c] = s] /\ s # "UNKNOWN")
      /\ paid' = IF s = "ACTIVE" THEN paid \cup {c} ELSE paid
      /\ UNCHANGED <<tables, req, hook, dropped, override>>
  BY <1>1a DEF HitPayDoes
<1>1b. PICK reference \in BOOLEAN :
         sent' = Append(sent, [row |-> c, status |-> s, reference |-> reference, charge |-> charge])
  BY <1>1a, Zenon DEF HitPayDoes
<1> DEFINE e == [row |-> c, status |-> s, reference |-> reference, charge |-> charge]
<1>2. /\ sent \in Seq(SentReport) /\ Len(sent) \in Nat /\ Len(sent) < MaxEvents
      /\ \A i \in 1 .. Len(sent) : sent[i] \in SentReport
  BY <1>1, LenProperties, ElementOfSeq DEF Inv, Typed
<1>3. e \in SentReport /\ e.row = c /\ e.status = s /\ e.charge = charge
  BY <1>1 DEF SentReport
<1>4. sent' = Append(sent, e)
  BY <1>1b
<1> HIDE DEF e
<1>5. /\ sent' \in Seq(SentReport) /\ Len(sent') = Len(sent) + 1
      /\ \A i \in 1 .. Len(sent) : sent'[i] = sent[i]
      /\ sent'[Len(sent) + 1] = e
  BY <1>2, <1>3, <1>4, AddRow
<1>u. UNCHANGED <<checkout, outcome, plan, status, invoices, req, hook, dropped, override>>
  BY <1>1 DEF tables
<1>6. Typed'
  <2>1. hitpay' \in [Checkouts -> {"none", "waiting", "ACTIVE", "PAST_DUE", "CANCELLED"}]
    BY <1>1 DEF Inv, Typed
  <2> QED BY <2>1, <1>2, <1>5, <1>u DEF Inv, Typed
<1>7. c \in 1 .. Len(checkout)
  BY <1>1 DEF Inv, Billed
<1>8. Billed'
  <2>1. \A d \in Checkouts : hitpay'[d] = hitpay[d] \/ d = c
    BY <1>1 DEF Inv, Typed
  <2> QED BY <2>1, <1>1, <1>7, <1>u DEF Inv, Billed
<1>9. Received'
  BY <1>2, <1>5, <1>u DEF Inv, Received
<1>10. \A q \in Requests : Requested(q)'
  BY <1>u DEF Inv, Requested
<1>11. \A i \in 1 .. Len(sent') : Reported(i)'
  <2> TAKE i \in 1 .. Len(sent')
  <2>1. CASE i \in 1 .. Len(sent)
    BY <2>1, <1>1, <1>5, <1>u DEF Inv, Reported
  <2>2. CASE i = Len(sent) + 1
    BY <2>2, <1>1, <1>3, <1>5, <1>7, <1>u DEF Reported
  <2> QED BY <2>1, <2>2, <1>2, <1>5
<1>12. \A h \in Hooks : Handling(h)'
  BY <1>2, <1>5, <1>u DEF Inv, Handling
<1>13. ActivationBacked'
  BY <1>1, <1>u DEF Inv, ActivationBacked
<1>14. OutcomeTrue'
  <2>1. \A i \in Events : outcome[i] # "NONE" => sent'[i] = sent[i]
    BY <1>5 DEF Inv, Received
  <2> QED BY <2>1, <1>1, <1>u DEF Inv, Typed, OutcomeTrue
<1>15. HandledOnce' /\ LockedOutOnlyByCrash'
  BY <1>u DEF Inv, HandledOnce, LockedOutOnlyByCrash, OpenRows
<1> QED BY <1>6, <1>8, <1>9, <1>10, <1>11, <1>12, <1>13, <1>14, <1>15 DEF Inv

-----------------------------------------------------------------------------
HookState == [at : {"idle", "find", "checkout", "subscription", "invoice", "finish",
                    "unmatched"}, event : Nat]

\* What a handler's step leaves alone, and what follows of it: the events other
\* handlers work on are not the one this handler has.
LEMMA HandlerKeepsOthers ==
  ASSUME Inv, NEW h \in Hooks,
         UNCHANGED <<hitpay, sent, req, paid, dropped>>,
         checkout' \in Seq(CheckoutRow), Len(checkout') = Len(checkout),
         \A c \in 1 .. Len(checkout) : checkout'[c] = checkout[c] \/ c \notin OpenRows',
         NEW e \in Events, e <= Len(sent),
         hook[h].at = "idle" => outcome[e] = "NONE",
         hook[h].at # "idle" => hook[h].event = e,
         hook' \in [Hooks -> HookState], \A g \in Hooks \ {h} : hook'[g] = hook[g],
         hook'[h].at # "idle" => hook'[h].event = e,
         outcome' \in [Events -> {"NONE", "RECEIVED", "UNMATCHED", "ACTIVE", "PAST_DUE",
                                  "CANCELLED", "UNKNOWN"}],
         \A d \in Events \ {e} : outcome'[d] = outcome[d],
         invoices' \in {invoices, invoices \cup {e}},
         Handling(h)', ActivationBacked', OutcomeTrue'
  PROVE  Inv'
<1>1. Typed'
  BY DEF Inv, Typed, HookState
<1>2. Billed' /\ Received' /\ \A r \in Requests : Requested(r)'
  <2>1. Billed'
    BY DEF Inv, Billed
  <2>2. \A r \in Requests : Requested(r)'
    BY DEF Inv, Requested
  <2>3. \A d \in Events : outcome[d] # "NONE" => d \in 1 .. Len(sent)
    BY DEF Inv, Received
  <2>4. e \in 1 .. Len(sent)
    BY LenProperties DEF Inv, Typed, Events
  <2>5. Received'
    BY <2>3, <2>4 DEF Received
  <2> QED BY <2>1, <2>2, <2>5
<1>3. \A i \in 1 .. Len(sent') : Reported(i)'
  BY DEF Inv, Reported
<1>4. \A g \in Hooks \ {h} : hook[g].at # "idle" => hook[g].event # e /\ hook[g].event \in Events
  <2> TAKE g \in Hooks \ {h}
  <2> HAVE hook[g].at # "idle"
  <2>1. outcome[hook[g].event] = "RECEIVED" /\ hook[g].event \in 1 .. Len(sent)
    BY DEF Inv, Handling
  <2>2. hook[g].event \in Events
    BY <2>1, LenProperties, BillingAssumption DEF Inv, Typed, Events
  <2>3. hook[g].event # e
    BY <2>1 DEF Inv, HandledOnce
  <2> QED BY <2>2, <2>3
<1>5. \A g \in Hooks : Handling(g)'
  <2> SUFFICES ASSUME NEW g \in Hooks \ {h} PROVE Handling(g)'
    OBVIOUS
  <2>1. hook'[g] = hook[g] /\ Handling(g)
    BY DEF Inv
  <2>2. hook[g].at # "idle" => outcome'[hook[g].event] = outcome[hook[g].event]
    BY <1>4
  <2>3. invoices \subseteq invoices'
    OBVIOUS
  <2> QED BY <2>1, <2>2, <2>3 DEF Handling
<1>6. HandledOnce'
  <2> SUFFICES ASSUME NEW f \in Hooks, NEW g \in Hooks,
                      hook'[f].at # "idle", hook'[f].event = hook'[g].event
               PROVE  f = g
    BY DEF HandledOnce
  <2>1. hook'[f].event # 0
    BY <1>5 DEF Handling
  <2>2. hook'[g].at # "idle"
    BY <1>5, <2>1 DEF Handling
  <2>3. CASE f # h /\ g # h
    BY <2>3 DEF Inv, HandledOnce
  <2>4. CASE f = h /\ g # h
    BY <2>2, <2>4, <1>4
  <2>5. CASE f # h /\ g = h
    BY <2>2, <2>5, <1>4
  <2> QED BY <2>3, <2>4, <2>5
<1>7. LockedOutOnlyByCrash'
  BY DEF Inv, LockedOutOnlyByCrash, OpenRows
<1> QED BY <1>1, <1>2, <1>3, <1>5, <1>6, <1>7 DEF Inv

\* A handler goes on with its event, or ends; the others stay where they are.
LEMMA HandlerMoves ==
  ASSUME Typed, NEW h \in Hooks, NEW here,
         NEW next \in {"idle", "find", "checkout", "subscription", "invoice", "finish", "unmatched"},
         At(h, here, next)
  PROVE  /\ hook[h].at = here /\ hook' \in [Hooks -> HookState]
         /\ hook'[h].at = next
         /\ next # "idle" => hook'[h].event = hook[h].event
         /\ next = "idle" => hook'[h].event = 0
         /\ \A g \in Hooks \ {h} : hook'[g] = hook[g]
<1> DEFINE on == [hook[h] EXCEPT !.at = next]
<1>1. hook \in [Hooks -> HookState]
  BY DEF Typed, HookState
<1>2. on \in HookState /\ on.at = next /\ on.event = hook[h].event
  BY <1>1 DEF HookState
<1>3. IdleHook \in HookState /\ IdleHook.at = "idle" /\ IdleHook.event = 0
  BY DEF HookState, IdleHook
<1>4. hook[h].at = here /\ hook' = [hook EXCEPT ![h] = IF next = "idle" THEN IdleHook ELSE on]
  BY DEF At
<1> HIDE DEF on
<1>5. CASE next = "idle"
  BY <1>1, <1>3, <1>4, <1>5
<1>6. CASE next # "idle"
  BY <1>1, <1>2, <1>4, <1>6
<1> QED BY <1>5, <1>6

LEMMA HookStep ==
  ASSUME Inv, NEW h \in Hooks,
         (\E e \in Events : Receive(h, e)) \/ StepHook(h) \/ DropHook(h)
  PROVE  Inv'
<1>0. /\ checkout \in Seq(CheckoutRow) /\ Len(checkout) \in Nat
      /\ \A c \in 1 .. Len(checkout) : checkout[c] \in CheckoutRow
      /\ sent \in Seq(SentReport) /\ Len(sent) \in Nat
      /\ \A i \in 1 .. Len(sent) : sent[i] \in SentReport /\ i \in Events
  BY LenProperties, ElementOfSeq, BillingAssumption DEF Inv, Typed, Events
<1>t. Typed /\ Handling(h) /\ outcome \in [Events -> {"NONE", "RECEIVED", "UNMATCHED", "ACTIVE",
                                             "PAST_DUE", "CANCELLED", "UNKNOWN"}]
  BY DEF Inv, Typed
\* The event of a handler that works, and what is known of it.
<1> DEFINE e == hook[h].event
<1>e. hook[h].at # "idle" =>
        /\ e \in Events /\ e <= Len(sent) /\ e # 0 /\ outcome[e] = "RECEIVED"
        /\ sent[e] \in SentReport /\ Reported(e)
  BY <1>0, <1>t DEF Inv, Handling
<1>1. ASSUME NEW n \in Events, Receive(h, n) PROVE Inv'
  <2> DEFINE next == [at |-> "find", event |-> n]
  <2>0. next \in HookState /\ next.at = "find" /\ next.event = n
    BY DEF HookState, Events
  <2>1. /\ hook[h].at = "idle" /\ n <= Len(sent) /\ outcome[n] = "NONE"
        /\ outcome' = [outcome EXCEPT ![n] = "RECEIVED"]
        /\ hook' = [hook EXCEPT ![h] = next]
        /\ UNCHANGED <<checkout, plan, status, invoices, hitpay, sent, req, paid, dropped, override>>
    BY <1>1 DEF Receive, provider, history
  <2> HIDE DEF next
  <2>2. /\ hook' \in [Hooks -> HookState] /\ hook'[h] = next
        /\ \A g \in Hooks \ {h} : hook'[g] = hook[g]
    BY <2>0, <2>1, <1>t DEF Typed, HookState
  <2>3. Handling(h)'
    BY <2>0, <2>1, <2>2, <1>0, <1>t DEF Handling, Events
  <2>4. ActivationBacked' /\ OutcomeTrue'
    BY <2>1, <1>t DEF Inv, ActivationBacked, OutcomeTrue
  <2>5. outcome' \in [Events -> {"NONE", "RECEIVED", "UNMATCHED", "ACTIVE", "PAST_DUE",
                                 "CANCELLED", "UNKNOWN"}]
        /\ \A d \in Events \ {n} : outcome'[d] = outcome[d]
    BY <2>1, <1>t
  <2> QED BY <2>0, <2>1, <2>2, <2>3, <2>4, <2>5, <1>0, HandlerKeepsOthers
\* All the other steps leave the outcomes alone but the last, and most the rows.
<1>k. ASSUME hook[h].at # "idle", UNCHANGED <<outcome, hitpay, sent, req, paid, dropped>>,
             checkout' \in Seq(CheckoutRow), Len(checkout') = Len(checkout),
             \A c \in 1 .. Len(checkout) : checkout'[c] = checkout[c] \/ c \notin OpenRows',
             hook' \in [Hooks -> HookState], \A g \in Hooks \ {h} : hook'[g] = hook[g],
             hook'[h].at # "idle" => hook'[h].event = e,
             invoices' = invoices \/ (invoices' = invoices \cup {e} /\ sent[e].charge),
             Handling(h)', ActivationBacked'
      PROVE  Inv'
  <2>1. OutcomeTrue'
    BY <1>k, <1>e DEF Inv, OutcomeTrue
  <2> HIDE DEF e
  <2> QED BY <1>k, <1>e, <1>t, <2>1, HandlerKeepsOthers DEF e
<1>2. ASSUME FindCheckout(h) PROVE Inv'
  <2>1. PICK next \in {"unmatched", "finish", "checkout"} :
          /\ At(h, "find", next)
          /\ next = "checkout" => sent[e].status # "UNKNOWN"
          /\ next = "finish" => sent[e].status = "UNKNOWN"
    BY <1>2 DEF FindCheckout, EventOf
  <2>u. UNCHANGED <<checkout, outcome, plan, status, invoices, hitpay, sent, req, paid, dropped, override>>
    BY <1>2 DEF FindCheckout, tables, provider, history
  <2>2. /\ hook[h].at = "find" /\ hook' \in [Hooks -> HookState]
        /\ hook'[h].at = next /\ hook'[h].event = e
        /\ \A g \in Hooks \ {h} : hook'[g] = hook[g]
    BY <2>1, <1>t, HandlerMoves
  <2>3. Handling(h)'
    BY <2>1, <2>2, <2>u, <1>t, <1>e DEF Handling, Reported
  <2>4. ActivationBacked'
    BY <2>u DEF Inv, ActivationBacked
  <2> QED BY <2>2, <2>3, <2>4, <2>u, <1>0, <1>k
<1>3. ASSUME UpdateCheckout(h) PROVE Inv'
  <2> DEFINE c == sent[e].row
  <2> DEFINE row == [checkout[c] EXCEPT !.status = CheckoutStatus[sent[e].status]]
  <2>u. UNCHANGED <<outcome, plan, status, invoices, hitpay, sent, req, paid, dropped, override>>
    BY <1>3 DEF UpdateCheckout, provider, history
  <2>1. /\ hook[h].at = "checkout" /\ hook' \in [Hooks -> HookState]
        /\ hook'[h].at = "subscription" /\ hook'[h].event = e
        /\ \A g \in Hooks \ {h} : hook'[g] = hook[g]
    BY <1>3, <1>t, HandlerMoves DEF UpdateCheckout
  <2>2. sent[e].status \in {"ACTIVE", "PAST_DUE", "CANCELLED"} /\ c \in 1 .. Len(checkout)
    BY <2>1, <1>t, <1>e DEF Handling, Reported, SentReport
  <2>3. CheckoutStatus[sent[e].status] \in {"ACTIVE", "FAILED", "CANCELLED"}
    BY <2>2 DEF CheckoutStatus
  <2>4. row \in CheckoutRow /\ row.plan = checkout[c].plan /\ row.status \notin Open
    <3>1. checkout[c] \in CheckoutRow /\ CheckoutStatus[sent[e].status] \notin Open
      BY <2>2, <2>3, <1>0 DEF Open
    <3> QED BY <3>1, <2>3, NewStatus
  <2>5. checkout' = [checkout EXCEPT ![c] = row]
    BY <1>3 DEF UpdateCheckout, EventOf
  <2> HIDE DEF c, row
  <2>6. /\ RowsKept /\ Len(checkout') = Len(checkout)
        /\ \A d \in 1 .. Len(checkout) : checkout'[d] = IF d = c THEN row ELSE checkout[d]
    BY <2>2, <2>4, <2>5, RowChanged
  <2>7. \A d \in 1 .. Len(checkout) : checkout'[d] = checkout[d] \/ d \notin OpenRows'
    BY <2>4, <2>6 DEF OpenRows
  <2>8. Handling(h)'
    BY <2>1, <2>u, <1>t DEF Handling
  <2>9. ActivationBacked'
    BY <2>6, <2>u DEF Inv, ActivationBacked, Billed, RowsKept
  <2> QED BY <2>1, <2>6, <2>7, <2>8, <2>9, <2>u, <1>k DEF RowsKept
<1>4. ASSUME SetSubscription(h) PROVE Inv'
  <2> DEFINE next == IF sent[e].charge THEN "invoice" ELSE "finish"
  <2>u. /\ UNCHANGED <<checkout, outcome, invoices, hitpay, sent, req, paid, dropped>>
        /\ plan' = checkout[sent[e].row].plan /\ status' = sent[e].status
    BY <1>4 DEF SetSubscription, provider, EventOf
  <2>0. next \in {"invoice", "finish"} /\ At(h, "subscription", next)
    BY <1>4 DEF SetSubscription, EventOf
  <2>1. next = "invoice" <=> sent[e].charge
    OBVIOUS
  <2> HIDE DEF next
  <2>2. /\ hook[h].at = "subscription" /\ hook' \in [Hooks -> HookState]
        /\ hook'[h].at = next /\ hook'[h].event = e
        /\ \A g \in Hooks \ {h} : hook'[g] = hook[g]
    BY <2>0, <1>t, HandlerMoves
  <2>3. Handling(h)'
    BY <2>0, <2>1, <2>2, <2>u, <1>t DEF Handling
  <2>4. ActivationBacked'
    BY <2>2, <2>u, <1>e DEF ActivationBacked, Reported
  <2> QED BY <2>2, <2>3, <2>4, <2>u, <1>0, <1>k
<1>5. ASSUME RecordInvoice(h) PROVE Inv'
  <2>u. /\ UNCHANGED <<checkout, outcome, plan, status, hitpay, sent, req, paid, dropped, override>>
        /\ invoices' = invoices \cup {e}
    BY <1>5 DEF RecordInvoice, provider, history
  <2>1. /\ hook[h].at = "invoice" /\ hook' \in [Hooks -> HookState]
        /\ hook'[h].at = "finish" /\ hook'[h].event = e
        /\ \A g \in Hooks \ {h} : hook'[g] = hook[g]
    BY <1>5, <1>t, HandlerMoves DEF RecordInvoice
  <2>2. Handling(h)' /\ sent[e].charge
    BY <2>1, <2>u, <1>t DEF Handling
  <2>3. ActivationBacked'
    BY <2>u DEF Inv, ActivationBacked
  <2> QED BY <2>1, <2>2, <2>3, <2>u, <1>0, <1>k
<1>6. ASSUME FinishEvent(h) PROVE Inv'
  <2>0. PICK here \in {"unmatched", "finish"} : 
          /\ At(h, here, "idle")
          /\ outcome' = [outcome EXCEPT ![e] = IF here = "unmatched" THEN "UNMATCHED"
                                               ELSE sent[e].status]
    BY <1>6 DEF FinishEvent, EventOf
  <2>u. UNCHANGED <<checkout, plan, status, invoices, hitpay, sent, req, paid, dropped, override>>
    BY <1>6 DEF FinishEvent, provider, history
  <2>1. /\ hook[h].at = here /\ hook' \in [Hooks -> HookState]
        /\ hook'[h].at = "idle" /\ hook'[h].event = 0
        /\ \A g \in Hooks \ {h} : hook'[g] = hook[g]
    BY <2>0, <1>t, HandlerMoves
  <2>2. Handling(h)'
    BY <2>1 DEF Handling
  <2>3. ActivationBacked'
    BY <2>u DEF Inv, ActivationBacked
  <2>4. /\ outcome' \in [Events -> {"NONE", "RECEIVED", "UNMATCHED", "ACTIVE", "PAST_DUE",
                                    "CANCELLED", "UNKNOWN"}]
        /\ \A d \in Events \ {e} : outcome'[d] = outcome[d]
        /\ outcome'[e] = IF here = "unmatched" THEN "UNMATCHED" ELSE sent[e].status
    BY <2>0, <2>1, <1>t, <1>e DEF SentReport
  <2>5. OutcomeTrue'
    <3>1. /\ outcome'[e] # "NONE"
          /\ outcome'[e] = "ACTIVE" => sent[e].row \in paid
          /\ outcome'[e] = "ACTIVE" /\ sent[e].charge => e \in invoices
      BY <2>1, <2>4, <1>e, <1>t DEF Reported, Handling, SentReport
    <3>2. \A d \in Events : /\ outcome'[d] = "ACTIVE" => sent[d].row \in paid
                            /\ outcome'[d] = "ACTIVE" /\ sent[d].charge => d \in invoices
      <4> TAKE d \in Events
      <4>1. CASE d = e
        BY <4>1, <3>1
      <4>2. CASE d # e
        BY <4>2, <2>4 DEF Inv, OutcomeTrue
      <4> QED BY <4>1, <4>2
    <3>3. \A d \in invoices : sent[d].charge /\ outcome'[d] # "NONE"
      <4> TAKE d \in invoices
      <4>1. d \in Events /\ sent[d].charge /\ outcome[d] # "NONE"
        BY DEF Inv, Typed, OutcomeTrue
      <4> QED BY <4>1, <3>1, <2>4
    <3> QED BY <3>2, <3>3, <2>u DEF OutcomeTrue
  <2>6. hook[h].at # "idle" /\ hook'[h].at = "idle" /\ UNCHANGED <<hitpay, sent, req, paid, dropped, checkout, invoices>>
    BY <2>1, <2>u
  <2> HIDE DEF e
  <2> QED BY <2>1, <2>2, <2>3, <2>4, <2>5, <2>6, <1>0, <1>e, HandlerKeepsOthers DEF e
<1>7. ASSUME DropHook(h) PROVE Inv'
  <2>u. /\ hook[h].at # "idle" /\ hook' = [hook EXCEPT ![h] = IdleHook]
        /\ UNCHANGED <<checkout, outcome, plan, status, invoices, hitpay, sent, req, paid, dropped, override>>
    BY <1>7 DEF DropHook, tables, provider, history
  <2>0. IdleHook \in HookState /\ IdleHook.at = "idle" /\ IdleHook.event = 0
    BY DEF HookState, IdleHook
  <2>1. /\ hook' \in [Hooks -> HookState] /\ hook'[h] = IdleHook
        /\ \A g \in Hooks \ {h} : hook'[g] = hook[g]
    BY <2>0, <2>u, <1>t DEF Typed, HookState
  <2>2. Handling(h)'
    BY <2>0, <2>1 DEF Handling
  <2>3. ActivationBacked'
    BY <2>u DEF Inv, ActivationBacked
  <2> QED BY <2>0, <2>1, <2>2, <2>3, <2>u, <1>0, <1>k
<1> QED BY <1>1, <1>2, <1>3, <1>4, <1>5, <1>6, <1>7 DEF StepHook

\* The System Owner sets the subscription, and that is on record.
LEMMA OverrideStep ==
  ASSUME Inv, NEW p \in Plans, NEW s \in Overrides, OverrideSubscription(p, s)
  PROVE  Inv'
<1>1. /\ UNCHANGED <<checkout, outcome, invoices, hitpay, sent, req, hook, paid, dropped>>
      /\ override'
  BY DEF OverrideSubscription, provider
<1>2. Typed' /\ Billed' /\ Received' /\ \A r \in Requests : Requested(r)'
  BY <1>1 DEF Inv, Typed, Billed, Received, Requested
<1>3. (\A i \in 1 .. Len(sent') : Reported(i)') /\ \A h \in Hooks : Handling(h)'
  BY <1>1 DEF Inv, Reported, Handling
<1>4. ActivationBacked'
  BY <1>1 DEF ActivationBacked
<1>5. OutcomeTrue' /\ HandledOnce' /\ LockedOutOnlyByCrash'
  BY <1>1 DEF Inv, OutcomeTrue, HandledOnce, LockedOutOnlyByCrash, OpenRows
<1> QED BY <1>2, <1>3, <1>4, <1>5 DEF Inv

LEMMA StutterInv == Inv /\ UNCHANGED vars => Inv'
<1> SUFFICES ASSUME Inv, UNCHANGED vars PROVE Inv'
  OBVIOUS
<1> USE DEF Inv, vars, tables, provider, history
<1>1. Typed' /\ Billed' /\ Received' /\ \A r \in Requests : Requested(r)'
  BY DEF Typed, Billed, Received, Requested
<1>2. (\A i \in 1 .. Len(sent') : Reported(i)') /\ \A h \in Hooks : Handling(h)'
  BY DEF Reported, Handling
<1>3. ActivationBacked' /\ OutcomeTrue' /\ HandledOnce' /\ LockedOutOnlyByCrash'
  BY DEF ActivationBacked, OutcomeTrue, HandledOnce, LockedOutOnlyByCrash, OpenRows
<1> QED BY <1>1, <1>2, <1>3

\* Whatever requests, webhooks, HitPay and the System Owner do, in whatever
\* order, the invariant of the billing tables holds.
THEOREM BillingInvariance == Spec => []Inv
<1>1. Init => Inv
  BY InitInv
<1>2. Inv /\ [Next]_vars => Inv'
  <2> SUFFICES ASSUME Inv, [Next]_vars PROVE Inv'
    OBVIOUS
  <2>1. CASE \E r \in Requests : (\E p \in Plans : ReadOverview(r, p)) \/ StepRequest(r) \/ DropRequest(r)
    BY <2>1, RequestStep
  <2>2. CASE \E c \in Checkouts : HitPay(c)
    BY <2>2, HitPayStep
  <2>3. CASE \E h \in Hooks : (\E e \in Events : Receive(h, e)) \/ StepHook(h) \/ DropHook(h)
    BY <2>3, HookStep
  <2>4. CASE \E p \in Plans, s \in Overrides : OverrideSubscription(p, s)
    BY <2>4, OverrideStep
  <2>5. CASE UNCHANGED vars
    BY <2>5, StutterInv
  <2> QED BY <2>1, <2>2, <2>3, <2>4, <2>5 DEF Next
<1> QED BY <1>1, <1>2, PTL DEF Spec

\* "Browser redirects never activate a plan": for any number of checkouts and
\* any webhooks, a tenant is active on what HitPay was paid for, or on the
\* System Owner's word.
THEOREM Activation == Spec => []ActivationBacked
<1>1. Inv => ActivationBacked
  BY DEF Inv
<1> QED BY <1>1, BillingInvariance, PTL

\* finishBillingEvent writes the truth: an event that is ACTIVE was paid and
\* has its invoice.
THEOREM Outcomes == Spec => []OutcomeTrue
<1>1. Inv => OutcomeTrue
  BY DEF Inv
<1> QED BY <1>1, BillingInvariance, PTL

\* The insert of recordBillingEvent makes one handler the only one of its event.
THEOREM OneHandler == Spec => []HandledOnce
<1>1. Inv => HandledOnce
  BY DEF Inv
<1> QED BY <1>1, BillingInvariance, PTL

\* The catch of createCheckout frees the tenant: an open checkout without a URL
\* has a request at work or one that disappeared.
THEOREM LockOuts == Spec => []LockedOutOnlyByCrash
<1>1. Inv => LockedOutOnlyByCrash
  BY DEF Inv
<1> QED BY <1>1, BillingInvariance, PTL
=============================================================================
