--------------------------- MODULE PaymentsProofs ---------------------------
(***************************************************************************)
(* Theorems about CustomerPayments for any payments, amounts, requests and *)
(* tabs.  Typed is the type invariant; Single says what a payment whose    *)
(* refunds never overlapped keeps (at most one refund between its check    *)
(* and its record, and the row still as the check saw it); Backed traces   *)
(* every sign of payment to the provider; Adds counts the refunded units   *)
(* of the ledger; Steps says what refunds of one amount have in common.    *)
(***************************************************************************)
EXTENDS CustomerPayments, FiniteSetTheorems, TLAPS

Names == Payments \cup {None}
Shown == {NotRead} \cup [Payments -> [status : Statuses, refunded : Nat]]

PayTyped == pay \in [Payments -> [status : Statuses, attached : BOOLEAN,
                                  refunded : Nat]]
CallTyped == call \in [Calls -> [at : {"unused", "checkout", "attach", "read", "refund",
                                       "record", "answer", "done"},
                                 pay : Names, amount : Nat, seen : Nat,
                                 tab : Tabs \cup {None}]]
PageTyped == page \in [Tabs -> [rows : Shown, modal : [pay : Names, refunded : Nat],
                                load : {"none", "asked", "served"}, got : Shown]]
HookTyped == hook \in [Reports -> {"new", "find", "apply", "applied", "lost"}]
Working(c) == call[c].at \notin {"unused", "done"} => call[c].pay \in Payments
Typed == /\ PayTyped /\ CallTyped /\ PageTyped /\ HookTyped
         /\ \A c \in Calls : Working(c)

LEMMA InitTyped == Init => Typed
<1> SUFFICES ASSUME Init PROVE Typed
  OBVIOUS
<1>1. PayTyped /\ HookTyped
  BY DEF Init, PayTyped, HookTyped, NoRow, Statuses
<1>2. CallTyped /\ \A c \in Calls : Working(c)
  BY DEF Init, CallTyped, Working, Unused, Names
<1>3. PageTyped
  BY DEF Init, PageTyped, NoModal, Names, Shown
<1> QED BY <1>1, <1>2, <1>3 DEF Typed

\* Every step keeps the types.
LEMMA StepTyped == Typed /\ [Next]_vars => Typed'
<1> SUFFICES ASSUME Typed, [Next]_vars PROVE Typed'
  OBVIOUS
<1> USE PaymentsAssumption
<1> USE DEF Typed, PayTyped, CallTyped, PageTyped, HookTyped, Working, Names, Statuses
<1>1. ASSUME NEW c \in Calls, NEW p \in Payments, Create(c, p) PROVE Typed'
  BY <1>1 DEF Create, CallAt, Unused, NoRow, provider
<1>2. ASSUME NEW c \in Calls, Checkout(c) PROVE Typed'
  BY <1>2 DEF Checkout, Continue, CallAt
<1>3. ASSUME NEW c \in Calls, Attach(c) PROVE Typed'
  BY <1>3 DEF Attach, Continue, CallAt, provider, CheckoutStatus
<1>4. ASSUME NEW c \in Calls, NEW t \in Tabs, NEW a \in 1 .. Owed(t), Confirm(t, c, a)
      PROVE Typed'
  <2>1. page[t].modal.pay # None
    BY <1>4 DEF Owed
  <2>2. CallTyped'
    BY <1>4, <2>1 DEF Confirm, CallAt
  <2>3. \A d \in Calls : Working(d)'
    BY <1>4, <2>1 DEF Confirm, CallAt
  <2>4. PageTyped'
    BY <1>4 DEF Confirm
  <2>5. PayTyped' /\ HookTyped'
    BY <1>4 DEF Confirm, provider
  <2> QED BY <2>2, <2>3, <2>4, <2>5
<1>5. ASSUME NEW c \in Calls, ReadPayment(c) PROVE Typed'
  <2>1. UNCHANGED <<pay, hook, page>>
    BY <1>5 DEF ReadPayment
  <2>2. /\ call[c].pay \in Payments /\ pay[call[c].pay].refunded \in Nat
    BY <1>5 DEF ReadPayment
  <2>3. CASE call' = [call EXCEPT ![c].at = "done"]
    <3>1. CallTyped'
      BY <2>3
    <3>2. \A d \in Calls : Working(d)'
      BY <2>3
    <3> QED BY <2>1, <3>1, <3>2
  <2>4. CASE call' = [call EXCEPT ![c] =
                 [at |-> "refund", pay |-> call[c].pay, seen |-> pay[call[c].pay].refunded,
                  amount |-> @.amount, tab |-> @.tab]]
    <3>1. CallTyped'
      BY <2>2, <2>4
    <3>2. \A d \in Calls : Working(d)'
      BY <2>2, <2>4
    <3> QED BY <2>1, <3>1, <3>2
  <2> QED BY <1>5, <2>3, <2>4 DEF ReadPayment
<1>6. ASSUME NEW c \in Calls, GatewayRefund(c) PROVE Typed'
  BY <1>6 DEF GatewayRefund
<1>7. ASSUME NEW c \in Calls, RecordRefund(c) PROVE Typed'
  <2>1. CallTyped' /\ \A d \in Calls : Working(d)'
    <3>1. PICK at \in {"done", "answer"} : call' = [call EXCEPT ![c].at = at]
      BY <1>7 DEF RecordRefund
    <3> QED BY <1>7, <3>1 DEF RecordRefund
  <2>2. RefundedAfter(c) \in Nat
    BY <1>7 DEF RecordRefund, RefundedAfter
  <2>3. PayTyped'
    BY <1>7, <2>2 DEF RecordRefund
  <2> QED BY <1>7, <2>1, <2>3 DEF RecordRefund, provider
<1>8. ASSUME NEW c \in Calls, Answer(c) PROVE Typed'
  <2>1. CallTyped' /\ \A d \in Calls : Working(d)'
    BY <1>8 DEF Answer, Continue, CallAt
  <2>2. PageTyped'
    BY <1>8 DEF Answer, NoModal
  <2> QED BY <1>8, <2>1, <2>2 DEF Answer, provider
<1>9. ASSUME NEW c \in Calls, CallFails(c) PROVE Typed'
  BY <1>9 DEF CallFails, provider
<1>10. ASSUME NEW p \in Payments, Pay(p) \/ Artifact(p) PROVE Typed'
  BY <1>10 DEF Pay, Artifact, provider
<1>11. ASSUME NEW e \in Reports, Deliver(e) \/ Find(e) \/ Apply(e) \/ HookFails(e)
       PROVE Typed'
  <2>1. e[1] \in Payments /\ e[2] \in {"PAID", "FAILED"}
    BY DEF Reports
  <2>2. PayTyped' /\ HookTyped'
    BY <1>11, <2>1 DEF Deliver, Find, Apply, HookFails, HookAt
  <2> QED BY <1>11, <2>2 DEF Deliver, Find, Apply, HookFails, HookAt, provider
<1>12. ASSUME NEW t \in Tabs, Refresh(t) \/ ServeList(t) \/ ShowList(t) \/ CloseRefund(t)
       PROVE Typed'
  <2>1. Copy \in Shown
    BY DEF Copy, Shown
  <2>2. NotRead \in Shown
    BY DEF Shown
  <2>3. CASE Refresh(t)
    BY <2>3 DEF Refresh, provider
  <2>6. CASE CloseRefund(t)
    <3>1. NoModal \in [pay : Names, refunded : Nat]
      BY DEF NoModal
    <3> QED BY <2>6, <3>1 DEF CloseRefund, provider
  <2>4. CASE ServeList(t)
    BY <2>1, <2>4 DEF ServeList, provider
  <2>5. CASE ShowList(t)
    BY <2>2, <2>5 DEF ShowList, provider
  <2> QED BY <1>12, <2>3, <2>4, <2>5, <2>6
<1>13. ASSUME NEW t \in Tabs, NEW p \in Payments, OpenRefund(t, p) PROVE Typed'
  <2>1. page[t].rows[p].refunded \in Nat
    BY <1>13 DEF OpenRefund, Shown
  <2> QED BY <1>13, <2>1 DEF OpenRefund, provider
<1>14. CASE UNCHANGED vars
  BY <1>14 DEF vars
<1> QED BY <1>1, <1>2, <1>3, <1>4, <1>5, <1>6, <1>7, <1>8, <1>9, <1>10, <1>11, <1>12,
           <1>13, <1>14 DEF Next

-----------------------------------------------------------------------------
(* Recorded refunds.                                                       *)

Refunding(c, p) == call[c].at \in InRefund /\ call[c].pay = p
Single(p) ==
  p \notin overlap =>
    /\ pay[p].refunded <= Amount[p]
    /\ \A c \in Calls : Refunding(c, p) =>
         /\ call[c].seen = pay[p].refunded
         /\ call[c].seen + call[c].amount <= Amount[p]
    /\ \A c, d \in Calls : Refunding(c, p) /\ Refunding(d, p) => c = d
AllSingle == \A p \in Payments : Single(p)

\* What Single speaks about is left alone by most steps: the refunds under
\* way of a payment do not grow and its row keeps its sum.
Quiet(p) ==
  /\ pay'[p].refunded = pay[p].refunded
  /\ overlap' = overlap
  /\ \A c \in Calls : Refunding(c, p)' =>
       /\ Refunding(c, p)
       /\ call'[c].seen = call[c].seen /\ call'[c].amount = call[c].amount

LEMMA QuietKeeps == ASSUME NEW p \in Payments, Single(p), Quiet(p) PROVE Single(p)'
  BY DEF Single, Quiet

LEMMA StepSingle == Typed /\ AllSingle /\ [Next]_vars => AllSingle'
<1> SUFFICES ASSUME Typed, AllSingle, [Next]_vars, NEW q \in Payments PROVE Single(q)'
  BY DEF AllSingle
<1>0. Single(q)
  BY DEF AllSingle
<1> USE PaymentsAssumption
<1> USE DEF Typed, PayTyped, CallTyped, Names
<1>1. ASSUME NEW c \in Calls, NEW p \in Payments, Create(c, p) PROVE Quiet(q)
  BY <1>1 DEF Create, CallAt, Unused, NoRow, Quiet, Refunding, InRefund
<1>2. ASSUME NEW c \in Calls, Checkout(c) PROVE Quiet(q)
  BY <1>2 DEF Checkout, Continue, CallAt, Quiet, Refunding, InRefund
<1>3. ASSUME NEW c \in Calls, Attach(c) PROVE Quiet(q)
  BY <1>3 DEF Attach, Continue, CallAt, Quiet, Refunding, InRefund
<1>4. ASSUME NEW c \in Calls, NEW t \in Tabs, NEW a \in 1 .. Owed(t), Confirm(t, c, a)
      PROVE Quiet(q)
  BY <1>4 DEF Confirm, CallAt, Quiet, Refunding, InRefund
<1>5. ASSUME NEW c \in Calls, ReadPayment(c) PROVE Single(q)'
  <2>1. CASE call'[c].at = "done"
    <3>1. Quiet(q)
      BY <1>5, <2>1 DEF ReadPayment, Quiet, Refunding, InRefund
    <3> QED BY <1>0, <3>1, QuietKeeps
  <2>2. CASE call'[c].at # "done" /\ call[c].pay # q
    <3>1. /\ pay' = pay
          /\ q \in overlap' <=> q \in overlap
          /\ \A d \in Calls : Refunding(d, q)' => Refunding(d, q) /\ call'[d] = call[d]
      BY <1>5, <2>2 DEF ReadPayment, Refunding, InRefund
    <3> QED BY <1>0, <3>1 DEF Single
  <2>3. CASE call'[c].at # "done" /\ call[c].pay = q
    <3>1. /\ pay' = pay /\ call[c].at = "read"
          /\ call[c].amount <= Amount[q] - pay[q].refunded
          /\ call' = [call EXCEPT ![c] =
                 [at |-> "refund", pay |-> q, seen |-> pay[q].refunded,
                  amount |-> @.amount, tab |-> @.tab]]
          /\ overlap' = IF Overlaps(c) THEN overlap \cup {q} ELSE overlap
      BY <1>5, <2>3 DEF ReadPayment, Remaining
    <3>2. CASE Overlaps(c)
      BY <3>1, <3>2 DEF Single
    <3>3. CASE ~Overlaps(c)
      <4>1. \A d \in Calls : Refunding(d, q)' => d = c
        BY <2>3, <3>1, <3>3 DEF Overlaps, Refunding
      <4>2. /\ call'[c].seen = pay[q].refunded /\ call'[c].amount = call[c].amount
        BY <3>1
      <4>3. overlap' = overlap
        BY <3>1, <3>3
      <4>4. pay[q].refunded + call[c].amount <= Amount[q]
        BY <3>1
      <4> QED BY <1>0, <3>1, <4>1, <4>2, <4>3, <4>4 DEF Single
    <3> QED BY <3>2, <3>3
  <2> QED BY <2>1, <2>2, <2>3
<1>6. ASSUME NEW c \in Calls, GatewayRefund(c) PROVE Quiet(q)
  BY <1>6 DEF GatewayRefund, Quiet, Refunding, InRefund
<1>7. ASSUME NEW c \in Calls, RecordRefund(c) PROVE Single(q)'
  <2> USE <1>7 DEF RecordRefund
  <2>1. overlap' = overlap /\ ~Refunding(c, q)' /\ call[c].pay \in Payments
    BY DEF Refunding, InRefund, Working
  <2>2. \A d \in Calls : Refunding(d, q)' => Refunding(d, q) /\ call'[d] = call[d]
    BY <2>1 DEF Refunding, InRefund
  <2>3. CASE pay'[q] = pay[q]
    BY <1>0, <2>1, <2>2, <2>3 DEF Single
  <2>4. CASE pay'[q] # pay[q]
    <3>1. Refunding(c, q) /\ pay'[q].refunded = pay[q].refunded + call[c].amount
      BY <2>1, <2>4 DEF Refunding, InRefund, RefundedAfter
    <3>2. q \notin overlap => \A d \in Calls : ~Refunding(d, q)'
      BY <1>0, <2>1, <2>2, <3>1 DEF Single
    <3> QED BY <1>0, <2>1, <3>1, <3>2 DEF Single
  <2> QED BY <2>3, <2>4
<1>8. ASSUME NEW c \in Calls, Answer(c) \/ CallFails(c) PROVE Quiet(q)
  BY <1>8 DEF Answer, CallFails, Continue, CallAt, Quiet, Refunding, InRefund
<1>9. ASSUME NEW p \in Payments, Pay(p) \/ Artifact(p) PROVE Quiet(q)
  BY <1>9 DEF Pay, Artifact, Quiet, Refunding
<1>10. ASSUME NEW e \in Reports, Deliver(e) \/ Find(e) \/ Apply(e) \/ HookFails(e)
       PROVE Quiet(q)
  BY <1>10 DEF Deliver, Find, Apply, HookFails, HookAt, Quiet, Refunding, Reports
<1>11. ASSUME NEW t \in Tabs, Refresh(t) \/ ServeList(t) \/ ShowList(t) \/ CloseRefund(t)
                              \/ \E p \in Payments : OpenRefund(t, p)
       PROVE Quiet(q)
  BY <1>11 DEF Refresh, ServeList, ShowList, CloseRefund, OpenRefund, Quiet, Refunding
<1>12. CASE UNCHANGED vars
  BY <1>0, <1>12 DEF vars, Single, Refunding
<1>13. Quiet(q) => Single(q)'
  BY <1>0, QuietKeeps
<1> QED BY <1>1, <1>2, <1>3, <1>4, <1>5, <1>6, <1>7, <1>8, <1>9, <1>10, <1>11, <1>12,
           <1>13 DEF Next

\* The recorded refunds of a payment exceed what was paid only if two refunds
\* of it were between PaymentService.refund's check and its record at once.
THEOREM OverRefund == Spec => []OverRefundNeedsOverlap
<1>1. Init => AllSingle
  BY PaymentsAssumption
  DEF Init, AllSingle, Single, Refunding, InRefund, NoRow, Unused
<1>2. Typed /\ AllSingle => OverRefundNeedsOverlap
  BY PaymentsAssumption DEF Typed, PayTyped, AllSingle, Single, OverRefundNeedsOverlap
<1> QED BY <1>1, <1>2, InitTyped, StepTyped, StepSingle, PTL DEF Spec

-----------------------------------------------------------------------------
(* What was paid.                                                          *)

Backed(p) ==
  /\ pay[p].status \in Receipted \/ p \in receipts \/ pay[p].refunded > 0 => p \in paid
  /\ hook[<<p, "PAID">>] # "new" => p \in paid
  /\ \A c \in Calls : Refunding(c, p) => p \in paid
AllBacked == \A p \in Payments : Backed(p)

LEMMA StepBacked == Typed /\ AllBacked /\ [Next]_vars => AllBacked'
<1> SUFFICES ASSUME Typed, AllBacked, [Next]_vars, NEW q \in Payments PROVE Backed(q)'
  BY DEF AllBacked
<1>0. Backed(q)
  BY DEF AllBacked
<1> USE PaymentsAssumption, <1>0
<1> USE DEF Typed, PayTyped, CallTyped, HookTyped, Names, Backed, Refunding, InRefund,
            Receipted, Refundable
<1>1. ASSUME NEW c \in Calls, NEW p \in Payments, Create(c, p) PROVE Backed(q)'
  BY <1>1 DEF Create, CallAt, Unused, NoRow, provider
<1>2. ASSUME NEW c \in Calls, Checkout(c) PROVE Backed(q)'
  BY <1>2 DEF Checkout, Continue, CallAt
<1>3. ASSUME NEW c \in Calls, Attach(c) PROVE Backed(q)'
  BY <1>3 DEF Attach, Continue, CallAt, provider, CheckoutStatus
<1>4. ASSUME NEW c \in Calls, NEW t \in Tabs, NEW a \in 1 .. Owed(t), Confirm(t, c, a)
      PROVE Backed(q)'
  BY <1>4 DEF Confirm, CallAt, provider
<1>5. ASSUME NEW c \in Calls, ReadPayment(c) PROVE Backed(q)'
  <2>1. UNCHANGED <<pay, hook, receipts, paid>>
    BY <1>5 DEF ReadPayment, provider
  <2>2. \A d \in Calls : Refunding(d, q)' =>
          Refunding(d, q) \/ (pay[q].status \in Refundable)
    <3>1. CASE call' = [call EXCEPT ![c].at = "done"]
      BY <3>1
    <3>2. CASE /\ call' = [call EXCEPT ![c] =
                   [at |-> "refund", pay |-> call[c].pay, seen |-> pay[call[c].pay].refunded,
                    amount |-> @.amount, tab |-> @.tab]]
               /\ pay[call[c].pay].status \in Refundable
      BY <3>2
    <3> QED BY <1>5, <3>1, <3>2 DEF ReadPayment
  <2> QED BY <2>1, <2>2
<1>6. ASSUME NEW c \in Calls, GatewayRefund(c) PROVE Backed(q)'
  BY <1>6 DEF GatewayRefund
<1>7. ASSUME NEW c \in Calls, RecordRefund(c) PROVE Backed(q)'
  <2> USE <1>7 DEF RecordRefund, provider
  <2>1. paid' = paid /\ hook' = hook /\ receipts' = receipts
    OBVIOUS
  <2>2. \A d \in Calls : Refunding(d, q)' => Refunding(d, q)
    OBVIOUS
  <2>3. pay'[q] = pay[q] \/ q \in paid
    OBVIOUS
  <2> QED BY <2>1, <2>2, <2>3
<1>8. ASSUME NEW c \in Calls, Answer(c) \/ CallFails(c) PROVE Backed(q)'
  BY <1>8 DEF Answer, CallFails, Continue, CallAt, provider
<1>9. ASSUME NEW p \in Payments, Pay(p) \/ Artifact(p) PROVE Backed(q)'
  BY <1>9 DEF Pay, Artifact, provider
<1>10. ASSUME NEW e \in Reports, Deliver(e) \/ Find(e) \/ HookFails(e) PROVE Backed(q)'
  BY <1>10 DEF Deliver, Find, HookFails, HookAt, provider, Reports
<1>11. ASSUME NEW e \in Reports, Apply(e) PROVE Backed(q)'
  <2>1. PICK p \in Payments, s \in {"PAID", "FAILED"} : e = <<p, s>>
    BY DEF Reports
  <2>2. /\ paid' = paid /\ receipts' = receipts /\ call' = call
        /\ hook[e] = "apply" /\ hook' = [hook EXCEPT ![e] = "applied"]
        /\ pay' = [pay EXCEPT ![p].status = s]
    BY <1>11, <2>1 DEF Apply, HookAt, provider
  <2>3. hook'[<<q, "PAID">>] # "new" => q \in paid
    BY <2>2 DEF Reports
  <2>4. pay'[q].status \in Receipted => q \in paid
    <3>1. CASE p = q /\ s = "PAID"
      BY <2>1, <2>2, <3>1
    <3>2. CASE p # q \/ s = "FAILED"
      BY <2>2, <3>2
    <3> QED BY <3>1, <3>2
  <2>5. pay'[q].refunded = pay[q].refunded
    BY <2>2
  <2> QED BY <2>2, <2>3, <2>4, <2>5
<1>12. ASSUME NEW t \in Tabs, Refresh(t) \/ ServeList(t) \/ ShowList(t) \/ CloseRefund(t)
                              \/ \E p \in Payments : OpenRefund(t, p)
       PROVE Backed(q)'
  BY <1>12 DEF Refresh, ServeList, ShowList, CloseRefund, OpenRefund, provider
<1>13. CASE UNCHANGED vars
  BY <1>13 DEF vars, provider
<1> QED BY <1>1, <1>2, <1>3, <1>4, <1>5, <1>6, <1>7, <1>8, <1>9, <1>10, <1>11, <1>12,
           <1>13 DEF Next

\* A payment is shown as paid, receipted or refunded only if the provider was
\* paid, in whatever order reconcile handles its reports.
THEOREM PaidBacked == Spec => []PaidIsBacked
<1>1. Init => AllBacked
  <2> SUFFICES ASSUME Init, NEW p \in Payments PROVE Backed(p)
    BY DEF AllBacked
  <2>1. hook[<<p, "PAID">>] = "new"
    BY DEF Init, Reports
  <2>2. ~(pay[p].status \in Receipted \/ p \in receipts \/ pay[p].refunded > 0)
    BY PaymentsAssumption DEF Init, NoRow, Receipted, Refundable
  <2>3. \A c \in Calls : ~Refunding(c, p)
    BY DEF Init, Refunding, InRefund, Unused
  <2> QED BY <2>1, <2>2, <2>3 DEF Backed
<1>2. AllBacked => PaidIsBacked
  BY DEF AllBacked, Backed, PaidIsBacked
<1> QED BY <1>1, <1>2, InitTyped, StepTyped, StepBacked, PTL DEF Spec
-----------------------------------------------------------------------------
(* What the rows add up to.                                                *)

LEMMA UpTo == ASSUME NEW n \in Nat PROVE IsFiniteSet(1 .. n) /\ Cardinality(1 .. n) = n
BY FS_Interval

LEMMA NoUnits == ASSUME NEW p PROVE IsFiniteSet(UnitsOf({}, p)) /\ SumOf({}, p) = 0
<1>1. UnitsOf({}, p) = {}
  BY DEF UnitsOf
<1> QED BY <1>1, FS_EmptySet DEF SumOf

\* A new row adds its amount to the sum of its payment, and only to that.
LEMMA UnitsAdd ==
  ASSUME NEW rows, NEW r, r \notin rows, r.amount \in Nat, NEW p, IsFiniteSet(UnitsOf(rows, p))
  PROVE  /\ IsFiniteSet(UnitsOf(rows \cup {r}, p))
         /\ SumOf(rows \cup {r}, p) =
              IF r.pay = p THEN SumOf(rows, p) + r.amount ELSE SumOf(rows, p)
<1> DEFINE new == {r} \X (1 .. r.amount)
<1>1. CASE r.pay = p
  <2>1. UnitsOf(rows \cup {r}, p) = UnitsOf(rows, p) \cup new
    BY <1>1 DEF UnitsOf
  <2>2. UnitsOf(rows, p) \cap new = {}
    <3> SUFFICES ASSUME NEW u \in UnitsOf(rows, p), u \in new PROVE FALSE
      OBVIOUS
    <3>1. PICK x \in rows : u \in {x} \X (1 .. x.amount)
      BY DEF UnitsOf
    <3>2. u[1] = x /\ u[1] = r
      BY <3>1
    <3> QED BY <3>2
  <2>3. IsFiniteSet(new) /\ Cardinality(new) = r.amount
    <3>1. IsFiniteSet({r}) /\ Cardinality({r}) = 1
      BY FS_Singleton
    <3>2. IsFiniteSet(1 .. r.amount) /\ Cardinality(1 .. r.amount) = r.amount
      BY UpTo
    <3>3. IsFiniteSet(new) /\ Cardinality(new) = 1 * r.amount
      BY <3>1, <3>2, FS_Product
    <3> QED BY <3>3
  <2>4. Cardinality(UnitsOf(rows, p) \cap new) = 0
    BY <2>2, FS_EmptySet
  <2>5. Cardinality(UnitsOf(rows, p)) \in Nat
    BY FS_CardinalityType
  <2>6. /\ IsFiniteSet(UnitsOf(rows, p) \cup new)
        /\ Cardinality(UnitsOf(rows, p) \cup new) =
             Cardinality(UnitsOf(rows, p)) + Cardinality(new)
               - Cardinality(UnitsOf(rows, p) \cap new)
    <3> HIDE DEF new
    <3> QED BY <2>3, FS_Union
  <2> HIDE DEF new
  <2>7. Cardinality(UnitsOf(rows, p) \cup new) = Cardinality(UnitsOf(rows, p)) + r.amount
    BY <2>3, <2>4, <2>5, <2>6
  <2>8. SumOf(rows \cup {r}, p) = SumOf(rows, p) + r.amount
    BY <2>1, <2>7, Zenon DEF SumOf
  <2>9. IsFiniteSet(UnitsOf(rows \cup {r}, p))
    BY <2>1, <2>6
  <2> QED BY <1>1, <2>8, <2>9, Zenon
<1>2. CASE r.pay # p
  <2>1. {x \in rows \cup {r} : x.pay = p} = {x \in rows : x.pay = p}
    <3>1. ASSUME NEW x \in rows \cup {r}, x.pay = p PROVE x \in rows
      <4>1. x # r
        BY <1>2, <3>1, Zenon
      <4> QED BY <4>1
    <3> QED BY <3>1
  <2>2. UnitsOf(rows \cup {r}, p) = UnitsOf(rows, p)
    BY <2>1 DEF UnitsOf
  <2> QED BY <1>2, <2>2 DEF SumOf
<1> QED BY <1>1, <1>2

Adds(p) == IsFiniteSet(UnitsOf(refunds, p)) /\ pay[p].refunded = SumOf(refunds, p)
AllAdd == \A p \in Payments : Adds(p)

\* Only RecordRefund changes the ledger or the sum in a row.
LEMMA LedgerFrame ==
  ASSUME Typed, [Next]_vars, NEW q \in Payments
  PROVE  \/ refunds' = refunds /\ pay'[q].refunded = pay[q].refunded
         \/ \E c \in Calls : RecordRefund(c)
<1> SUFFICES ASSUME \A c \in Calls : ~ RecordRefund(c)
             PROVE  refunds' = refunds /\ pay'[q].refunded = pay[q].refunded
  OBVIOUS
<1> USE DEF Typed, PayTyped, CallTyped, Working, Names
<1>1. ASSUME NEW c \in Calls, \/ \E p \in Payments : Create(c, p)
                              \/ Checkout(c) \/ Attach(c)
      PROVE  refunds' = refunds /\ pay'[q].refunded = pay[q].refunded
  <2>1. CASE Attach(c)
    BY <2>1 DEF Attach, Continue, CallAt
  <2>2. ASSUME NEW p \in Payments, Create(c, p)
        PROVE  refunds' = refunds /\ pay'[q].refunded = pay[q].refunded
    BY <2>2 DEF Create, NoRow
  <2> QED BY <1>1, <2>1, <2>2 DEF Checkout
<1>2. ASSUME NEW c \in Calls, \/ \E t \in Tabs : \E a \in 1 .. Owed(t) : Confirm(t, c, a)
                              \/ ReadPayment(c) \/ GatewayRefund(c)
                              \/ Answer(c) \/ CallFails(c)
      PROVE  refunds' = refunds /\ pay'[q].refunded = pay[q].refunded
  BY <1>2 DEF Confirm, ReadPayment, GatewayRefund, Answer, CallFails
<1>3. ASSUME NEW p \in Payments, Pay(p) \/ Artifact(p)
      PROVE  refunds' = refunds /\ pay'[q].refunded = pay[q].refunded
  BY <1>3 DEF Pay, Artifact
<1>4. ASSUME NEW e \in Reports, Deliver(e) \/ Find(e) \/ Apply(e) \/ HookFails(e)
      PROVE  refunds' = refunds /\ pay'[q].refunded = pay[q].refunded
  BY <1>4 DEF Deliver, Find, Apply, HookFails, Reports
<1>5. ASSUME NEW t \in Tabs, \/ Refresh(t) \/ ServeList(t) \/ ShowList(t) \/ CloseRefund(t)
                             \/ \E p \in Payments : OpenRefund(t, p)
      PROVE  refunds' = refunds /\ pay'[q].refunded = pay[q].refunded
  BY <1>5 DEF Refresh, ServeList, ShowList, CloseRefund, OpenRefund
<1>6. CASE UNCHANGED vars
  BY <1>6 DEF vars
<1> QED BY <1>1, <1>2, <1>3, <1>4, <1>5, <1>6 DEF Next

LEMMA StepAdds == Typed /\ AllAdd /\ [Next]_vars => AllAdd'
<1> SUFFICES ASSUME Typed, AllAdd, [Next]_vars, NEW q \in Payments PROVE Adds(q)'
  BY DEF AllAdd
<1>0. Adds(q)
  BY DEF AllAdd
<1>1. CASE refunds' = refunds /\ pay'[q].refunded = pay[q].refunded
  BY <1>0, <1>1 DEF Adds
<1>2. ASSUME NEW c \in Calls, RecordRefund(c) PROVE Adds(q)'
  <2> DEFINE p == call[c].pay
             r == [pay |-> p, key |-> RefundKey(c), amount |-> call[c].amount]
  <2>1. p \in Payments /\ call[c].amount \in Nat /\ pay[q].refunded \in Nat
    BY <1>2 DEF RecordRefund, Typed, Working, CallTyped, PayTyped
  <2>2. CASE \E x \in refunds : x.pay = p /\ x.key = RefundKey(c)
    BY <1>0, <1>2, <2>2 DEF RecordRefund, Adds
  <2>3. CASE ~ \E x \in refunds : x.pay = p /\ x.key = RefundKey(c)
    <3>1. /\ refunds' = refunds \cup {r} /\ r \notin refunds
          /\ r.pay = p /\ r.amount = call[c].amount
      BY <1>2, <2>3 DEF RecordRefund
    <3>2. pay'[q].refunded =
            IF q = p THEN pay[q].refunded + call[c].amount ELSE pay[q].refunded
      BY <1>2, <2>1, <2>3 DEF RecordRefund, RefundedAfter, Typed, PayTyped
    <3> HIDE DEF r
    <3>3. /\ IsFiniteSet(UnitsOf(refunds', q))
          /\ SumOf(refunds', q) =
               IF r.pay = q THEN SumOf(refunds, q) + r.amount ELSE SumOf(refunds, q)
      BY <1>0, <2>1, <3>1, UnitsAdd DEF Adds
    <3> QED BY <1>0, <3>1, <3>2, <3>3 DEF Adds
  <2> QED BY <2>2, <2>3
<1> QED BY <1>1, <1>2, LedgerFrame

\* refunded_minor of a payment is the sum of its rows in payment_refunds, with
\* any number of refunds of it between recordRefund's statements and anywhere else.
THEOREM LedgerSums == Spec => []LedgerAdds
<1>1. Init => AllAdd
  BY NoUnits DEF Init, NoRow, AllAdd, Adds
<1>2. AllAdd => LedgerAdds
  BY DEF AllAdd, Adds, LedgerAdds
<1> QED BY <1>1, <1>2, InitTyped, StepTyped, StepAdds, PTL DEF Spec
-----------------------------------------------------------------------------
(* Refunds of one amount.                                                  *)

Asked(c, p) == call[c].tab # None /\ call[c].pay = p
Uniform(p, a) == \A c \in Calls : Asked(c, p) => call[c].amount = a
Multiple(n, a) == \E k \in Nat : n = a * k

\* A request of the page names its tab and a positive amount, and is the only
\* kind that comes to PaymentService.refund.
FromPage(c) ==
  /\ call[c].at \in {"read"} \cup InRefund => call[c].tab # None
  /\ call[c].tab # None => call[c].pay # None /\ call[c].amount > 0
  /\ call[c].at = "unused" => call[c].tab = None

\* When all requests for p name the amount a, the row, the copies of it and the
\* keys are multiples of a, and a refund of a still fitted when it was checked.
Steps(p, a) ==
  /\ Multiple(pay[p].refunded, a)
  /\ \A c \in Calls : Refunding(c, p) =>
       Multiple(call[c].seen, a) /\ call[c].seen + a <= Amount[p]
  /\ \A r \in made : r.pay = p =>
       r.amount = a /\ r.key <= Amount[p] /\ \E k \in Nat : r.key = a * (k + 1)

MadeTyped == made \subseteq [pay : Payments, key : Nat, amount : Nat]
Stepwise ==
  /\ MadeTyped
  /\ \A c \in Calls : FromPage(c)
  /\ \A p \in Payments, a \in Nat \ {0} : Uniform(p, a) => Steps(p, a)

LEMMA MultipleAdds ==
  ASSUME NEW n \in Nat, NEW a \in Nat, Multiple(n, a)
  PROVE  Multiple(n + a, a) /\ \E k \in Nat : n + a = a * (k + 1)
<1>1. PICK k \in Nat : n = a * k
  BY DEF Multiple
<1>2. n + a = a * (k + 1) /\ k + 1 \in Nat
  BY <1>1
<1> QED BY <1>2 DEF Multiple

\* No request changes its payment, its amount or its tab once it is made.
CallsStand ==
  /\ \A c \in Calls : FromPage(c)'
  /\ \A c \in Calls : call[c].tab # None =>
       /\ call'[c].tab = call[c].tab
       /\ call'[c].pay = call[c].pay
       /\ call'[c].amount = call[c].amount

LEMMA CallsKeep ==
  ASSUME Typed, \A c \in Calls : FromPage(c), [Next]_vars
  PROVE  CallsStand
<1> USE DEF CallsStand
<1> USE DEF Typed, CallTyped, Names, FromPage, InRefund
<1>1. ASSUME NEW c \in Calls, NEW p \in Payments, Create(c, p) PROVE CallsStand
  <2>1. call[c].at = "unused" /\ call[c].tab = None
    BY <1>1 DEF Create, CallAt
  <2>2. call'[c].at = "checkout" /\ call'[c].tab = None
    BY <1>1 DEF Create, CallAt, Unused
  <2>3. \A d \in Calls \ {c} : call'[d] = call[d]
    BY <1>1 DEF Create, CallAt
  <2> QED BY <2>1, <2>2, <2>3
<1>2. ASSUME NEW c \in Calls, NEW next \in {"attach", "record", "done", "answer"},
             call' = [call EXCEPT ![c].at = next], call[c].at # "unused",
             next = "record" => call[c].at = "refund"
      PROVE  CallsStand
  <2>1. /\ call'[c].at = next /\ call'[c].tab = call[c].tab
        /\ call'[c].pay = call[c].pay /\ call'[c].amount = call[c].amount
    BY <1>2
  <2>2. \A d \in Calls \ {c} : call'[d] = call[d]
    BY <1>2
  <2> QED BY <1>2, <2>1, <2>2
<1>3. ASSUME NEW c \in Calls, Checkout(c) \/ Attach(c) \/ Answer(c) PROVE CallsStand
  <2>1. call[c].at # "unused" /\ \E next \in {"attach", "done"} :
          call' = [call EXCEPT ![c].at = next]
    BY <1>3 DEF Checkout, Attach, Answer, Continue, CallAt
  <2> QED BY <1>2, <2>1
<1>4. ASSUME NEW c \in Calls, NEW t \in Tabs, NEW a \in 1 .. Owed(t), Confirm(t, c, a)
      PROVE  CallsStand
  <2>1. page[t].modal.pay # None
    BY <1>4 DEF Owed
  <2>2. /\ call[c].at = "unused" /\ call[c].tab = None /\ a \in Nat /\ a > 0
        /\ call' = [call EXCEPT ![c] = [at |-> "read", pay |-> page[t].modal.pay,
                                        amount |-> a, seen |-> 0, tab |-> t]]
    BY <1>4 DEF Confirm, CallAt
  <2>3. t # None
    BY TabsAssumption
  <2> QED BY <2>1, <2>2, <2>3
<1>5. ASSUME NEW c \in Calls, ReadPayment(c) PROVE CallsStand
  <2>1. CASE call' = [call EXCEPT ![c].at = "done"]
    BY <1>2, <1>5, <2>1 DEF ReadPayment
  <2>2. CASE call' = [call EXCEPT ![c] = [at |-> "refund", pay |-> call[c].pay,
                        seen |-> pay[call[c].pay].refunded, amount |-> @.amount,
                        tab |-> @.tab]]
    <3>1. call[c].at = "read"
      BY <1>5 DEF ReadPayment
    <3> QED BY <2>2, <3>1
  <2> QED BY <1>5, <2>1, <2>2 DEF ReadPayment
<1>6. ASSUME NEW c \in Calls, GatewayRefund(c) \/ RecordRefund(c) PROVE CallsStand
  <2>1. /\ call[c].at \in InRefund
        /\ \E next \in {"record", "done", "answer"} :
             /\ call' = [call EXCEPT ![c].at = next]
             /\ next = "record" => call[c].at = "refund"
    BY <1>6 DEF GatewayRefund, RecordRefund
  <2> QED BY <1>2, <2>1
<1>7. ASSUME NEW c \in Calls, CallFails(c) PROVE CallsStand
  BY <1>2, <1>7 DEF CallFails
<1>8. ASSUME call' = call PROVE CallsStand
  BY <1>8
<1>9. ASSUME NEW p \in Payments, Pay(p) \/ Artifact(p) PROVE CallsStand
  BY <1>8, <1>9 DEF Pay, Artifact
<1>10. ASSUME NEW e \in Reports, Deliver(e) \/ Find(e) \/ Apply(e) \/ HookFails(e)
       PROVE CallsStand
  BY <1>8, <1>10 DEF Deliver, Find, Apply, HookFails
<1>11. ASSUME NEW t \in Tabs, Refresh(t) \/ ServeList(t) \/ ShowList(t) \/ CloseRefund(t)
                              \/ \E p \in Payments : OpenRefund(t, p)
       PROVE CallsStand
  BY <1>8, <1>11 DEF Refresh, ServeList, ShowList, CloseRefund, OpenRefund
<1>12. CASE UNCHANGED vars
  BY <1>8, <1>12 DEF vars
<1> HIDE DEF CallsStand, Typed, CallTyped, Names, FromPage, InRefund
<1> QED BY <1>1, <1>3, <1>4, <1>5, <1>6, <1>7, <1>9, <1>10, <1>11, <1>12 DEF Next

LEMMA UniformBefore ==
  ASSUME Typed, \A c \in Calls : FromPage(c), [Next]_vars,
         NEW p \in Payments, NEW a, Uniform(p, a)'
  PROVE  Uniform(p, a)
BY CallsKeep DEF CallsStand, Uniform, Asked

\* What Steps speaks about is left alone by most steps.
Still(p) ==
  /\ pay'[p].refunded = pay[p].refunded
  /\ made' = made
  /\ \A c \in Calls : Refunding(c, p)' => Refunding(c, p) /\ call'[c].seen = call[c].seen

LEMMA StillKeeps ==
  ASSUME NEW p \in Payments, NEW a, Steps(p, a), Still(p) PROVE Steps(p, a)'
BY DEF Steps, Still

LEMMA StillSteps ==
  ASSUME Typed, [Next]_vars, NEW q \in Payments,
         ~ \E c \in Calls : ReadPayment(c) \/ GatewayRefund(c) \/ RecordRefund(c)
  PROVE  Still(q)
<1> USE DEF Typed, PayTyped, CallTyped, Working, Names, provider
<1>1. ASSUME NEW c \in Calls, NEW p \in Payments, Create(c, p) PROVE Still(q)
  BY <1>1 DEF Create, CallAt, Unused, NoRow, Still, Refunding, InRefund
<1>2. ASSUME NEW c \in Calls, Checkout(c) PROVE Still(q)
  BY <1>2 DEF Checkout, Continue, CallAt, Still, Refunding, InRefund
<1>3. ASSUME NEW c \in Calls, Attach(c) PROVE Still(q)
  BY <1>3 DEF Attach, Continue, CallAt, Still, Refunding, InRefund
<1>4. ASSUME NEW c \in Calls, NEW t \in Tabs, NEW a \in 1 .. Owed(t), Confirm(t, c, a)
      PROVE Still(q)
  BY <1>4 DEF Confirm, CallAt, Still, Refunding, InRefund
<1>5. ASSUME NEW c \in Calls, Answer(c) \/ CallFails(c) PROVE Still(q)
  BY <1>5 DEF Answer, CallFails, Continue, CallAt, Still, Refunding, InRefund
<1>6. ASSUME NEW p \in Payments, Pay(p) \/ Artifact(p) PROVE Still(q)
  BY <1>6 DEF Pay, Artifact, Still, Refunding
<1>7. ASSUME NEW e \in Reports, Deliver(e) \/ Find(e) \/ Apply(e) \/ HookFails(e)
      PROVE Still(q)
  BY <1>7 DEF Deliver, Find, Apply, HookFails, HookAt, Still, Refunding, Reports
<1>8. ASSUME NEW t \in Tabs, Refresh(t) \/ ServeList(t) \/ ShowList(t) \/ CloseRefund(t)
                              \/ \E p \in Payments : OpenRefund(t, p)
      PROVE Still(q)
  BY <1>8 DEF Refresh, ServeList, ShowList, CloseRefund, OpenRefund, Still, Refunding
<1>9. CASE UNCHANGED vars
  BY <1>9 DEF vars, Still, Refunding
<1> HIDE DEF Typed, PayTyped, CallTyped, Working, Names, provider
<1> QED BY <1>1, <1>2, <1>3, <1>4, <1>5, <1>6, <1>7, <1>8, <1>9 DEF Next

LEMMA StepStepwise == Typed /\ Stepwise /\ [Next]_vars => Stepwise'
<1> SUFFICES ASSUME Typed, Stepwise, [Next]_vars PROVE Stepwise'
  OBVIOUS
<1>1. \A c \in Calls : FromPage(c) /\ FromPage(c)'
  BY CallsKeep DEF CallsStand, Stepwise
<1>2. MadeTyped'
  <2>1. made' = made \/ \E c \in Calls : GatewayRefund(c)
    BY DEF Next, Create, Checkout, Attach, Confirm, ReadPayment, RecordRefund, Answer,
           CallFails, Pay, Artifact, Deliver, Find, Apply, HookFails, Refresh, ServeList,
           ShowList, CloseRefund, OpenRefund, vars, provider
  <2>2. ASSUME NEW c \in Calls, GatewayRefund(c) PROVE MadeTyped'
    <3>1. call[c].pay \in Payments /\ RefundKey(c) \in Nat /\ call[c].amount \in Nat
      BY <2>2 DEF GatewayRefund, Typed, Working, CallTyped, RefundKey
    <3> QED BY <2>2, <3>1 DEF GatewayRefund, MadeTyped, Stepwise
  <2> QED BY <2>1, <2>2 DEF MadeTyped, Stepwise
<1>3. ASSUME NEW p \in Payments, NEW a \in Nat \ {0}, Uniform(p, a)' PROVE Steps(p, a)'
  <2>1. Uniform(p, a) /\ Steps(p, a)
    BY <1>1, <1>3, UniformBefore DEF Stepwise
  <2>2. \A c \in Calls : call[c].pay = p /\ call[c].at \in {"read"} \cup InRefund =>
          call[c].amount = a
    BY <1>1, <2>1 DEF Uniform, Asked, FromPage
  <2>3. /\ pay[p].refunded \in Nat /\ Amount[p] \in Nat
        /\ \A c \in Calls : call[c].seen \in Nat /\ call[c].amount \in Nat
    BY PaymentsAssumption DEF Typed, PayTyped, CallTyped
  <2>4. ASSUME NEW c \in Calls, ReadPayment(c) PROVE Steps(p, a)'
    <3>1. pay' = pay /\ made' = made /\ call[c].at = "read"
      BY <2>4 DEF ReadPayment, provider
    <3>2. \A d \in Calls \ {c} : call'[d] = call[d]
      BY <2>4 DEF ReadPayment, Typed, CallTyped
    <3>3. Refunding(c, p)' =>
            /\ call[c].pay = p /\ call'[c].seen = pay[p].refunded
            /\ call[c].amount <= Amount[p] - pay[p].refunded
      BY <2>4 DEF ReadPayment, Typed, CallTyped, Refunding, InRefund, Remaining
    <3>4. Refunding(c, p)' => Multiple(call'[c].seen, a) /\ call'[c].seen + a <= Amount[p]
      BY <2>1, <2>2, <2>3, <3>1, <3>3 DEF Steps
    <3>5. \A d \in Calls \ {c} : Refunding(d, p)' => Refunding(d, p)
      BY <3>2 DEF Refunding
    <3>6. \A d \in Calls : Refunding(d, p)' =>
            Multiple(call'[d].seen, a) /\ call'[d].seen + a <= Amount[p]
      BY <2>1, <3>2, <3>4, <3>5 DEF Steps
    <3> QED BY <2>1, <3>1, <3>6 DEF Steps
  <2>5. ASSUME NEW c \in Calls, GatewayRefund(c) PROVE Steps(p, a)'
    <3>1. /\ pay' = pay
          /\ \A d \in Calls : Refunding(d, p)' => Refunding(d, p) /\ call'[d].seen = call[d].seen
      BY <2>5 DEF GatewayRefund, Typed, CallTyped, Refunding, InRefund
    <3>2. ASSUME NEW r \in made', r.pay = p
          PROVE  r.amount = a /\ r.key <= Amount[p] /\ \E k \in Nat : r.key = a * (k + 1)
      <4>1. CASE r \in made
        BY <2>1, <3>2, <4>1 DEF Steps
      <4>2. CASE r \notin made
        <5>1. r = [pay |-> call[c].pay, key |-> RefundKey(c), amount |-> call[c].amount]
          BY <2>5, <4>2 DEF GatewayRefund
        <5>2. Refunding(c, p) /\ call[c].amount = a /\ r.key = call[c].seen + a
          BY <2>2, <2>5, <3>2, <5>1 DEF Refunding, GatewayRefund, RefundKey, InRefund
        <5>3. Multiple(call[c].seen, a) /\ call[c].seen + a <= Amount[p]
          BY <2>1, <5>2 DEF Steps
        <5>4. \E k \in Nat : call[c].seen + a = a * (k + 1)
          BY <2>3, <5>3, MultipleAdds
        <5> QED BY <5>1, <5>2, <5>3, <5>4
      <4> QED BY <4>1, <4>2
    <3> QED BY <2>1, <3>1, <3>2 DEF Steps
  <2>6. ASSUME NEW c \in Calls, RecordRefund(c) PROVE Steps(p, a)'
    <3>1. made' = made /\ call[c].at = "record"
      BY <2>6 DEF RecordRefund, provider
    <3>2. \A d \in Calls : Refunding(d, p)' => Refunding(d, p) /\ call'[d].seen = call[d].seen
      BY <2>6 DEF RecordRefund, Typed, CallTyped, Refunding, InRefund
    <3>3. Multiple(pay'[p].refunded, a)
      <4>1. CASE pay'[p] = pay[p]
        BY <2>1, <4>1 DEF Steps
      <4>2. CASE pay'[p] # pay[p]
        <5>1. call[c].pay = p /\ pay'[p].refunded = pay[p].refunded + call[c].amount
          BY <2>6, <4>2 DEF RecordRefund, RefundedAfter, Typed, PayTyped
        <5>2. call[c].amount = a
          BY <2>2, <3>1, <5>1 DEF InRefund
        <5> QED BY <2>1, <2>3, <5>1, <5>2, MultipleAdds DEF Steps
      <4> QED BY <4>1, <4>2
    <3> QED BY <2>1, <3>1, <3>2, <3>3 DEF Steps
  <2> QED BY <2>1, <2>4, <2>5, <2>6, StillSteps, StillKeeps
<1> QED BY <1>1, <1>2, <1>3 DEF Stepwise

\* Refunds of a whose keys are different multiples of a up to Amount[p] cover
\* different units of the payment.
LEMMA StepsFit ==
  ASSUME MadeTyped, NEW p \in Payments, NEW a \in Nat \ {0}, Steps(p, a)
  PROVE  SumOf(made, p) <= Amount[p]
<1> DEFINE U == UnitsOf(made, p)
           f == [u \in U |-> (u[1].key - a) + u[2]]
<1>0. Amount[p] \in Nat
  BY PaymentsAssumption
<1>1. ASSUME NEW u \in U
      PROVE  /\ u[1] \in made /\ u[1].pay = p /\ u = <<u[1], u[2]>>
             /\ u[2] \in 1 .. a /\ u[1].amount = a /\ u[1].key <= Amount[p]
             /\ \E k \in Nat : u[1].key = a * (k + 1)
  <2>1. PICK r \in made : r.pay = p /\ u \in {r} \X (1 .. r.amount)
    BY DEF UnitsOf
  <2>2. u[1] = r /\ u[2] \in 1 .. r.amount /\ u = <<u[1], u[2]>>
    BY <2>1
  <2>3. r.amount = a /\ r.key <= Amount[p] /\ \E k \in Nat : r.key = a * (k + 1)
    BY <2>1 DEF Steps
  <2> QED BY <2>1, <2>2, <2>3
<1>2. ASSUME NEW u \in U PROVE f[u] \in 1 .. Amount[p]
  <2>1. PICK k \in Nat : u[1].key = a * (k + 1)
    BY <1>1
  <2>2. a * (k + 1) = a * k + a /\ a * k \in Nat
    OBVIOUS
  <2>3. u[2] \in 1 .. a /\ u[1].key <= Amount[p]
    BY <1>1
  <2>4. f[u] = (u[1].key - a) + u[2]
    OBVIOUS
  <2> HIDE DEF U, f
  <2> QED BY <1>0, <2>1, <2>2, <2>3, <2>4
<1>3. ASSUME NEW u \in U, NEW v \in U, f[u] = f[v] PROVE u = v
  <2>1. PICK k \in Nat : u[1].key = a * (k + 1)
    BY <1>1
  <2>2. PICK l \in Nat : v[1].key = a * (l + 1)
    BY <1>1
  <2>3. u[2] \in 1 .. a /\ v[2] \in 1 .. a
    BY <1>1
  <2>4. (u[1].key - a) + u[2] = (v[1].key - a) + v[2]
    BY <1>3
  <2> HIDE DEF U, f
  <2>5. a * k + u[2] = a * l + v[2]
    BY <2>1, <2>2, <2>3, <2>4
  <2>6. ASSUME NEW m \in Nat, NEW n \in Nat, m < n PROVE a * m + a <= a * n
    <3>1. a * (m + 1) <= a * n
      BY <2>6
    <3> QED BY <3>1
  <2>7. k = l
    BY <2>3, <2>5, <2>6
  <2>8. u[2] = v[2] /\ u[1].key = v[1].key
    <3>1. a * k \in Nat /\ a * k = a * l
      BY <2>7
    <3>2. u[2] = v[2]
      BY <2>3, <2>5, <3>1
    <3> QED BY <2>1, <2>2, <2>7, <3>2
  <2>9. /\ u[1] \in made /\ v[1] \in made
        /\ u[1].pay = v[1].pay /\ u[1].amount = v[1].amount
        /\ u = <<u[1], u[2]>> /\ v = <<v[1], v[2]>>
    BY <1>1
  <2>10. u[1] = v[1]
    BY <2>8, <2>9 DEF MadeTyped
  <2> QED BY <2>8, <2>9, <2>10
<1>4. f \in Injection(U, 1 .. Amount[p])
  BY <1>2, <1>3 DEF Injection, IsInjective
<1> HIDE DEF f, U
<1>5. IsFiniteSet(1 .. Amount[p]) /\ Cardinality(1 .. Amount[p]) = Amount[p]
  BY <1>0, UpTo
<1>6. Cardinality(U) <= Cardinality(1 .. Amount[p])
  BY <1>4, <1>5, FS_Injection
<1> QED BY <1>5, <1>6 DEF SumOf, U

\* When every refund asked of a payment names one amount, the key makes sure that
\* no retry, crash, lost answer or overlap lets the provider refund more than the
\* payment's amount.
THEOREM OneAmountFits == Spec => []SameAmountIsSafe
<1>1. Init => Stepwise
  <2> SUFFICES ASSUME Init PROVE Stepwise
    OBVIOUS
  <2>1. MadeTyped /\ \A c \in Calls : FromPage(c)
    BY DEF Init, MadeTyped, FromPage, Unused, InRefund
  <2>2. ASSUME NEW p \in Payments, NEW a \in Nat \ {0} PROVE Steps(p, a)
    <3>1. pay[p].refunded = 0 /\ 0 = a * 0
      BY DEF Init, NoRow
    <3>2. \A c \in Calls : ~Refunding(c, p)
      BY DEF Init, Unused, Refunding, InRefund
    <3> QED BY <3>1, <3>2 DEF Steps, Multiple, Init
  <2> QED BY <2>1, <2>2 DEF Stepwise
<1>2. Typed /\ Stepwise => SameAmountIsSafe
  <2> SUFFICES ASSUME Typed, Stepwise, NEW p \in Payments,
                      \A c, d \in Calls : Asked(c, p) /\ Asked(d, p) =>
                                         call[c].amount = call[d].amount
               PROVE  SumOf(made, p) <= Amount[p]
    BY DEF SameAmountIsSafe, Asked
  <2>1. \E a \in Nat \ {0} : Uniform(p, a)
    <3>1. CASE \E c \in Calls : Asked(c, p)
      <4>1. PICK c \in Calls : Asked(c, p)
        BY <3>1
      <4>2. call[c].amount \in Nat \ {0}
        BY <4>1 DEF Asked, Stepwise, FromPage, Typed, CallTyped
      <4>3. Uniform(p, call[c].amount)
        BY <4>1 DEF Uniform
      <4> QED BY <4>2, <4>3
    <3>2. CASE ~ \E c \in Calls : Asked(c, p)
      <4>1. Uniform(p, 1)
        BY <3>2 DEF Uniform
      <4> QED BY <4>1
    <3> QED BY <3>1, <3>2
  <2> QED BY <2>1, StepsFit DEF Stepwise
<1> QED BY <1>1, <1>2, InitTyped, StepTyped, StepStepwise, PTL DEF Spec
=============================================================================
