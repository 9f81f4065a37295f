------------------------- MODULE ConversationProofs -------------------------
(***************************************************************************)
(* Theorems about Conversation for any messages, any number of handlers    *)
(* and any sessions left by earlier exchanges.  The invariant says what a  *)
(* handler may rely on between two awaits (Local: of its message, of the   *)
(* session it holds, of the row it is about to write), how two handlers    *)
(* keep apart (Apart), and what a session row tells of what was asked and  *)
(* done (Stored).  A session held twice, or by a handler that failed, is   *)
(* loose, and nothing is said of it.                                       *)
(***************************************************************************)
EXTENDS Conversation, FiniteSetTheorems, TLAPS

Deeds == {"book", "move", "cancel"}
Subject == {0} \cup Services \cup Bookings
Instant == {0} \cup Starts
OfferRow == [id : Nat, kind : Deeds, on : Subject, start : Instant]
PlanRow == [deed : {"NONE"} \cup Deeds, writes : BOOLEAN, row : SessionRow,
            offers : SUBSET OfferRow, to : {"reply", "next", "flag"},
            action : {"NONE", "HANDOFF", "EXECUTE", "CLARIFY"}, quiet : BOOLEAN]
Labels == {"idle", "project", "prefer", "status", "read", "expire", "ai", "act",
           "write", "reply", "record", "handoff"}
HandlerRow == [pc : Labels, who : {"manage", "flow", "ai"}, msg : Nat, again : BOOLEAN,
               text : TextKinds, s : SessionRow, plan : PlanRow, open : BOOLEAN]

Typed == /\ events \subseteq 1 .. MaxMessages
         /\ sessions \in [Flows -> SessionRow]
         /\ handlers \in [Handlers -> HandlerRow]

\* What a session lets a yes or a number carry out: it must have been offered.
Due(w, s) ==
  (IF w = "flow" /\ s.state = "AWAIT_CONFIRM" THEN {Offer(s, "book", s.start)} ELSE {})
  \cup (IF w = "manage" /\ s.state = "AWAIT_CANCEL_CONFIRM" THEN {Offer(s, "cancel", 0)} ELSE {})
  \cup (IF w = "manage" /\ s.state = "AWAIT_RESCHEDULE_SLOT"
          THEN {Offer(s, "move", start) : start \in s.options} ELSE {})

\* What a plan of flow w does with the session s it was made from, or with a
\* new one for message m.
Asked(p) == [id |-> p.row.id, kind |-> p.deed, on |-> p.row.on, start |-> p.row.start]
PlanFits(p, w, s, m) ==
  /\ p \in PlanRow
  /\ p.to = "next" => s.state = "NONE"
  /\ p.deed # "NONE" => s.state # "NONE" /\ p.row.id = s.id /\ Asked(p) \in Due(w, s)
  /\ p.deed = "NONE" /\ p.writes =>
       /\ p.row.state # "NONE" => p.row.id = IF s.state = "NONE" THEN m ELSE s.id
       /\ w = "manage" => p.row.start = 0
       /\ Due(w, p.row) \subseteq p.offers
       /\ s.state = "NONE" => Due(w, p.row) = {}

-----------------------------------------------------------------------------
(* Plans.                                                                  *)

USE DEF Deeds, Subject, Instant

LEMMA NoSessionTyped ==
  NoSession \in SessionRow /\ NoSession.state = "NONE" /\ NoSession.start = 0
BY DEF NoSession, SessionRow, States

LEMMA NothingTyped ==
  /\ Nothing \in PlanRow /\ Nothing.deed = "NONE" /\ Nothing.writes = FALSE
  /\ Nothing.to = "reply"
  /\ Leave \in PlanRow /\ Leave.deed = "NONE" /\ Leave.writes = FALSE /\ Leave.to = "next"
BY NoSessionTyped DEF Nothing, Leave, PlanRow

LEMMA NothingFits ==
  ASSUME NEW w \in Flows, NEW s \in SessionRow, NEW m
  PROVE  PlanFits(Nothing, w, s, m) /\ (s.state = "NONE" => PlanFits(Leave, w, s, m))
BY NothingTyped DEF PlanFits

LEMMA TellTyped ==
  ASSUME NEW row \in SessionRow, NEW offers \in SUBSET OfferRow
  PROVE  LET p == Tell(row, offers)
         IN p \in PlanRow /\ p.deed = "NONE" /\ p.writes /\ p.to = "reply"
            /\ p.row = row /\ p.offers = offers
BY NothingTyped DEF Tell, PlanRow

LEMMA DoTyped ==
  ASSUME NEW row \in SessionRow, NEW d \in Deeds
  PROVE  LET p == Do(d, row)
         IN p \in PlanRow /\ p.deed = d /\ p.to = "reply" /\ p.row = row
BY NothingTyped DEF Do, PlanRow

\* A row written that asks for nothing.
LEMMA TellFits ==
  ASSUME NEW w \in Flows, NEW s \in SessionRow, NEW m, NEW row \in SessionRow,
         row.state \notin {"AWAIT_CONFIRM", "AWAIT_CANCEL_CONFIRM", "AWAIT_RESCHEDULE_SLOT"},
         row.state # "NONE" => row.id = IF s.state = "NONE" THEN m ELSE s.id,
         w = "manage" => row.start = 0
  PROVE  PlanFits(Tell(row, {}), w, s, m)
<1> DEFINE p == Tell(row, {})
<1>1. {} \in SUBSET OfferRow
  OBVIOUS
<1>2. p \in PlanRow /\ p.deed = "NONE" /\ p.to = "reply" /\ p.row = row /\ p.offers = {}
  BY <1>1, TellTyped
<1>3. Due(w, row) = {}
  BY DEF Due
<1> HIDE DEF p
<1>4. PlanFits(p, w, s, m)
  BY <1>2, <1>3 DEF PlanFits
<1> QED BY <1>4 DEF p

\* A row written together with what it puts to the customer.
LEMMA OfferFits ==
  ASSUME NEW w \in Flows, NEW s \in SessionRow, NEW m, NEW row \in SessionRow,
         s.state # "NONE", row.id = s.id, w = "manage" => row.start = 0,
         Due(w, row) \subseteq OfferRow
  PROVE  PlanFits(Tell(row, Due(w, row)), w, s, m)
<1> DEFINE p == Tell(row, Due(w, row))
<1>1. p \in PlanRow /\ p.deed = "NONE" /\ p.to = "reply" /\ p.row = row /\ p.offers = Due(w, row)
  BY TellTyped
<1> HIDE DEF p
<1>2. PlanFits(p, w, s, m)
  BY <1>1 DEF PlanFits
<1> QED BY <1>2 DEF p

LEMMA ForgetFits ==
  ASSUME NEW w \in Flows, NEW s \in SessionRow, NEW m
  PROVE  PlanFits(Forget, w, s, m)
BY NoSessionTyped, TellFits DEF Forget

LEMMA DoFits ==
  ASSUME NEW w \in Flows, NEW s \in SessionRow, NEW m, NEW row \in SessionRow, NEW d \in Deeds,
         s.state # "NONE", row.id = s.id,
         [id |-> row.id, kind |-> d, on |-> row.on, start |-> row.start] \in Due(w, s)
  PROVE  PlanFits(Do(d, row), w, s, m)
<1> DEFINE p == Do(d, row)
<1>1. p \in PlanRow /\ p.deed = d /\ p.to = "reply" /\ p.row = row
  BY DoTyped
<1> HIDE DEF p
<1>2. PlanFits(p, w, s, m)
  BY <1>1 DEF PlanFits, Asked
<1> QED BY <1>2 DEF p

\* The rows the questions make.
LEMMA Moved ==
  ASSUME NEW s \in SessionRow, NEW st \in States
  PROVE  LET y == Move(s, st)
         IN y \in SessionRow /\ y.state = st /\ y.id = s.id /\ y.on = s.on
            /\ y.start = s.start /\ y.options = s.options
BY DEF Move, SessionRow

\* The row a flow starts with.
LEMMA NewRow ==
  ASSUME NEW st \in States, NEW id \in Nat
  PROVE  LET y == [NoSession EXCEPT !.state = st, !.id = id]
         IN y \in SessionRow /\ y.state = st /\ y.id = id
BY NoSessionTyped DEF SessionRow

\* The question about the services, asked of a new customer or after the location.
LEMMA AskServicesFits ==
  ASSUME NEW s \in SessionRow, NEW m \in Nat, NEW id \in Nat,
         id = IF s.state = "NONE" THEN m ELSE s.id
  PROVE  \A p \in AskServices(id) : PlanFits(p, "flow", s, m)
<1> DEFINE row == [NoSession EXCEPT !.state = "AWAIT_SERVICE", !.id = id]
<1>1. row \in SessionRow /\ row.state = "AWAIT_SERVICE" /\ row.id = id
  <2>1. "AWAIT_SERVICE" \in States
    BY DEF States
  <2> QED BY <2>1, NewRow
<1>2. AskServices(id) = {Forget, Tell(row, {})}
  BY DEF AskServices
<1> HIDE DEF row
<1>3. PlanFits(Tell(row, {}), "flow", s, m)
  BY <1>1, TellFits DEF Flows
<1>4. PlanFits(Forget, "flow", s, m)
  BY ForgetFits DEF Flows
<1> QED BY <1>2, <1>3, <1>4

\* Every plan of the booking flow fits: it books only what its session was at
\* AWAIT_CONFIRM for, and comes to AWAIT_CONFIRM only with the question.
LEMMA FlowPlansFit ==
  ASSUME NEW s \in SessionRow, NEW text \in TextKinds, NEW m \in Nat,
         NEW p \in FlowPlans(s, text, m)
  PROVE  PlanFits(p, "flow", s, m)
<1>0. PlanFits(Nothing, "flow", s, m) /\ PlanFits(Forget, "flow", s, m) /\ s.id \in Nat
      /\ "flow" \in Flows
  BY NothingFits, ForgetFits DEF Flows, SessionRow
<1>1. CASE s.state = "NONE"
  <2> DEFINE row == [NoSession EXCEPT !.state = "AWAIT_LOCATION", !.id = m]
  <2>1. row \in SessionRow /\ row.state = "AWAIT_LOCATION" /\ row.id = m
    <3>1. "AWAIT_LOCATION" \in States
      BY DEF States
    <3> QED BY <3>1, NewRow
  <2>2. p \in AskServices(m) \/ p = Tell(row, {}) \/ p = Leave
    <3>1. FlowPlans(s, text, m) = IF text = "booking" THEN AskServices(m) \union {Tell(row, {})}
                                  ELSE {Leave}
      BY <1>1 DEF FlowPlans
    <3> HIDE DEF row
    <3> QED BY <3>1
  <2> HIDE DEF row
  <2>3. PlanFits(Tell(row, {}), "flow", s, m)
    BY <1>0, <1>1, <2>1, TellFits
  <2>4. PlanFits(Leave, "flow", s, m)
    BY <1>0, <1>1, NothingFits
  <2> QED BY <1>1, <2>2, <2>3, <2>4, AskServicesFits
<1>2. CASE s.state = "AWAIT_LOCATION"
  <2>1. p = Forget \/ p = Nothing \/ p \in AskServices(s.id)
    BY <1>2 DEF FlowPlans
  <2> QED BY <1>0, <1>2, <2>1, AskServicesFits
<1>3. CASE s.state = "AWAIT_SERVICE"
  <2> DEFINE row(sv) == [Move(s, "AWAIT_DATE") EXCEPT !.on = sv, !.options = {}, !.start = 0]
  <2>1. p = Forget \/ p = Nothing \/ \E sv \in Services : p = Tell(row(sv), {})
    <3>1. CASE text \in {"cancel", "leave"}
      BY <1>3, <3>1 DEF FlowPlans
    <3>2. CASE text = "number"
      <4>1. FlowPlans(s, text, m) = {Nothing} \union {Tell(row(sv), {}) : sv \in Services}
        BY <1>3, <3>2 DEF FlowPlans
      <4> HIDE DEF row
      <4> QED BY <4>1
    <3>3. CASE text \notin {"cancel", "leave", "number"}
      BY <1>3, <3>3 DEF FlowPlans
    <3> QED BY <3>1, <3>2, <3>3
  <2>2. ASSUME NEW sv \in Services PROVE PlanFits(Tell(row(sv), {}), "flow", s, m)
    <3> DEFINE y == Move(s, "AWAIT_DATE")
    <3>1. y \in SessionRow /\ y.state = "AWAIT_DATE" /\ y.id = s.id
      BY Moved DEF States
    <3> HIDE DEF y
    <3> DEFINE z == [y EXCEPT !.on = sv, !.options = {}, !.start = 0]
    <3>2. z \in SessionRow /\ z.state = "AWAIT_DATE" /\ z.id = s.id
      BY <3>1 DEF SessionRow
    <3>3. row(sv) = z
      BY DEF y
    <3> HIDE DEF z
    <3>4. PlanFits(Tell(z, {}), "flow", s, m)
      BY <1>0, <1>3, <3>2, TellFits
    <3> QED BY <3>3, <3>4
  <2> HIDE DEF row
  <2> QED BY <1>0, <2>1, <2>2
<1>4. CASE s.state = "AWAIT_DATE"
  <2> DEFINE row(found) == [Move(s, "AWAIT_SLOT") EXCEPT !.options = found, !.start = 0]
  <2>1. p = Forget \/ p = Nothing \/ \E found \in SUBSET Starts : p = Tell(row(found), {})
    BY <1>4 DEF FlowPlans
  <2>2. ASSUME NEW found \in SUBSET Starts PROVE PlanFits(Tell(row(found), {}), "flow", s, m)
    <3> DEFINE y == Move(s, "AWAIT_SLOT")
    <3>1. y \in SessionRow /\ y.state = "AWAIT_SLOT" /\ y.id = s.id
      BY Moved DEF States
    <3> HIDE DEF y
    <3> DEFINE z == [y EXCEPT !.options = found, !.start = 0]
    <3>2. z \in SessionRow /\ z.state = "AWAIT_SLOT" /\ z.id = s.id
      BY <3>1 DEF SessionRow
    <3>3. row(found) = z
      BY DEF y
    <3> HIDE DEF z
    <3>4. PlanFits(Tell(z, {}), "flow", s, m)
      BY <1>0, <1>4, <3>2, TellFits
    <3> QED BY <3>3, <3>4
  <2> HIDE DEF row
  <2> QED BY <1>0, <2>1, <2>2
<1>5. CASE s.state = "AWAIT_SLOT"
  <2> DEFINE row(start) == [Move(s, "AWAIT_CONFIRM") EXCEPT !.start = start]
  <2>1. p = Forget \/ p = Nothing
        \/ \E start \in s.options : p = Tell(row(start), {Offer(row(start), "book", start)})
    BY <1>5 DEF FlowPlans
  <2>2. ASSUME NEW start \in s.options
        PROVE  PlanFits(Tell(row(start), {Offer(row(start), "book", start)}), "flow", s, m)
    <3> DEFINE y == Move(s, "AWAIT_CONFIRM")
    <3>1. y \in SessionRow /\ y.state = "AWAIT_CONFIRM" /\ y.id = s.id
      BY Moved DEF States
    <3> HIDE DEF y
    <3> DEFINE z == [y EXCEPT !.start = start]
    <3>2. z \in SessionRow /\ z.state = "AWAIT_CONFIRM" /\ z.id = s.id /\ z.start = start
      BY <3>1 DEF SessionRow
    <3>3. row(start) = z
      BY DEF y
    <3> HIDE DEF z
    <3>4. Due("flow", z) = {Offer(z, "book", start)}
      BY <3>2 DEF Due
    <3>5. Offer(z, "book", start) \in OfferRow
      BY <3>2 DEF Offer, OfferRow, SessionRow
    <3>6. PlanFits(Tell(z, Due("flow", z)), "flow", s, m)
      BY <1>0, <1>5, <3>2, <3>4, <3>5, OfferFits
    <3> QED BY <3>3, <3>4, <3>6
  <2> HIDE DEF row
  <2> QED BY <1>0, <2>1, <2>2
<1>6. CASE s.state = "AWAIT_CONFIRM"
  <2>1. p = Forget \/ p = Nothing \/ p = Do("book", s)
    BY <1>6 DEF FlowPlans
  <2>2. [id |-> s.id, kind |-> "book", on |-> s.on, start |-> s.start] \in Due("flow", s)
    BY <1>6 DEF Due, Offer
  <2>3. PlanFits(Do("book", s), "flow", s, m)
    BY <1>0, <1>6, <2>2, DoFits
  <2> QED BY <1>0, <2>1, <2>3
<1>7. CASE s.state \in {"AWAIT_BOOKING", "AWAIT_ACTION", "AWAIT_RESCHEDULE_DATE",
                       "AWAIT_RESCHEDULE_SLOT", "AWAIT_CANCEL_CONFIRM"}
  <2>1. p = Forget \/ p = Nothing
    BY <1>7 DEF FlowPlans
  <2> QED BY <1>0, <2>1
<1> QED BY <1>1, <1>2, <1>3, <1>4, <1>5, <1>6, <1>7 DEF SessionRow, States

\* What follows once a booking and an intent are chosen.
LEMMA AskActionFits ==
  ASSUME NEW s \in SessionRow, NEW t \in SessionRow, NEW m \in Nat,
         s.state # "NONE", t.id = s.id, t.start = 0
  PROVE  PlanFits(AskAction(t), "manage", s, m)
<1>0. "manage" \in Flows
  BY DEF Flows
<1>1. CASE t.intent = "RESCHEDULE"
  <2> DEFINE y == Move(t, "AWAIT_RESCHEDULE_DATE")
  <2>1. y \in SessionRow /\ y.state = "AWAIT_RESCHEDULE_DATE" /\ y.id = s.id /\ y.start = 0
    BY Moved DEF States
  <2>2. AskAction(t) = Tell(y, {})
    BY <1>1 DEF AskAction
  <2> HIDE DEF y
  <2> QED BY <1>0, <2>1, <2>2, TellFits
<1>2. CASE t.intent = "CANCEL"
  <2> DEFINE y == Move(t, "AWAIT_CANCEL_CONFIRM")
  <2>1. y \in SessionRow /\ y.state = "AWAIT_CANCEL_CONFIRM" /\ y.id = s.id /\ y.start = 0
    BY Moved DEF States
  <2>2. AskAction(t) = Tell(y, {Offer(y, "cancel", 0)})
    BY <1>2 DEF AskAction
  <2> HIDE DEF y
  <2>3. Due("manage", y) = {Offer(y, "cancel", 0)}
    BY <2>1 DEF Due
  <2>4. Offer(y, "cancel", 0) \in OfferRow
    BY <2>1 DEF Offer, OfferRow, SessionRow
  <2>5. PlanFits(Tell(y, Due("manage", y)), "manage", s, m)
    BY <1>0, <2>1, <2>3, <2>4, OfferFits
  <2> QED BY <2>2, <2>3, <2>5
<1>3. CASE t.intent \notin {"RESCHEDULE", "CANCEL"}
  <2> DEFINE y == Move(t, "AWAIT_ACTION")
  <2>1. y \in SessionRow /\ y.state = "AWAIT_ACTION" /\ y.id = s.id /\ y.start = 0
    BY Moved DEF States
  <2>2. AskAction(t) = Tell(y, {})
    BY <1>3 DEF AskAction
  <2> HIDE DEF y
  <2> QED BY <1>0, <2>1, <2>2, TellFits
<1> QED BY <1>1, <1>2, <1>3

\* Every plan of the management flow fits: it moves or cancels only what its
\* session had put to the customer.
LEMMA ManagePlansFit ==
  ASSUME NEW s \in SessionRow, NEW text \in TextKinds, NEW m \in Nat, s.start = 0,
         NEW p \in ManagePlans(s, text, m)
  PROVE  PlanFits(p, "manage", s, m)
<1>0. PlanFits(Nothing, "manage", s, m) /\ PlanFits(Forget, "manage", s, m) /\ s.id \in Nat
      /\ "manage" \in Flows
  BY NothingFits, ForgetFits DEF Flows, SessionRow
<1>1. CASE s.state = "NONE"
  <2> DEFINE row == [NoSession EXCEPT !.state = "AWAIT_BOOKING", !.id = m,
                                      !.intent = IntentOf(text), !.listed = Upcoming]
  <2>1. row \in SessionRow /\ row.state = "AWAIT_BOOKING" /\ row.id = m /\ row.start = 0
    <3>1. IntentOf(text) \in {"NONE", "RESCHEDULE", "CANCEL"} /\ Upcoming \in SUBSET Bookings
      BY DEF IntentOf, Upcoming
    <3> QED BY <3>1, NoSessionTyped DEF SessionRow, States
  <2>2. p = Nothing \/ p = Tell(row, {}) \/ p = Leave
    <3>1. CASE text \in {"urus", "reschedule", "drop"}
      <4>1. ManagePlans(s, text, m) = {IF Upcoming = {} THEN Nothing ELSE Tell(row, {})}
        BY <1>1, <3>1 DEF ManagePlans
      <4> HIDE DEF row
      <4> QED BY <4>1
    <3>2. CASE text \notin {"urus", "reschedule", "drop"}
      BY <1>1, <3>2 DEF ManagePlans
    <3> QED BY <3>1, <3>2
  <2> HIDE DEF row
  <2>3. PlanFits(Tell(row, {}), "manage", s, m)
    BY <1>0, <1>1, <2>1, TellFits
  <2>4. PlanFits(Leave, "manage", s, m)
    BY <1>0, <1>1, NothingFits
  <2> QED BY <1>0, <2>2, <2>3, <2>4
<1>2. CASE s.state = "AWAIT_BOOKING"
  <2>1. p = Forget \/ p = Nothing \/ \E b \in s.listed : p = AskAction([s EXCEPT !.on = b])
    BY <1>2 DEF ManagePlans
  <2>2. ASSUME NEW b \in s.listed PROVE PlanFits(AskAction([s EXCEPT !.on = b]), "manage", s, m)
    <3> DEFINE t == [s EXCEPT !.on = b]
    <3>1. t \in SessionRow /\ t.id = s.id /\ t.start = 0
      BY DEF SessionRow
    <3> HIDE DEF t
    <3>2. PlanFits(AskAction(t), "manage", s, m)
      BY <1>2, <3>1, AskActionFits
    <3> QED BY <3>2 DEF t
  <2> QED BY <1>0, <2>1, <2>2
<1>3. CASE s.state = "AWAIT_ACTION"
  <2>1. p = Forget \/ p = Nothing
        \/ \E i \in {"RESCHEDULE", "CANCEL"} : p = AskAction([s EXCEPT !.intent = i])
    BY <1>3 DEF ManagePlans
  <2>2. ASSUME NEW i \in {"RESCHEDULE", "CANCEL"}
        PROVE  PlanFits(AskAction([s EXCEPT !.intent = i]), "manage", s, m)
    <3> DEFINE t == [s EXCEPT !.intent = i]
    <3>1. t \in SessionRow /\ t.id = s.id /\ t.start = 0
      BY DEF SessionRow
    <3> HIDE DEF t
    <3>2. PlanFits(AskAction(t), "manage", s, m)
      BY <1>3, <3>1, AskActionFits
    <3> QED BY <3>2 DEF t
  <2> QED BY <1>0, <2>1, <2>2
<1>4. CASE s.state = "AWAIT_RESCHEDULE_DATE"
  <2> DEFINE row(found) == [Move(s, "AWAIT_RESCHEDULE_SLOT") EXCEPT !.options = found]
  <2> DEFINE plan(found) == Tell(row(found), {Offer(row(found), "move", start) : start \in found})
  <2>1. p = Forget \/ p = Nothing \/ \E found \in SUBSET Starts : p = plan(found)
    <3>1. CASE text \in {"exit", "leave"}
      BY <1>4, <3>1 DEF ManagePlans
    <3>2. CASE text = "date"
      <4>1. ManagePlans(s, text, m) = {Nothing} \union {plan(found) : found \in (SUBSET Starts) \ {{}}}
        BY <1>4, <3>2 DEF ManagePlans
      <4> HIDE DEF plan
      <4> QED BY <4>1
    <3>3. CASE text \notin {"exit", "leave", "date"}
      BY <1>4, <3>3 DEF ManagePlans
    <3> QED BY <3>1, <3>2, <3>3
  <2>2. ASSUME NEW found \in SUBSET Starts PROVE PlanFits(plan(found), "manage", s, m)
    <3> DEFINE y == Move(s, "AWAIT_RESCHEDULE_SLOT")
    <3>1. y \in SessionRow /\ y.state = "AWAIT_RESCHEDULE_SLOT" /\ y.id = s.id /\ y.start = 0
      BY Moved DEF States
    <3> HIDE DEF y
    <3> DEFINE z == [y EXCEPT !.options = found]
    <3>2. /\ z \in SessionRow /\ z.state = "AWAIT_RESCHEDULE_SLOT" /\ z.id = s.id /\ z.start = 0
          /\ z.options = found
      BY <3>1 DEF SessionRow
    <3>3. row(found) = z
      BY DEF y
    <3> HIDE DEF z, row
    <3>4. Due("manage", z) = {Offer(z, "move", start) : start \in found}
      BY <3>2 DEF Due
    <3>5. \A start \in found : Offer(z, "move", start) \in OfferRow
      BY <3>2 DEF Offer, OfferRow, SessionRow
    <3>6. PlanFits(Tell(z, Due("manage", z)), "manage", s, m)
      BY <1>0, <1>4, <3>2, <3>4, <3>5, OfferFits
    <3>7. plan(found) = Tell(z, Due("manage", z))
      BY <3>3, <3>4
    <3> QED BY <3>6, <3>7
  <2> HIDE DEF plan
  <2> QED BY <1>0, <2>1, <2>2
<1>5. CASE s.state = "AWAIT_RESCHEDULE_SLOT"
  <2> DEFINE row(start) == [s EXCEPT !.start = start]
  <2>1. p = Forget \/ p = Nothing \/ \E start \in s.options : p = Do("move", row(start))
    BY <1>5 DEF ManagePlans
  <2>2. ASSUME NEW start \in s.options PROVE PlanFits(Do("move", row(start)), "manage", s, m)
    <3>1. row(start) \in SessionRow /\ row(start).id = s.id /\ row(start).on = s.on
          /\ row(start).start = start
      BY DEF SessionRow
    <3> HIDE DEF row
    <3>2. [id |-> s.id, kind |-> "move", on |-> s.on, start |-> start] \in Due("manage", s)
      BY <1>5 DEF Due, Offer
    <3> QED BY <1>0, <1>5, <3>1, <3>2, DoFits
  <2> HIDE DEF row
  <2> QED BY <1>0, <2>1, <2>2
<1>6. CASE s.state = "AWAIT_CANCEL_CONFIRM"
  <2>1. p = Forget \/ p = Nothing \/ p = Do("cancel", s)
    BY <1>6 DEF ManagePlans
  <2>2. [id |-> s.id, kind |-> "cancel", on |-> s.on, start |-> s.start] \in Due("manage", s)
    BY <1>6 DEF Due, Offer
  <2>3. PlanFits(Do("cancel", s), "manage", s, m)
    BY <1>0, <1>6, <2>2, DoFits
  <2> QED BY <1>0, <2>1, <2>3
<1>7. CASE s.state \in {"AWAIT_LOCATION", "AWAIT_SERVICE", "AWAIT_DATE", "AWAIT_SLOT",
                       "AWAIT_CONFIRM"}
  <2>1. p = Forget \/ p = Nothing
    BY <1>7 DEF ManagePlans
  <2> QED BY <1>0, <2>1
<1> QED BY <1>1, <1>2, <1>3, <1>4, <1>5, <1>6, <1>7 DEF SessionRow, States

LEMMA PlansFit ==
  ASSUME NEW w \in Flows, NEW s \in SessionRow, NEW text \in TextKinds, NEW m \in Nat,
         w = "manage" => s.start = 0, NEW p \in Plans(w, s, text, m)
  PROVE  PlanFits(p, w, s, m)
BY FlowPlansFit, ManagePlansFit DEF Plans, Flows

\* The AI writes no session, and says nothing only to hand off.
LEMMA AiPlansFit ==
  ASSUME NEW p \in AiPlans
  PROVE  /\ p \in PlanRow /\ p.to \in {"reply", "flag"} /\ p.writes = FALSE
         /\ p.to = "flag" => p.action = "HANDOFF"
<1>1. ASSUME NEW deed \in Deeds, NEW on \in Services \cup Bookings
      PROVE  /\ AiAct(deed, on) \in PlanRow /\ AiAct(deed, on).to = "reply"
             /\ AiAct(deed, on).writes = FALSE
  <2> DEFINE row == [NoSession EXCEPT !.on = on]
  <2>1. row \in SessionRow
    BY NoSessionTyped DEF SessionRow
  <2> HIDE DEF row
  <2> DEFINE a == [Nothing EXCEPT !.deed = deed, !.action = "EXECUTE", !.row = row]
  <2>2. a \in PlanRow /\ a.to = "reply" /\ a.writes = FALSE
    BY <2>1, NothingTyped DEF PlanRow
  <2>3. AiAct(deed, on) = a
    BY DEF AiAct, row
  <2> QED BY <2>2, <2>3
<1>2. \/ \E q \in BOOLEAN : p = AiLeaves(q)
      \/ \E a \in {"EXECUTE", "CLARIFY", "HANDOFF"} : p = AiSays(a)
      \/ \E deed \in Deeds, on \in Services \cup Bookings : p = AiAct(deed, on)
  <2>1. p \in AiPlans
    OBVIOUS
  <2> QED BY <2>1 DEF AiPlans, Upcoming
<1>3. ASSUME NEW q \in BOOLEAN
      PROVE  AiLeaves(q) \in PlanRow /\ AiLeaves(q).to = "flag" /\ AiLeaves(q).writes = FALSE
             /\ AiLeaves(q).action = "HANDOFF"
  BY NothingTyped DEF PlanRow, AiLeaves
<1>4. ASSUME NEW a \in {"EXECUTE", "CLARIFY", "HANDOFF"}
      PROVE  AiSays(a) \in PlanRow /\ AiSays(a).to = "reply" /\ AiSays(a).writes = FALSE
  BY NothingTyped DEF PlanRow, AiSays
<1> QED BY <1>1, <1>2, <1>3, <1>4

-----------------------------------------------------------------------------
(* The invariant.                                                          *)

Holds(h) == handlers[h].s.state # "NONE"
Deeded(w, i) == \E d \in deeds : d.who = w /\ d.id = i

\* No session is of message i: not stored, not held, not carried out.
Fresh(i) == /\ \A w \in Flows : sessions[w].state # "NONE" => sessions[w].id # i
            /\ \A g \in Handlers : Holds(g) => handlers[g].s.id # i
            /\ \A d \in deeds : d.who # "ai" => d.id # i

\* A redelivery ends at once.  The first delivery carries out nothing before
\* act, stores no session of its own before write, and settles its message.
Before == {"project", "prefer", "status", "read", "expire", "ai", "act"}
OfMessage(h) ==
  LET c == handlers[h]
  IN /\ c.pc = "idle" => ~c.again /\ c.msg = 0
     /\ c.pc # "idle" => c.msg \in events
     /\ c.again => c.pc = "project"
     /\ c.pc \in Before /\ ~c.again => \A d \in deeds : d.msg # c.msg
     /\ c.pc \in Before \cup {"write"} /\ ~c.again => Fresh(c.msg)
     /\ c.pc = "record" => c.msg \in settled \/ c.plan.action = "HANDOFF"
     /\ c.pc = "handoff" => c.msg \in settled

\* Which of the flows is at work, and since when it holds a session.
OfFlow(h) ==
  LET c == handlers[h]
  IN /\ c.pc \in {"idle", "project", "prefer", "status", "read", "ai"} => ~Holds(h)
     /\ c.pc \in {"project", "status", "read", "expire", "write"} => c.who \in Flows
     /\ c.pc \in {"read", "expire", "act", "write"} /\ c.who \in Flows => c.open
     /\ c.pc = "ai" => c.who = "ai"
     /\ c.who = "manage" => c.s.start = 0

\* A flow about to act holds the session it was asked in, which has not yet
\* been acted on.
ActsWell(h) ==
  LET c == handlers[h]
  IN c.pc = "act" /\ c.who \in Flows =>
       /\ Holds(h) /\ c.plan.row.id = c.s.id
       /\ Asked(c.plan) \in offered \/ c.s.id \in loose
       /\ Deeded(c.who, c.s.id) => c.s.id \in loose

\* A row about to be written is of the session held, or of this message, and
\* its question is in the reply.
WritesWell(h) ==
  LET c == handlers[h]  row == c.plan.row
  IN c.pc = "write" =>
       /\ c.who = "manage" => row.start = 0
       /\ Due(c.who, row) \subseteq c.plan.offers
       /\ Due(c.who, row) # {} => Holds(h)
       /\ row.state # "NONE" =>
            /\ row.id = IF Holds(h) THEN c.s.id ELSE c.msg
            /\ Deeded(c.who, row.id) => row.id \in loose

Local(h) == OfMessage(h) /\ OfFlow(h) /\ ActsWell(h) /\ WritesWell(h)

\* Two handlers are of two messages, and share no session but a loose one.
Apart(g, h) ==
  /\ /\ handlers[g].pc # "idle" /\ ~handlers[g].again
     /\ handlers[h].pc # "idle" /\ ~handlers[h].again
     => handlers[g].msg # handlers[h].msg
  /\ Holds(g) /\ Holds(h) /\ handlers[g].s.id = handlers[h].s.id
     => handlers[h].s.id \in loose

\* A handler about to end session i, or to put o to the customer in it.
Finishing(h, w, i) == /\ handlers[h].pc = "write" /\ handlers[h].who = w
                      /\ Holds(h) /\ handlers[h].s.id = i
Telling(h, w, i, o) == /\ handlers[h].pc = "reply" /\ handlers[h].who = w
                       /\ Holds(h) /\ handlers[h].s.id = i
                       /\ o \in handlers[h].plan.offers

\* What a stored session is due was put to the customer, or is about to be.
Stored(w) ==
  LET i == sessions[w].id
  IN sessions[w].state # "NONE" =>
       /\ Deeded(w, i) => i \in loose \/ \E h \in Handlers : Finishing(h, w, i)
       /\ \A o \in Due(w, sessions[w]) :
            o \in offered \/ i \in loose \/ \E h \in Handlers : Telling(h, w, i, o)

Counted == IsFiniteSet(events) /\ events = 1 .. Cardinality(events)
Unseen == \A i \in (1 .. MaxMessages) \ events : Fresh(i)
SeenOpen == status = "OPEN" => \A h \in Handlers : handlers[h].pc # "idle" => handlers[h].open

Inv ==
  /\ Typed /\ sessions["manage"].start = 0
  /\ Counted /\ Unseen /\ SeenOpen
  /\ \A d \in deeds : d.msg \in events
  /\ OnceEach /\ DoneAsAsked /\ NoneForgotten
  /\ \A h \in Handlers : Local(h)
  /\ \A g, h \in Handlers : g # h => Apart(g, h)
  /\ \A w \in Flows : Stored(w)

-----------------------------------------------------------------------------
(* Steps of one handler that touch no session row and carry out nothing.   *)

\* The others stay where they are; they may see the conversation open.
Same(g) ==
  /\ handlers'[g].pc = handlers[g].pc /\ handlers'[g].who = handlers[g].who
  /\ handlers'[g].msg = handlers[g].msg /\ handlers'[g].again = handlers[g].again
  /\ handlers'[g].s = handlers[g].s /\ handlers'[g].plan = handlers[g].plan
  /\ handlers[g].open => handlers'[g].open

Grows == /\ events \subseteq events' /\ offered \subseteq offered'
         /\ settled \subseteq settled' /\ loose \subseteq loose'

\* What such a step must see to: a session it begins to hold while another
\* holds it, or drops before the row is written, is loose; what it was to say
\* is said; its message is not forgotten.
Moves(h) ==
  LET c == handlers[h]  next == handlers'[h]
  IN /\ handlers' \in [Handlers -> HandlerRow]
     /\ \A g \in Handlers \ {h} : Same(g)
     /\ UNCHANGED <<events, deeds>> /\ sessions' \in [Flows -> SessionRow]
     /\ \A w \in Flows : sessions'[w] \in {sessions[w], NoSession}
     /\ SeenOpen' /\ Grows
     /\ next.pc # "idle" => c.pc # "idle" /\ next.msg = c.msg /\ next.again = c.again
     /\ next.pc = "idle" => c.again \/ c.msg \in settled'
     /\ next.s.state # "NONE" =>
          \/ next.s = c.s
          \/ /\ \E w \in Flows : next.s = sessions[w]
             /\ \A g \in Handlers \ {h} :
                  Holds(g) /\ handlers[g].s.id = next.s.id => next.s.id \in loose'
     /\ c.pc = "write" /\ Holds(h) => c.s.id \in loose'
     /\ c.pc = "reply" => c.plan.offers \subseteq offered' \/ (Holds(h) => c.s.id \in loose')

LEMMA MovesFresh ==
  ASSUME Inv, NEW h \in Handlers, Moves(h), NEW i, Fresh(i)
  PROVE  Fresh(i)'
<1>1. \A g \in Handlers \ {h} : Holds(g)' => handlers'[g].s.id # i
  BY DEF Moves, Same, Fresh, Holds
<1>2. Holds(h)' => handlers'[h].s.id # i
  BY DEF Moves, Fresh, Holds
<1>3. \A w \in Flows : sessions'[w].state # "NONE" => sessions'[w].id # i
  BY NoSessionTyped DEF Moves, Fresh
<1> QED BY <1>1, <1>2, <1>3 DEF Moves, Fresh

\* The others know what they knew.
LEMMA OthersKeep ==
  ASSUME Inv, NEW g \in Handlers, Same(g), Grows, UNCHANGED deeds,
         handlers[g].pc # "idle" /\ ~handlers[g].again /\ Fresh(handlers[g].msg)
           => Fresh(handlers[g].msg)'
  PROVE  Local(g)'
<1>0. Local(g)
  BY DEF Inv
<1>1. Holds(g)' = Holds(g)
  BY DEF Same, Holds
<1>2. OfMessage(g)'
  BY <1>0, <1>1 DEF Local, OfMessage, Same, Grows, Before
<1>3. OfFlow(g)'
  BY <1>0, <1>1 DEF Local, OfFlow, Same
<1>4. ActsWell(g)'
  BY <1>0, <1>1 DEF Local, ActsWell, Same, Grows, Asked, Deeded
<1>5. WritesWell(g)'
  BY <1>0, <1>1 DEF Local, WritesWell, Same, Grows, Deeded, Due
<1> QED BY <1>2, <1>3, <1>4, <1>5 DEF Local

LEMMA MovesKeeps ==
  ASSUME Inv, NEW h \in Handlers, Moves(h), Local(h)'
  PROVE  Inv'
<1>1. Typed' /\ sessions'["manage"].start = 0 /\ Counted' /\ SeenOpen'
      /\ \A d \in deeds' : d.msg \in events'
  BY NoSessionTyped DEF Inv, Moves, Typed, Counted, Flows
<1>2. Unseen'
  BY MovesFresh DEF Inv, Unseen, Moves
<1>3. OnceEach' /\ DoneAsAsked'
  BY DEF Inv, OnceEach, DoneAsAsked, Moves, Grows
<1>4. NoneForgotten'
  <2> SUFFICES ASSUME NEW m \in events
               PROVE  m \in settled' \/ \E g \in Handlers : handlers'[g].msg = m /\ ~handlers'[g].again
    BY DEF NoneForgotten, Moves
  <2>1. CASE m \in settled
    BY <2>1 DEF Moves, Grows
  <2>2. ASSUME NEW g \in Handlers, handlers[g].msg = m, ~handlers[g].again
        PROVE  m \in settled' \/ \E k \in Handlers : handlers'[k].msg = m /\ ~handlers'[k].again
    BY <2>2 DEF Moves, Same
  <2> QED BY <2>1, <2>2 DEF Inv, NoneForgotten
<1>5. \A g \in Handlers : Local(g)'
  <2> SUFFICES ASSUME NEW g \in Handlers \ {h} PROVE Local(g)'
    OBVIOUS
  <2>1. Fresh(handlers[g].msg) => Fresh(handlers[g].msg)'
    BY MovesFresh DEF Moves, Same
  <2>2. Same(g) /\ Grows /\ UNCHANGED deeds
    BY DEF Moves
  <2> QED BY <2>1, <2>2, OthersKeep
<1>6. \A g \in Handlers \ {h} : Apart(g, h)' /\ Apart(h, g)'
  <2> TAKE g \in Handlers \ {h}
  <2>0. Same(g) /\ Apart(g, h) /\ Apart(h, g) /\ loose \subseteq loose' /\ Holds(g)' = Holds(g)
    BY DEF Moves, Inv, Grows, Same, Holds
  <2>1. ~(/\ handlers'[g].pc # "idle" /\ ~handlers'[g].again /\ handlers'[h].pc # "idle"
          /\ ~handlers'[h].again /\ handlers'[g].msg = handlers'[h].msg)
    BY <2>0 DEF Moves, Same, Apart
  <2>2. Holds(g)' /\ Holds(h)' /\ handlers'[g].s.id = handlers'[h].s.id
        => handlers'[h].s.id \in loose'
    <3>1. CASE handlers'[h].s = handlers[h].s
      BY <3>1, <2>0 DEF Apart, Same, Holds
    <3>2. CASE handlers'[h].s # handlers[h].s
      BY <3>2, <2>0 DEF Moves, Same, Holds
    <3> QED BY <3>1, <3>2
  <2> QED BY <2>1, <2>2 DEF Apart
<1>7. \A g, k \in Handlers : g # k => Apart(g, k)'
  <2>1. ASSUME NEW g \in Handlers \ {h}, NEW k \in Handlers \ {h}, g # k PROVE Apart(g, k)'
    <3>1. Apart(g, k) /\ Same(g) /\ Same(k) /\ loose \subseteq loose'
      BY <2>1 DEF Inv, Moves, Grows
    <3> QED BY <3>1 DEF Apart, Same, Holds
  <2> QED BY <1>6, <2>1
<1>8. ASSUME NEW w \in Flows PROVE Stored(w)'
  <2> DEFINE i == sessions[w].id
  <2>1. SUFFICES ASSUME sessions'[w] = sessions[w], sessions[w].state # "NONE"
                 PROVE  Stored(w)'
    BY NoSessionTyped DEF Moves, Stored
  <2>0. deeds' = deeds /\ loose \subseteq loose' /\ offered \subseteq offered'
    BY DEF Moves, Grows
  <2>9. SUFFICES /\ Deeded(w, i) => i \in loose' \/ \E g \in Handlers : Finishing(g, w, i)'
                 /\ \A o \in Due(w, sessions[w]) :
                      o \in offered' \/ i \in loose' \/ \E g \in Handlers : Telling(g, w, i, o)'
    BY <2>0, <2>1 DEF Stored, Deeded, Due
  <2>2. Stored(w)
    BY DEF Inv
  <2>3. ASSUME NEW g \in Handlers, Finishing(g, w, i)
        PROVE  i \in loose' \/ Finishing(g, w, i)'
    <3>1. /\ handlers[h].pc = "write" /\ Holds(h) => handlers[h].s.id \in loose'
          /\ g # h => Same(g)
      BY DEF Moves
    <3> QED BY <2>1, <2>3, <3>1 DEF Finishing, Same, Holds
  <2>4. ASSUME NEW o, NEW g \in Handlers, Telling(g, w, i, o)
        PROVE  o \in offered' \/ i \in loose' \/ Telling(g, w, i, o)'
    <3>1. /\ handlers[h].pc = "reply" => handlers[h].plan.offers \subseteq offered'
                                         \/ (Holds(h) => handlers[h].s.id \in loose')
          /\ g # h => Same(g)
      BY DEF Moves
    <3> QED BY <2>1, <2>4, <3>1 DEF Telling, Same, Holds
  <2>5. Deeded(w, i) => i \in loose' \/ \E g \in Handlers : Finishing(g, w, i)'
    BY <2>0, <2>1, <2>2, <2>3 DEF Stored
  <2>6. ASSUME NEW o \in Due(w, sessions[w])
        PROVE  o \in offered' \/ i \in loose' \/ \E g \in Handlers : Telling(g, w, i, o)'
    <3>1. o \in offered \/ i \in loose \/ \E g \in Handlers : Telling(g, w, i, o)
      BY <2>1, <2>2 DEF Stored
    <3> QED BY <3>1, <2>0, <2>4
  <2> QED BY <2>5, <2>6
<1> QED BY <1>1, <1>2, <1>3, <1>4, <1>5, <1>7, <1>8 DEF Inv

\* The message of the handler, as it goes on.
LEMMA MovedOn ==
  ASSUME Inv, NEW h \in Handlers, Moves(h), ~handlers[h].again, handlers'[h].pc # "idle",
         handlers'[h].pc \in Before => handlers[h].pc \in Before,
         handlers'[h].pc = "write" => handlers[h].pc \in Before \cup {"write"},
         handlers'[h].pc = "record" =>
           handlers[h].msg \in settled' \/ handlers'[h].plan.action = "HANDOFF",
         handlers'[h].pc = "handoff" => handlers[h].msg \in settled'
  PROVE  OfMessage(h)'
<1>0. OfMessage(h)
  BY DEF Inv, Local
<1>1. /\ handlers'[h].msg = handlers[h].msg /\ handlers'[h].again = handlers[h].again
      /\ handlers[h].pc # "idle" /\ UNCHANGED <<events, deeds>> /\ settled \subseteq settled'
  BY DEF Moves, Grows
<1>2. ASSUME Fresh(handlers[h].msg) PROVE Fresh(handlers[h].msg)'
  <2>1. PICK m : m = handlers[h].msg
    OBVIOUS
  <2>2. Fresh(m)'
    BY <1>2, <2>1, MovesFresh
  <2>3. handlers'[h].msg = m
    BY <1>1, <2>1
  <2> QED BY <2>2, <2>3
<1>3. handlers'[h].pc \in Before \cup {"write"} => Fresh(handlers[h].msg)'
  BY <1>0, <1>2 DEF OfMessage, Before
<1> QED BY <1>0, <1>1, <1>3 DEF OfMessage

LEMMA IdleTyped ==
  /\ Idle \in HandlerRow /\ Idle.pc = "idle" /\ ~Idle.again /\ Idle.s = NoSession
  /\ Idle.msg = 0 /\ Idle.who = "manage"
BY NoSessionTyped, NothingTyped DEF Idle, HandlerRow, Labels, TextKinds

LEMMA IdleLocal ==
  ASSUME NEW h \in Handlers, handlers'[h] = Idle
  PROVE  Local(h)'
<1>1. ~Holds(h)'
  BY IdleTyped, NoSessionTyped DEF Holds
<1> QED BY <1>1, IdleTyped, NoSessionTyped
    DEF Local, OfMessage, OfFlow, ActsWell, WritesWell, Before

\* A handler that ends: what it leaves undone is known to be loose.
LEMMA DoneKeeps ==
  ASSUME Inv, NEW h \in Handlers, Done(h), UNCHANGED <<events, sessions, deeds>>,
         status' = status \/ status' # "OPEN", Grows,
         handlers[h].again \/ handlers[h].msg \in settled',
         handlers[h].pc = "write" /\ Holds(h) => handlers[h].s.id \in loose',
         handlers[h].pc = "reply" => handlers[h].plan.offers \subseteq offered'
                                    \/ (Holds(h) => handlers[h].s.id \in loose')
  PROVE  Inv'
<1>1. /\ handlers' \in [Handlers -> HandlerRow] /\ handlers'[h] = Idle
      /\ \A g \in Handlers \ {h} : handlers'[g] = handlers[g]
  BY IdleTyped DEF Done, Inv, Typed
<1>2. SeenOpen'
  BY <1>1, IdleTyped DEF Inv, SeenOpen
<1>3. Moves(h)
  BY <1>1, <1>2, IdleTyped, NoSessionTyped DEF Moves, Same, Inv, Typed
<1> QED BY <1>1, <1>3, IdleLocal, MovesKeeps

LEMMA PreferKeeps ==
  ASSUME Inv, NEW h \in Handlers, Prefer(h)
  PROVE  Inv'
BY DoneKeeps DEF Prefer, At, Grows

LEMMA HandoffKeeps ==
  ASSUME Inv, NEW h \in Handlers, Handoff(h)
  PROVE  Inv'
<1>1. handlers[h].msg \in settled
  BY DEF Handoff, At, Inv, Local, OfMessage
<1> QED BY <1>1, DoneKeeps DEF Handoff, At, Grows

\* A handler that fails makes the session it holds a loose one, and settles
\* its message.
LEMMA FailKeeps ==
  ASSUME Inv, NEW h \in Handlers, Fail(h)
  PROVE  Inv'
<1>1. /\ Done(h) /\ UNCHANGED <<events, sessions, deeds, status, offered>>
      /\ settled' = IF handlers[h].again THEN settled ELSE settled \union {handlers[h].msg}
      /\ loose' = IF handlers[h].s.state = "NONE" THEN loose ELSE loose \union {handlers[h].s.id}
  BY DEF Fail
<1> QED BY <1>1, DoneKeeps DEF Grows, Holds

-----------------------------------------------------------------------------
(* Steps that only move the handler on.                                    *)

\* A record with one handler replaced.
LEMMA OneMoves ==
  ASSUME Inv, NEW h \in Handlers, NEW next \in HandlerRow,
         handlers' = [handlers EXCEPT ![h] = next]
  PROVE  /\ handlers' \in [Handlers -> HandlerRow] /\ handlers'[h] = next
         /\ \A g \in Handlers \ {h} : handlers'[g] = handlers[g] /\ Same(g)
BY DEF Inv, Typed, Same

LEMMA OpenKept ==
  ASSUME Inv, NEW h \in Handlers, \A g \in Handlers \ {h} : handlers'[g] = handlers[g],
         handlers'[h].pc # "idle" => handlers[h].pc # "idle" /\ handlers'[h].open = handlers[h].open,
         status' = status \/ status' # "OPEN"
  PROVE  SeenOpen'
BY DEF Inv, SeenOpen

LEMMA AtLabel ==
  ASSUME NEW c \in HandlerRow, NEW pc \in Labels
  PROVE  LET y == [c EXCEPT !.pc = pc]
         IN /\ y \in HandlerRow /\ y.pc = pc /\ y.who = c.who /\ y.msg = c.msg
            /\ y.again = c.again /\ y.s = c.s /\ y.plan = c.plan /\ y.open = c.open
BY DEF HandlerRow

\* The handler goes to a label past its writes.
LEMMA GotoKeeps ==
  ASSUME Inv, NEW h \in Handlers, NEW pc \in {"record", "handoff"}, Goto(h, pc),
         UNCHANGED <<events, sessions, deeds, status>>, Grows,
         handlers[h].pc \in {"reply", "record"}, handlers[h].msg \in settled',
         handlers[h].pc = "reply" => handlers[h].plan.offers \subseteq offered'
  PROVE  Inv'
<1> DEFINE next == [handlers[h] EXCEPT !.pc = pc]
<1>0. handlers[h] \in HandlerRow /\ Local(h) /\ pc \in Labels
  BY DEF Inv, Typed, Labels
<1>1. /\ next \in HandlerRow /\ next.pc = pc /\ next.who = handlers[h].who
      /\ next.msg = handlers[h].msg /\ next.again = handlers[h].again
      /\ next.s = handlers[h].s /\ next.plan = handlers[h].plan /\ next.open = handlers[h].open
  BY <1>0, AtLabel
<1>2. handlers' = [handlers EXCEPT ![h] = next]
  BY DEF Goto
<1> HIDE DEF next
<1>3. /\ handlers' \in [Handlers -> HandlerRow] /\ handlers'[h] = next
      /\ \A g \in Handlers \ {h} : handlers'[g] = handlers[g] /\ Same(g)
  BY <1>1, <1>2, OneMoves
<1>4. ~handlers[h].again
  BY <1>0 DEF Local, OfMessage
<1>5. SeenOpen'
  BY <1>1, <1>3, OpenKept
<1>6. Moves(h)
  BY <1>1, <1>3, <1>5 DEF Moves, Inv, Typed
<1>7. OfMessage(h)'
  BY <1>1, <1>3, <1>4, <1>6, MovedOn DEF Before
<1>8. OfFlow(h)' /\ ActsWell(h)' /\ WritesWell(h)'
  BY <1>0, <1>1, <1>3 DEF Local, OfFlow, ActsWell, WritesWell
<1> QED BY <1>6, <1>7, <1>8, MovesKeeps DEF Local

LEMMA ReplyKeeps ==
  ASSUME Inv, NEW h \in Handlers, Reply(h)
  PROVE  Inv'
<1>1. /\ handlers[h].pc = "reply" /\ offered' = offered \union handlers[h].plan.offers
      /\ settled' = settled \union {handlers[h].msg}
      /\ IF handlers[h].who = "ai" THEN Goto(h, "record") ELSE Done(h)
      /\ UNCHANGED <<events, sessions, deeds, status, loose>>
  BY DEF Reply, At
<1>2. Grows
  BY <1>1 DEF Grows
<1>3. CASE handlers[h].who = "ai"
  BY <1>1, <1>2, <1>3, GotoKeeps
<1>4. CASE handlers[h].who # "ai"
  BY <1>1, <1>2, <1>4, DoneKeeps
<1> QED BY <1>3, <1>4

LEMMA RecordKeeps ==
  ASSUME Inv, NEW h \in Handlers, RecordAiState(h)
  PROVE  Inv'
<1>1. /\ handlers[h].pc = "record" /\ UNCHANGED <<events, sessions, deeds, status, loose, offered>>
      /\ settled' = settled \union
            (IF handlers[h].plan.action = "HANDOFF" THEN {handlers[h].msg} ELSE {})
      /\ Goto(h, "handoff") \/ Done(h)
  BY DEF RecordAiState, At
<1>2. Grows
  BY <1>1 DEF Grows
<1>3. handlers[h].msg \in settled'
  BY <1>1 DEF Inv, Local, OfMessage
<1>4. CASE Goto(h, "handoff")
  BY <1>1, <1>2, <1>3, <1>4, GotoKeeps
<1>5. CASE Done(h)
  BY <1>1, <1>2, <1>3, <1>5, DoneKeeps
<1> QED BY <1>1, <1>4, <1>5

\* Everyone in flight sees an open conversation.
LEMMA OpenedTyped ==
  ASSUME Inv, NEW g \in Handlers
  PROVE  /\ Opened[g] \in HandlerRow /\ Opened[g].pc = handlers[g].pc
         /\ Opened[g].who = handlers[g].who /\ Opened[g].msg = handlers[g].msg
         /\ Opened[g].again = handlers[g].again /\ Opened[g].s = handlers[g].s
         /\ Opened[g].plan = handlers[g].plan
         /\ handlers[g].open => Opened[g].open
         /\ status' = "OPEN" /\ handlers[g].pc # "idle" => Opened[g].open
<1>1. handlers[g] \in HandlerRow
  BY DEF Inv, Typed
<1>2. Opened[g] = IF status' = "OPEN" /\ ~At(g, "idle")
                  THEN [handlers[g] EXCEPT !.open = TRUE] ELSE handlers[g]
  BY DEF Opened
<1>3. CASE status' = "OPEN" /\ ~At(g, "idle")
  BY <1>1, <1>2, <1>3 DEF HandlerRow
<1>4. CASE ~(status' = "OPEN" /\ ~At(g, "idle"))
  BY <1>1, <1>2, <1>4 DEF At
<1> QED BY <1>3, <1>4

LEMMA ProjectKeeps ==
  ASSUME Inv, NEW h \in Handlers, Project(h)
  PROVE  Inv'
<1> DEFINE old == Opened[h]
<1> DEFINE pc == IF handlers[h].text = "stop" THEN "prefer" ELSE "status"
<1> DEFINE on == [old EXCEPT !.pc = pc]
<1>0. handlers[h] \in HandlerRow /\ Local(h)
  BY DEF Inv, Typed
<1>1. /\ handlers[h].pc = "project"
      /\ UNCHANGED <<events, sessions, offered, deeds, settled, loose>>
      /\ handlers' = [Opened EXCEPT ![h] = IF handlers[h].again THEN Idle ELSE on]
  BY DEF Project, At
<1>2. /\ on \in HandlerRow /\ on.pc = pc /\ on.who = handlers[h].who
      /\ on.msg = handlers[h].msg /\ on.again = handlers[h].again
      /\ on.s = handlers[h].s /\ on.plan = handlers[h].plan /\ on.open = old.open
  <2>1. old \in HandlerRow /\ pc \in Labels
    BY OpenedTyped DEF Labels
  <2> HIDE DEF old, pc
  <2>2. on \in HandlerRow /\ on.pc = pc /\ on.who = old.who /\ on.msg = old.msg
        /\ on.again = old.again /\ on.s = old.s /\ on.plan = old.plan /\ on.open = old.open
    BY <2>1, AtLabel
  <2> HIDE DEF on
  <2> QED BY <2>2, OpenedTyped DEF old
<1> HIDE DEF on
<1>3. /\ handlers'[h] = IF handlers[h].again THEN Idle ELSE on
      /\ \A g \in Handlers \ {h} : handlers'[g] = Opened[g]
      /\ handlers' \in [Handlers -> HandlerRow]
  <2>1. Opened \in [Handlers -> HandlerRow]
    <3>1. Opened = [g \in Handlers |-> Opened[g]]
      BY DEF Opened
    <3> QED BY <3>1, OpenedTyped
  <2> HIDE DEF old
  <2> QED BY <1>1, <1>2, <2>1, IdleTyped
<1>4. \A g \in Handlers \ {h} : Same(g)
  BY <1>3, OpenedTyped DEF Same
<1>5. SeenOpen'
  <2> SUFFICES ASSUME status' = "OPEN", NEW g \in Handlers, handlers'[g].pc # "idle"
               PROVE  handlers'[g].open
    BY DEF SeenOpen
  <2>1. CASE g = h
    <3>1. on.open
      BY <1>1, <1>2, OpenedTyped
    <3> QED BY <2>1, <3>1, <1>3, IdleTyped
  <2>2. CASE g # h
    BY <2>2, <1>3, OpenedTyped
  <2> QED BY <2>1, <2>2
<1>6. Moves(h)
  BY <1>1, <1>2, <1>3, <1>4, <1>5, IdleTyped, NoSessionTyped DEF Moves, Inv, Typed, Grows
<1>7. CASE handlers[h].again
  BY <1>3, <1>6, <1>7, IdleLocal, MovesKeeps
<1>8. CASE ~handlers[h].again
  <2>1. handlers'[h] = on /\ on.pc \in {"prefer", "status"}
    BY <1>2, <1>3, <1>8
  <2>2. OfMessage(h)'
    BY <1>1, <1>6, <1>8, <2>1, MovedOn DEF Before
  <2>3. OfFlow(h)' /\ ActsWell(h)' /\ WritesWell(h)'
    BY <1>0, <1>1, <1>2, <2>1 DEF Local, OfFlow, ActsWell, WritesWell, Holds
  <2> QED BY <1>6, <2>2, <2>3, MovesKeeps DEF Local
<1> QED BY <1>7, <1>8

\* A handler on its way to act, write or reply.
LEMMA StepMoves ==
  ASSUME Inv, NEW h \in Handlers, NEW next \in HandlerRow,
         handlers' = [handlers EXCEPT ![h] = next], UNCHANGED <<events, deeds, status>>, Grows,
         sessions' \in [Flows -> SessionRow],
         \A w \in Flows : sessions'[w] \in {sessions[w], NoSession},
         handlers[h].pc \notin {"idle", "write", "reply"}, next.pc # "idle",
         next.msg = handlers[h].msg, next.again = handlers[h].again, next.open = handlers[h].open,
         next.s.state # "NONE" =>
           \/ next.s = handlers[h].s
           \/ /\ \E w \in Flows : next.s = sessions[w]
              /\ \A g \in Handlers \ {h} :
                   Holds(g) /\ handlers[g].s.id = next.s.id => next.s.id \in loose'
  PROVE  Moves(h) /\ handlers'[h] = next
<1>1. /\ handlers' \in [Handlers -> HandlerRow] /\ handlers'[h] = next
      /\ \A g \in Handlers \ {h} : handlers'[g] = handlers[g] /\ Same(g)
  BY OneMoves
<1>2. SeenOpen'
  BY <1>1, OpenKept
<1> QED BY <1>1, <1>2 DEF Moves

LEMMA NextInLineTyped ==
  ASSUME NEW c \in HandlerRow, c.who \in Flows
  PROVE  LET y == NextInLine(c)
         IN /\ y \in HandlerRow /\ y.pc \in {"status", "ai"} /\ y.msg = c.msg
            /\ y.again = c.again /\ y.s = NoSession /\ y.open = c.open
            /\ y.who = IF y.pc = "status" THEN "flow" ELSE "ai"
<1>1. CASE c.who = "manage"
  BY <1>1, NoSessionTyped DEF NextInLine, HandlerRow, Labels
<1>2. CASE c.who # "manage"
  BY <1>2, NoSessionTyped DEF NextInLine, HandlerRow, Labels, TextKinds
<1> QED BY <1>1, <1>2

LEMMA FollowTyped ==
  ASSUME NEW c \in HandlerRow, NEW s \in SessionRow, NEW plan \in PlanRow, plan.to # "next",
         NEW next, next = Follow(c, s, plan)
  PROVE  /\ next \in HandlerRow /\ next.msg = c.msg /\ next.again = c.again
         /\ next.who = c.who /\ next.s = s /\ next.plan = plan /\ next.open = c.open
         /\ next.pc = IF plan.deed # "NONE" THEN "act"
                      ELSE IF plan.writes THEN "write" ELSE "reply"
<1> DEFINE pc == IF plan.deed # "NONE" THEN "act" ELSE IF plan.writes THEN "write" ELSE "reply"
<1> DEFINE y == [c EXCEPT !.s = s, !.plan = plan, !.text = "talk", !.pc = pc]
<1>1. pc \in Labels
  BY DEF Labels
<1>2. next = y
  BY DEF Follow
<1> HIDE DEF pc
<1>3. /\ y \in HandlerRow /\ y.msg = c.msg /\ y.again = c.again /\ y.who = c.who
      /\ y.s = s /\ y.plan = plan /\ y.open = c.open /\ y.pc = pc
  BY <1>1 DEF HandlerRow, TextKinds
<1> HIDE DEF y
<1> QED BY <1>2, <1>3 DEF pc

\* handled: false, from a label of the flows.
LEMMA NextInLineLocal ==
  ASSUME Inv, NEW h \in Handlers, Moves(h), handlers'[h] = NextInLine(handlers[h]),
         handlers[h].pc \in {"status", "read", "expire"}
  PROVE  Local(h)'
<1>0. handlers[h] \in HandlerRow /\ Local(h) /\ handlers[h].who \in Flows
  BY DEF Inv, Typed, Local, OfFlow
<1> DEFINE y == NextInLine(handlers[h])
<1>1. /\ y \in HandlerRow /\ y.pc \in {"status", "ai"} /\ y.msg = handlers[h].msg
      /\ y.again = handlers[h].again /\ y.s = NoSession
      /\ y.who = IF y.pc = "status" THEN "flow" ELSE "ai"
  BY <1>0, NextInLineTyped
<1>2. handlers'[h] = y
  OBVIOUS
<1> HIDE DEF y
<1>3. OfMessage(h)'
  BY <1>0, <1>1, <1>2, MovedOn DEF Before, Local, OfMessage
<1>4. ~Holds(h)'
  BY <1>1, <1>2, NoSessionTyped DEF Holds
<1>5. OfFlow(h)' /\ ActsWell(h)' /\ WritesWell(h)'
  BY <1>1, <1>2, <1>4 DEF OfFlow, ActsWell, WritesWell, Flows
<1> QED BY <1>3, <1>5 DEF Local

LEMMA ReadStatusKeeps ==
  ASSUME Inv, NEW h \in Handlers, ReadStatus(h)
  PROVE  Inv'
<1>0. /\ handlers[h] \in HandlerRow /\ Local(h) /\ handlers[h].pc = "status"
      /\ handlers[h].who \in Flows /\ ~Holds(h) /\ ~handlers[h].again
      /\ UNCHANGED <<status, events, sessions, offered, deeds, settled, loose>> /\ Grows
  BY DEF Inv, Typed, ReadStatus, At, Local, OfFlow, OfMessage, Grows
<1>s. sessions' \in [Flows -> SessionRow] /\ \A w \in Flows : sessions'[w] = sessions[w]
  BY <1>0 DEF Inv, Typed
<1>1. CASE status = "OPEN"
  <2> DEFINE y == [handlers[h] EXCEPT !.pc = "read"]
  <2>1. /\ y \in HandlerRow /\ y.pc = "read" /\ y.who = handlers[h].who
        /\ y.msg = handlers[h].msg /\ y.again = handlers[h].again
        /\ y.s = handlers[h].s /\ y.open = handlers[h].open
    BY <1>0, AtLabel DEF Labels
  <2>2. handlers' = [handlers EXCEPT ![h] = y]
    BY <1>1 DEF ReadStatus
  <2> HIDE DEF y
  <2>3. Moves(h) /\ handlers'[h] = y
    BY <1>0, <1>s, <2>1, <2>2, StepMoves
  <2>4. OfMessage(h)'
    BY <1>0, <2>1, <2>3, MovedOn DEF Before
  <2>5. handlers[h].open
    BY <1>0, <1>1 DEF Inv, SeenOpen
  <2>6. OfFlow(h)' /\ ActsWell(h)' /\ WritesWell(h)'
    BY <1>0, <2>1, <2>3, <2>5 DEF Local, OfFlow, ActsWell, WritesWell, Holds
  <2> QED BY <2>3, <2>4, <2>6, MovesKeeps DEF Local
<1>2. CASE status # "OPEN"
  <2> DEFINE y == NextInLine(handlers[h])
  <2>1. /\ y \in HandlerRow /\ y.pc \in {"status", "ai"} /\ y.msg = handlers[h].msg
        /\ y.again = handlers[h].again /\ y.s = NoSession /\ y.open = handlers[h].open
    BY <1>0, NextInLineTyped
  <2>2. handlers' = [handlers EXCEPT ![h] = y]
    BY <1>2 DEF ReadStatus
  <2> HIDE DEF y
  <2>3. Moves(h) /\ handlers'[h] = y
    BY <1>0, <1>s, <2>1, <2>2, StepMoves, NoSessionTyped
  <2>4. Local(h)'
    BY <1>0, <2>3, NextInLineLocal DEF y
  <2> QED BY <2>3, <2>4, MovesKeeps
<1> QED BY <1>1, <1>2

LEMMA InterpretKeeps ==
  ASSUME Inv, NEW h \in Handlers, Interpret(h)
  PROVE  Inv'
<1>0. /\ handlers[h] \in HandlerRow /\ Local(h) /\ handlers[h].pc = "ai"
      /\ ~Holds(h) /\ ~handlers[h].again
      /\ UNCHANGED <<status, events, sessions, offered, deeds, settled, loose>> /\ Grows
  BY DEF Inv, Typed, Interpret, At, Local, OfFlow, OfMessage, Grows
<1>s. sessions' \in [Flows -> SessionRow] /\ \A w \in Flows : sessions'[w] = sessions[w]
  BY <1>0 DEF Inv, Typed
<1>1. PICK plan \in AiPlans :
        handlers' = [handlers EXCEPT ![h] =
             IF plan.to = "flag" THEN [handlers[h] EXCEPT !.pc = "record", !.plan = plan]
             ELSE Follow(handlers[h], NoSession, plan)]
  BY DEF Interpret
<1>2. /\ plan \in PlanRow /\ plan.to \in {"reply", "flag"} /\ plan.writes = FALSE
      /\ plan.to = "flag" => plan.action = "HANDOFF"
  BY AiPlansFit
<1> DEFINE y == IF plan.to = "flag" THEN [handlers[h] EXCEPT !.pc = "record", !.plan = plan]
                ELSE Follow(handlers[h], NoSession, plan)
<1>3. /\ y \in HandlerRow /\ y.msg = handlers[h].msg /\ y.again = handlers[h].again
      /\ y.open = handlers[h].open /\ y.who = handlers[h].who /\ y.s.state = "NONE"
      /\ y.pc \in {"record", "act", "reply"} /\ (y.pc = "record" => y.plan.action = "HANDOFF")
      /\ handlers[h].who = "manage" => y.s.start = 0
  <2>1. CASE plan.to = "flag"
    <3> DEFINE z == [handlers[h] EXCEPT !.pc = "record", !.plan = plan]
    <3>1. /\ z \in HandlerRow /\ z.msg = handlers[h].msg /\ z.again = handlers[h].again
          /\ z.open = handlers[h].open /\ z.who = handlers[h].who /\ z.s = handlers[h].s
          /\ z.pc = "record" /\ z.plan = plan
      BY <1>0, <1>2 DEF HandlerRow, Labels
    <3> HIDE DEF z
    <3>2. y = z
      BY <2>1 DEF z
    <3> HIDE DEF y
    <3> QED BY <1>0, <1>2, <2>1, <3>1, <3>2 DEF Holds, Local, OfFlow
  <2>2. CASE plan.to = "reply"
    <3> DEFINE z == Follow(handlers[h], NoSession, plan)
    <3>1. /\ z \in HandlerRow /\ z.msg = handlers[h].msg /\ z.again = handlers[h].again
          /\ z.open = handlers[h].open /\ z.who = handlers[h].who /\ z.s = NoSession
          /\ z.pc \in {"act", "reply"}
      BY <1>0, <1>2, <2>2, FollowTyped, NoSessionTyped
    <3> HIDE DEF z
    <3>2. y = z
      BY <2>2 DEF z
    <3> HIDE DEF y
    <3> QED BY <3>1, <3>2, NoSessionTyped
  <2> QED BY <1>2, <2>1, <2>2
<1>4. handlers' = [handlers EXCEPT ![h] = y]
  BY <1>1
<1> HIDE DEF y
<1>5. Moves(h) /\ handlers'[h] = y
  BY <1>0, <1>s, <1>3, <1>4, StepMoves
<1>6. OfMessage(h)'
  BY <1>0, <1>3, <1>5, MovedOn DEF Before
<1>7. handlers[h].who = "ai"
  BY <1>0 DEF Local, OfFlow
<1>8. OfFlow(h)' /\ ActsWell(h)' /\ WritesWell(h)'
  BY <1>0, <1>3, <1>5, <1>7 DEF OfFlow, ActsWell, WritesWell, Holds, Flows
<1> QED BY <1>5, <1>6, <1>8, MovesKeeps DEF Local

\* A flow follows a plan made from the session it has read, or from none.
LEMMA FollowKeeps ==
  ASSUME Inv, NEW h \in Handlers, NEW s \in SessionRow, NEW plan,
         PlanFits(plan, handlers[h].who, s, handlers[h].msg),
         handlers' = [handlers EXCEPT ![h] = Follow(handlers[h], s, plan)],
         UNCHANGED <<events, deeds, status>>, Grows,
         sessions' \in [Flows -> SessionRow],
         \A w \in Flows : sessions'[w] \in {sessions[w], NoSession},
         handlers[h].pc \in {"read", "expire"}, handlers[h].who = "manage" => s.start = 0,
         s.state # "NONE" =>
           /\ s = sessions[handlers[h].who]
           /\ \A g \in Handlers \ {h} : Holds(g) /\ handlers[g].s.id = s.id => s.id \in loose'
           /\ Deeded(handlers[h].who, s.id) => s.id \in loose'
           /\ \A o \in Due(handlers[h].who, s) : o \in offered' \/ s.id \in loose'
  PROVE  Inv'
<1> DEFINE c == handlers[h]
<1>0. /\ c \in HandlerRow /\ Local(h) /\ c.who \in Flows /\ ~c.again /\ c.open
      /\ plan \in PlanRow
  BY DEF Inv, Typed, Local, OfFlow, OfMessage, PlanFits
<1>1. CASE plan.to = "next"
  <2> DEFINE y == NextInLine(c)
  <2>1. /\ y \in HandlerRow /\ y.pc \in {"status", "ai"} /\ y.msg = c.msg
        /\ y.again = c.again /\ y.s = NoSession /\ y.open = c.open
    BY <1>0, NextInLineTyped
  <2>2. handlers' = [handlers EXCEPT ![h] = y]
    BY <1>1 DEF Follow
  <2> HIDE DEF y
  <2>3. Moves(h) /\ handlers'[h] = y
    BY <1>0, <2>1, <2>2, StepMoves, NoSessionTyped
  <2>4. Local(h)'
    BY <1>0, <2>3, NextInLineLocal DEF y
  <2> QED BY <2>3, <2>4, MovesKeeps
<1>2. CASE plan.to # "next"
  <2> DEFINE y == Follow(c, s, plan)
  <2>1. /\ y \in HandlerRow /\ y.msg = c.msg /\ y.again = c.again /\ y.who = c.who
        /\ y.s = s /\ y.plan = plan /\ y.open = c.open
        /\ y.pc = IF plan.deed # "NONE" THEN "act" ELSE IF plan.writes THEN "write" ELSE "reply"
    <3>1. PICK d : d = c
      OBVIOUS
    <3>2. d \in HandlerRow /\ y = Follow(d, s, plan)
      BY <1>0, <3>1
    <3> HIDE DEF c, y
    <3>3. PICK n : n = y
      OBVIOUS
    <3>4. d \in HandlerRow /\ plan \in PlanRow /\ plan.to # "next" /\ n = Follow(d, s, plan)
      BY <1>0, <1>2, <3>2, <3>3
    <3>5. /\ n \in HandlerRow /\ n.msg = d.msg /\ n.again = d.again
          /\ n.who = d.who /\ n.s = s /\ n.plan = plan /\ n.open = d.open
          /\ n.pc = IF plan.deed # "NONE" THEN "act"
                    ELSE IF plan.writes THEN "write" ELSE "reply"
      BY <3>4, FollowTyped
    <3> QED BY <3>1, <3>3, <3>5
  <2>2. handlers' = [handlers EXCEPT ![h] = y]
    OBVIOUS
  <2> HIDE DEF y
  <2>3. Moves(h) /\ handlers'[h] = y
    <3>1. y.s.state # "NONE" =>
            /\ \E w \in Flows : y.s = sessions[w]
            /\ \A g \in Handlers \ {h} :
                 Holds(g) /\ handlers[g].s.id = y.s.id => y.s.id \in loose'
      BY <1>0, <2>1
    <3>2. y.pc # "idle"
      BY <2>1
    <3> QED BY <1>0, <2>1, <2>2, <3>1, <3>2, StepMoves
  <2>4. OfMessage(h)'
    BY <1>0, <2>1, <2>3, MovedOn DEF Before
  <2>5. Holds(h)' = (s.state # "NONE") /\ deeds' = deeds
    BY <2>1, <2>3 DEF Holds
  <2>6. OfFlow(h)'
    BY <1>0, <2>1, <2>3 DEF OfFlow, Holds
  <2>7. ActsWell(h)'
    <3> SUFFICES ASSUME plan.deed # "NONE" PROVE ActsWell(h)'
      BY <2>1, <2>3 DEF ActsWell
    <3>1. s.state # "NONE" /\ plan.row.id = s.id /\ Asked(plan) \in Due(c.who, s)
      BY DEF PlanFits
    <3>2. Asked(plan) \in offered' \/ s.id \in loose'
      BY <3>1
    <3>3. handlers'[h].plan = plan /\ handlers'[h].s = s /\ handlers'[h].who = c.who
      BY <2>1, <2>3
    <3>4. \A w, i : Deeded(w, i)' <=> Deeded(w, i)
      BY <2>5 DEF Deeded
    <3>5. Deeded(c.who, s.id) => s.id \in loose'
      BY <3>1
    <3>6. (\E d \in deeds' : d.who = c.who /\ d.id = s.id) => s.id \in loose'
      BY <2>5, <3>5 DEF Deeded
    <3> QED BY <2>5, <3>1, <3>2, <3>3, <3>6 DEF ActsWell, Asked, Deeded
  <2>8. WritesWell(h)'
    <3> SUFFICES ASSUME plan.deed = "NONE", plan.writes PROVE WritesWell(h)'
      BY <1>0, <2>1, <2>3 DEF WritesWell, PlanRow
    <3>1. /\ plan.row.state # "NONE" => plan.row.id = IF s.state = "NONE" THEN c.msg ELSE s.id
          /\ c.who = "manage" => plan.row.start = 0
          /\ Due(c.who, plan.row) \subseteq plan.offers
          /\ s.state = "NONE" => Due(c.who, plan.row) = {}
      BY DEF PlanFits
    <3>2. handlers'[h].plan = plan /\ handlers'[h].s = s /\ handlers'[h].who = c.who
          /\ handlers'[h].msg = c.msg
      BY <2>1, <2>3
    <3>3. \A d \in deeds : d.who # "ai" => d.id # c.msg
      BY <1>0 DEF Local, OfMessage, Before, Fresh
    <3>4. c.who # "ai"
      BY <1>0 DEF Flows
    <3>5. plan.row.state # "NONE" /\ Deeded(c.who, plan.row.id) => plan.row.id \in loose'
      BY <3>1, <3>3, <3>4 DEF Deeded
    <3>6. plan.row.state # "NONE" /\ (\E d \in deeds' : d.who = c.who /\ d.id = plan.row.id)
          => plan.row.id \in loose'
      BY <2>5, <3>5 DEF Deeded
    <3> HIDE DEF c
    <3>7. PICK w : w = c.who
      OBVIOUS
    <3>8. PICK row : row = plan.row
      OBVIOUS
    <3>9. Due(w, row) \subseteq plan.offers /\ (s.state = "NONE" => Due(w, row) = {})
      BY <3>1, <3>7, <3>8
    <3>10. Due(handlers'[h].who, handlers'[h].plan.row) = Due(w, row)
      BY <3>2, <3>7, <3>8
    <3> QED BY <2>5, <3>1, <3>2, <3>6, <3>9, <3>10 DEF WritesWell, Deeded
  <2> QED BY <2>3, <2>4, <2>6, <2>7, <2>8, MovesKeeps DEF Local
<1> QED BY <1>1, <1>2

\* Reading a session another handler holds makes it a loose one.
LEMMA ReadSessionKeeps ==
  ASSUME Inv, NEW h \in Handlers, ReadSession(h)
  PROVE  Inv'
<1> DEFINE c == handlers[h]
<1> DEFINE s == sessions[c.who]
<1>0. /\ c \in HandlerRow /\ Local(h) /\ c.pc = "read" /\ c.who \in Flows /\ ~c.again
      /\ ~Holds(h) /\ c.open
      /\ UNCHANGED <<status, events, sessions, offered, deeds, settled>>
      /\ loose' = IF Holders(s) = {} THEN loose ELSE loose \union {s.id}
  BY DEF Inv, Typed, ReadSession, At, Local, OfFlow, OfMessage
<1>1. s \in SessionRow /\ sessions' \in [Flows -> SessionRow]
      /\ \A w \in Flows : sessions'[w] = sessions[w]
  BY <1>0 DEF Inv, Typed
<1>2. Grows
  BY <1>0 DEF Grows
<1>3. c.who = "manage" => s.start = 0
  BY DEF Inv
<1>4. \A g \in Handlers \ {h} : s.state # "NONE" /\ Holds(g) /\ handlers[g].s.id = s.id => s.id \in loose'
  BY <1>0 DEF Holders, Holds
<1>5. s.state # "NONE" /\ Deeded(c.who, s.id) => s.id \in loose'
  <2>1. Stored(c.who)
    BY <1>0 DEF Inv
  <2>2. ASSUME NEW g \in Handlers, Finishing(g, c.who, s.id), s.state # "NONE" PROVE s.id \in loose'
    BY <2>2, <1>0, <1>4 DEF Finishing
  <2> QED BY <1>0, <2>1, <2>2 DEF Stored
<1>6. s.state # "NONE" => \A o \in Due(c.who, s) : o \in offered' \/ s.id \in loose'
  <2>1. Stored(c.who)
    BY <1>0 DEF Inv
  <2>2. ASSUME NEW o, NEW g \in Handlers, Telling(g, c.who, s.id, o), s.state # "NONE"
        PROVE  s.id \in loose'
    BY <2>2, <1>0, <1>4 DEF Telling
  <2> QED BY <1>0, <2>1, <2>2 DEF Stored
<1>7. CASE s.late
  <2> DEFINE y == [c EXCEPT !.pc = "expire", !.s = s]
  <2>1. handlers' = [handlers EXCEPT ![h] = y]
    BY <1>7 DEF ReadSession
  <2>2. /\ y \in HandlerRow /\ y.pc = "expire" /\ y.s = s /\ y.who = c.who /\ y.msg = c.msg
        /\ y.again = c.again /\ y.open = c.open
    <3> HIDE DEF s
    <3> QED BY <1>0, <1>1 DEF HandlerRow, Labels
  <2> HIDE DEF y
  <2>3. Moves(h) /\ handlers'[h] = y
    BY <1>0, <1>1, <1>2, <1>4, <2>1, <2>2, StepMoves
  <2>4. OfMessage(h)'
    BY <1>0, <2>2, <2>3, MovedOn DEF Before
  <2>5. OfFlow(h)' /\ ActsWell(h)' /\ WritesWell(h)'
    BY <1>0, <1>3, <2>2, <2>3 DEF OfFlow, ActsWell, WritesWell
  <2> QED BY <2>3, <2>4, <2>5, MovesKeeps DEF Local
<1>8. CASE ~s.late
  <2>1. PICK plan \in Plans(c.who, s, c.text, c.msg) :
          handlers' = [handlers EXCEPT ![h] = Follow(handlers[h], s, plan)]
    BY <1>8 DEF ReadSession
  <2>2. c.text \in TextKinds /\ c.msg \in Nat
    BY <1>0 DEF HandlerRow
  <2>3. PlanFits(plan, c.who, s, c.msg)
    BY <1>0, <1>1, <1>3, <2>2, PlansFit
  <2> HIDE DEF s
  <2>4. s.state # "NONE" => s = sessions[handlers[h].who]
    BY DEF s
  <2> QED BY <1>0, <1>1, <1>2, <1>3, <1>4, <1>5, <1>6, <2>1, <2>3, <2>4, FollowKeeps
<1> QED BY <1>7, <1>8

\* The expired row is deleted, and the plan is made from none.
LEMMA ClearExpiredKeeps ==
  ASSUME Inv, NEW h \in Handlers, ClearExpired(h)
  PROVE  Inv'
<1> DEFINE c == handlers[h]
<1>0. /\ c \in HandlerRow /\ c.pc = "expire" /\ c.who \in Flows
      /\ UNCHANGED <<status, events, offered, deeds, settled, loose>> /\ Grows
      /\ sessions' = [sessions EXCEPT ![c.who] = NoSession]
  BY DEF Inv, Typed, ClearExpired, At, Local, OfFlow, Grows
<1>1. sessions' \in [Flows -> SessionRow] /\ \A w \in Flows : sessions'[w] \in {sessions[w], NoSession}
  BY <1>0, NoSessionTyped DEF Inv, Typed
<1>2. PICK plan \in Plans(c.who, NoSession, c.text, c.msg) :
        handlers' = [handlers EXCEPT ![h] = Follow(handlers[h], NoSession, plan)]
  BY DEF ClearExpired
<1>3. c.text \in TextKinds /\ c.msg \in Nat
  BY <1>0 DEF HandlerRow
<1>4. PlanFits(plan, c.who, NoSession, c.msg)
  BY <1>0, <1>3, NoSessionTyped, PlansFit
<1> QED BY <1>0, <1>1, <1>2, <1>4, NoSessionTyped, FollowKeeps
\* A refused deed sends the session back, or ends it; it asks for nothing.
LEMMA RefuseKeeps ==
  ASSUME Inv, NEW h \in Handlers, Refuse(h)
  PROVE  Inv'
<1> DEFINE c == handlers[h]
<1>0. /\ c \in HandlerRow /\ Local(h) /\ c.pc = "act" /\ c.who \in Flows /\ ~c.again
      /\ Holds(h) /\ UNCHANGED <<status, events, sessions, offered, deeds, settled, loose>>
      /\ Grows
  BY DEF Inv, Typed, Refuse, At, Local, OfMessage, HandlerRow, Flows, ActsWell, Grows
<1>1. sessions' \in [Flows -> SessionRow] /\ \A w \in Flows : sessions'[w] = sessions[w]
  BY <1>0 DEF Inv, Typed
<1>2. PICK row \in SessionRow :
        /\ handlers' = [handlers EXCEPT ![h].pc = "write", ![h].plan.row = row]
        /\ row.start = 0 /\ (row.state # "NONE" => row.id = c.s.id)
        /\ \A w \in Flows : Due(w, row) = {}
  <2> DEFINE Back(state) == [Move(c.s, state) EXCEPT !.options = {}, !.start = 0]
  <2>1. ASSUME NEW state \in {"AWAIT_DATE", "AWAIT_RESCHEDULE_DATE"}
        PROVE  /\ Back(state) \in SessionRow /\ Back(state).start = 0
               /\ Back(state).id = c.s.id /\ \A w \in Flows : Due(w, Back(state)) = {}
    <3> DEFINE y == Move(c.s, state)
    <3>1. y \in SessionRow /\ y.state = state /\ y.id = c.s.id
      <4>1. PICK s \in SessionRow : s = c.s
        BY <1>0 DEF HandlerRow
      <4>2. state \in States
        BY DEF States
      <4>3. Move(s, state) \in SessionRow /\ Move(s, state).state = state /\ Move(s, state).id = s.id
        BY <4>2, Moved
      <4> QED BY <4>1, <4>3
    <3> HIDE DEF y
    <3> DEFINE z == [y EXCEPT !.options = {}, !.start = 0]
    <3>2. z \in SessionRow /\ z.state = state /\ z.id = c.s.id /\ z.start = 0
      BY <3>1 DEF SessionRow
    <3>3. Back(state) = z
      BY DEF y
    <3> HIDE DEF z, Back
    <3>4. \A w \in Flows : Due(w, z) = {}
      BY <3>2 DEF Due
    <3> QED BY <3>2, <3>3, <3>4
  <2>2. \A w \in Flows : Due(w, NoSession) = {}
    BY NoSessionTyped DEF Due
  <2>3. \/ handlers' = [handlers EXCEPT ![h].pc = "write", ![h].plan.row = Back("AWAIT_DATE")]
        \/ handlers' = [handlers EXCEPT ![h].pc = "write",
                                        ![h].plan.row = Back("AWAIT_RESCHEDULE_DATE")]
        \/ handlers' = [handlers EXCEPT ![h].pc = "write", ![h].plan.row = NoSession]
    <3>1. CASE c.plan.deed = "book"
      BY <3>1 DEF Refuse
    <3>2. CASE c.plan.deed = "move"
      BY <3>2 DEF Refuse
    <3>3. CASE c.plan.deed \notin {"book", "move"}
      BY <3>3 DEF Refuse
    <3> QED BY <3>1, <3>2, <3>3
  <2> HIDE DEF Back
  <2>4. "AWAIT_DATE" \in {"AWAIT_DATE", "AWAIT_RESCHEDULE_DATE"}
        /\ "AWAIT_RESCHEDULE_DATE" \in {"AWAIT_DATE", "AWAIT_RESCHEDULE_DATE"}
    OBVIOUS
  <2>5. CASE handlers' = [handlers EXCEPT ![h].pc = "write", ![h].plan.row = NoSession]
    BY <2>2, <2>5, NoSessionTyped
  <2>6. CASE handlers' = [handlers EXCEPT ![h].pc = "write", ![h].plan.row = Back("AWAIT_DATE")]
    BY <2>1, <2>4, <2>6
  <2>7. CASE handlers' = [handlers EXCEPT ![h].pc = "write",
                                          ![h].plan.row = Back("AWAIT_RESCHEDULE_DATE")]
    BY <2>1, <2>4, <2>7
  <2> QED BY <2>3, <2>5, <2>6, <2>7
<1>3. PICK next \in HandlerRow :
        /\ handlers' = [handlers EXCEPT ![h] = next]
        /\ next.pc = "write" /\ next.who = c.who /\ next.msg = c.msg
        /\ next.again = c.again /\ next.s = c.s /\ next.open = c.open
        /\ next.plan.row = row
  <2> DEFINE plan == [c.plan EXCEPT !.row = row]
  <2> DEFINE half == [c EXCEPT !.pc = "write"]
  <2> DEFINE next == [half EXCEPT !.plan = plan]
  <2>1. plan \in PlanRow /\ plan.row = row /\ plan.offers = c.plan.offers
    <3>1. c.plan \in PlanRow
      BY <1>0 DEF HandlerRow
    <3> HIDE DEF c
    <3> QED BY <1>2, <3>1 DEF PlanRow
  <2>2. /\ half \in HandlerRow /\ half.pc = "write" /\ half.who = c.who /\ half.msg = c.msg
        /\ half.again = c.again /\ half.s = c.s /\ half.open = c.open /\ half.plan = c.plan
    BY <1>0 DEF HandlerRow, Labels
  <2>3. next = [c EXCEPT !.pc = "write", !.plan.row = row]
    BY <1>0 DEF HandlerRow
  <2> HIDE DEF plan, half
  <2>4. /\ next \in HandlerRow /\ next.pc = "write" /\ next.who = c.who /\ next.msg = c.msg
        /\ next.again = c.again /\ next.s = c.s /\ next.open = c.open /\ next.plan = plan
    BY <2>1, <2>2 DEF HandlerRow
  <2> HIDE DEF next
  <2>5. handlers' = [handlers EXCEPT ![h] = next]
    BY <1>0, <1>2, <2>3 DEF Inv, Typed
  <2> QED BY <2>1, <2>4, <2>5
<1>4. Moves(h) /\ handlers'[h] = next
  BY <1>0, <1>1, <1>3, StepMoves
<1>5. OfMessage(h)'
  BY <1>0, <1>3, <1>4, MovedOn DEF Before
<1>6. OfFlow(h)' /\ ActsWell(h)'
  BY <1>0, <1>3, <1>4 DEF Local, OfFlow, ActsWell, Holds
<1>7. WritesWell(h)'
  <2>1. Deeded(c.who, c.s.id) => c.s.id \in loose
    BY <1>0 DEF Local, ActsWell
  <2>2. handlers'[h].plan.row = row /\ handlers'[h].who = c.who /\ handlers'[h].s = c.s
        /\ Holds(h)'
    BY <1>0, <1>3, <1>4 DEF Holds
  <2>3. Due(handlers'[h].who, handlers'[h].plan.row) = {}
    BY <1>0, <1>2, <2>2
  <2>4. row.state # "NONE" => row.id = c.s.id
    BY <1>2
  <2>5. (\E d \in deeds' : d.who = c.who /\ d.id = row.id) /\ row.state # "NONE" => row.id \in loose'
    BY <1>0, <1>2, <2>1 DEF Deeded
  <2> QED BY <1>2, <2>2, <2>3, <2>4, <2>5 DEF WritesWell, Deeded
<1> QED BY <1>4, <1>5, <1>6, <1>7, MovesKeeps DEF Local
-----------------------------------------------------------------------------
(* Steps that write a session row, act, or take a delivery.                *)

\* The row written is of the session held or of the message; its question is
\* then in a reply under way.
LEMMA WriteSessionKeeps ==
  ASSUME Inv, NEW h \in Handlers, WriteSession(h)
  PROVE  Inv'
<1> DEFINE c == handlers[h]
<1> DEFINE row == c.plan.row
<1>0. /\ c \in HandlerRow /\ Local(h) /\ c.pc = "write" /\ c.who \in Flows /\ ~c.again
      /\ UNCHANGED <<status, events, offered, deeds, settled, loose>> /\ Grows
      /\ sessions' = [sessions EXCEPT ![c.who] = row]
  BY DEF Inv, Typed, WriteSession, At, Local, OfMessage, OfFlow, Grows
<1>1. row \in SessionRow /\ c.plan \in PlanRow
  BY <1>0 DEF HandlerRow, PlanRow
<1>2. /\ c.who = "manage" => row.start = 0
      /\ Due(c.who, row) \subseteq c.plan.offers
      /\ Due(c.who, row) # {} => Holds(h)
      /\ row.state # "NONE" => row.id = IF Holds(h) THEN c.s.id ELSE c.msg
      /\ row.state # "NONE" => (Deeded(c.who, row.id) => row.id \in loose)
  BY <1>0 DEF Local, WritesWell
<1>3. PICK next \in HandlerRow :
        /\ handlers' = [handlers EXCEPT ![h] = next]
        /\ next.pc = "reply" /\ next.who = c.who /\ next.msg = c.msg
        /\ next.again = c.again /\ next.s = c.s /\ next.open = c.open
        /\ next.plan.offers = c.plan.offers
  <2> DEFINE plan == [c.plan EXCEPT !.row = NoSession]
  <2> DEFINE half == [c EXCEPT !.pc = "reply"]
  <2> DEFINE next == [half EXCEPT !.plan = plan]
  <2>1. plan \in PlanRow /\ plan.offers = c.plan.offers
    <3> HIDE DEF c
    <3> QED BY <1>1, NoSessionTyped DEF PlanRow
  <2>2. /\ half \in HandlerRow /\ half.pc = "reply" /\ half.who = c.who /\ half.msg = c.msg
        /\ half.again = c.again /\ half.s = c.s /\ half.open = c.open /\ half.plan = c.plan
    BY <1>0 DEF HandlerRow, Labels
  <2>3. next = [c EXCEPT !.pc = "reply", !.plan.row = NoSession]
    BY <1>0 DEF HandlerRow
  <2> HIDE DEF plan, half
  <2>4. /\ next \in HandlerRow /\ next.pc = "reply" /\ next.who = c.who /\ next.msg = c.msg
        /\ next.again = c.again /\ next.s = c.s /\ next.open = c.open /\ next.plan = plan
    BY <2>1, <2>2 DEF HandlerRow
  <2> HIDE DEF next
  <2>5. handlers' = [handlers EXCEPT ![h] = next]
    BY <1>0, <2>3 DEF Inv, Typed, WriteSession
  <2> QED BY <2>1, <2>4, <2>5
<1>4. /\ handlers' \in [Handlers -> HandlerRow] /\ handlers'[h] = next
      /\ \A g \in Handlers \ {h} : handlers'[g] = handlers[g] /\ Same(g)
  BY <1>3, OneMoves
<1>5. /\ sessions' \in [Flows -> SessionRow] /\ sessions'[c.who] = row
      /\ \A w \in Flows \ {c.who} : sessions'[w] = sessions[w]
  BY <1>0, <1>1 DEF Inv, Typed
<1>6. ASSUME NEW g \in Handlers
      PROVE  /\ handlers'[g].msg = handlers[g].msg /\ handlers'[g].again = handlers[g].again
             /\ handlers'[g].s = handlers[g].s /\ handlers'[g].open = handlers[g].open
             /\ (handlers'[g].pc = "idle") = (handlers[g].pc = "idle")
             /\ Holds(g)' = Holds(g)
  BY <1>0, <1>3, <1>4 DEF Same, Holds
<1>7. ASSUME NEW i, Fresh(i), row.state # "NONE" /\ ~Holds(h) => c.msg # i
      PROVE  Fresh(i)'
  <2>1. row.state # "NONE" => row.id # i
    BY <1>2, <1>7 DEF Fresh
  <2>2. \A w \in Flows : sessions'[w].state # "NONE" => sessions'[w].id # i
    BY <1>5, <1>7, <2>1 DEF Fresh
  <2>3. \A g \in Handlers : Holds(g)' => handlers'[g].s.id # i
    BY <1>6, <1>7 DEF Fresh
  <2> QED BY <1>0, <1>7, <2>2, <2>3 DEF Fresh
<1>8. Typed' /\ sessions'["manage"].start = 0 /\ Counted' /\ \A d \in deeds' : d.msg \in events'
  <2>1. sessions'["manage"].start = 0
    BY <1>0, <1>2, <1>5 DEF Inv, Flows
  <2> QED BY <1>0, <1>4, <1>5, <2>1 DEF Inv, Typed, Counted
<1>9. SeenOpen'
  BY <1>0, <1>6 DEF Inv, SeenOpen
<1>10. Unseen'
  <2>1. c.msg \in events
    BY <1>0 DEF Local, OfMessage
  <2> QED BY <1>0, <1>7, <2>1 DEF Inv, Unseen
<1>11. OnceEach' /\ DoneAsAsked'
  BY <1>0 DEF Inv, OnceEach, DoneAsAsked
<1>12. NoneForgotten'
  BY <1>0, <1>6 DEF Inv, NoneForgotten
<1>13. \A g \in Handlers : Local(g)'
  <2>1. ASSUME NEW g \in Handlers \ {h} PROVE Local(g)'
    <3>1. Same(g) /\ Apart(g, h) /\ handlers'[g].msg = handlers[g].msg
      BY <1>4 DEF Inv, Same
    <3>2. handlers[g].pc # "idle" /\ ~handlers[g].again => c.msg # handlers[g].msg
      BY <1>0, <3>1 DEF Apart
    <3>3. PICK m : m = handlers[g].msg
      OBVIOUS
    <3>4. handlers[g].pc # "idle" /\ ~handlers[g].again /\ Fresh(m) => Fresh(m)'
      BY <1>7, <3>2, <3>3
    <3>5. handlers[g].pc # "idle" /\ ~handlers[g].again /\ Fresh(handlers[g].msg)
          => Fresh(handlers[g].msg)'
      BY <3>1, <3>3, <3>4
    <3> QED BY <1>0, <3>1, <3>5, OthersKeep
  <2>2. Local(h)'
    <3>1. handlers'[h].pc = "reply" /\ handlers'[h].who = c.who /\ handlers'[h].s = c.s
          /\ ~handlers'[h].again /\ handlers'[h].msg \in events'
      BY <1>0, <1>3, <1>4 DEF Local, OfMessage
    <3>2. c.who = "manage" => c.s.start = 0
      BY <1>0 DEF Local, OfFlow
    <3> QED BY <3>1, <3>2 DEF Local, OfMessage, OfFlow, ActsWell, WritesWell, Before
  <2> QED BY <2>1, <2>2
<1>14. \A g, k \in Handlers : g # k => Apart(g, k)'
  BY <1>0, <1>6 DEF Inv, Apart
<1>15. ASSUME NEW w \in Flows, w # c.who PROVE Stored(w)'
  <2> DEFINE i == sessions[w].id
  <2>1. Stored(w)
    BY DEF Inv
  <2>2. sessions'[w] = sessions[w]
    BY <1>5, <1>15
  <2>3. \A g \in Handlers : Finishing(g, w, i) => Finishing(g, w, i)'
    BY <1>0, <1>4, <1>15, <2>2 DEF Finishing, Holds
  <2>4. \A g \in Handlers : \A o : Telling(g, w, i, o) => Telling(g, w, i, o)'
    BY <1>0, <1>4, <1>15, <2>2 DEF Telling, Holds
  <2>5. SUFFICES ASSUME sessions[w].state # "NONE"
                 PROVE  /\ Deeded(w, i) => i \in loose \/ \E g \in Handlers : Finishing(g, w, i)'
                        /\ \A o \in Due(w, sessions[w]) :
                             o \in offered \/ i \in loose \/ \E g \in Handlers : Telling(g, w, i, o)'
    BY <1>0, <2>2 DEF Stored, Deeded, Due
  <2> QED BY <2>1, <2>3, <2>4, <2>5 DEF Stored
<1>16. ASSUME NEW w \in Flows, w = c.who PROVE Stored(w)'
  <2>1. PICK i, y : i = row.id /\ y = row
    OBVIOUS
  <2>2. sessions'[w] = y /\ y.id = i
    BY <1>5, <1>16, <2>1
  <2>3. SUFFICES ASSUME y.state # "NONE"
                 PROVE  /\ Deeded(w, i) => i \in loose
                        /\ \A o \in Due(w, y) : Telling(h, w, i, o)'
    <3> HIDE DEF c, row
    <3> QED BY <1>0, <2>2 DEF Stored, Deeded, Due
  <2>4. ASSUME NEW o \in Due(w, y) PROVE Telling(h, w, i, o)'
    <3>1. o \in c.plan.offers /\ Holds(h) /\ i = c.s.id
      BY <1>2, <1>16, <2>1, <2>3
    <3>2. handlers'[h].pc = "reply" /\ handlers'[h].who = w /\ handlers'[h].s = c.s
          /\ handlers'[h].plan.offers = c.plan.offers /\ Holds(h)'
      BY <1>3, <1>4, <1>6, <1>16, <3>1
    <3> QED BY <3>1, <3>2 DEF Telling
  <2> QED BY <1>2, <1>16, <2>1, <2>3, <2>4
<1> QED BY <1>8, <1>9, <1>10, <1>11, <1>12, <1>13, <1>14, <1>15, <1>16 DEF Inv
\* What is carried out was asked in the session held, which is then over; who
\* else holds it holds a loose one.
LEMMA SucceedKeeps ==
  ASSUME Inv, NEW h \in Handlers, Succeed(h)
  PROVE  Inv'
<1> DEFINE c == handlers[h]
<1> DEFINE s == c.plan.row
<1>0. /\ c \in HandlerRow /\ Local(h) /\ c.pc = "act" /\ ~c.again
      /\ UNCHANGED <<status, events, sessions, offered, settled, loose>>
      /\ \A w \in Flows : sessions'[w] = sessions[w]
  BY DEF Inv, Typed, Succeed, At, Local, OfMessage
<1>1. /\ c.msg \in events /\ Fresh(c.msg) /\ \A e \in deeds : e.msg # c.msg
      /\ c.who \in Flows => c.open
      /\ c.who = "manage" => c.s.start = 0
      /\ c.who \in Flows =>
           /\ Holds(h) /\ s.id = c.s.id
           /\ Asked(c.plan) \in offered \/ c.s.id \in loose
           /\ Deeded(c.who, c.s.id) => c.s.id \in loose
  BY <1>0 DEF Local, OfMessage, OfFlow, ActsWell, Before
<1>2. PICK d : /\ deeds' = deeds \union {d}
               /\ d.msg = c.msg /\ d.who = c.who /\ d.id = s.id /\ d.kind = c.plan.deed
               /\ d.on = s.on /\ d.start = s.start /\ d.open = c.open
  <2> DEFINE Deed(b) == [msg |-> c.msg, who |-> c.who, id |-> s.id, kind |-> c.plan.deed,
                         on |-> s.on, start |-> s.start, booking |-> b, open |-> c.open]
  <2>1. PICK b : deeds' = deeds \union {Deed(b)}
    BY DEF Succeed
  <2>2. /\ Deed(b).msg = c.msg /\ Deed(b).who = c.who /\ Deed(b).id = s.id
        /\ Deed(b).kind = c.plan.deed
        /\ Deed(b).on = s.on /\ Deed(b).start = s.start /\ Deed(b).open = c.open
    OBVIOUS
  <2> HIDE DEF Deed, c, s
  <2> QED BY <2>1, <2>2
<1>w. c.who \in Flows \/ c.who = "ai"
  BY <1>0 DEF HandlerRow, Flows
<1>3. PICK next \in HandlerRow :
        /\ handlers' = [handlers EXCEPT ![h] = next]
        /\ next.pc = IF c.who = "ai" THEN "reply" ELSE "write"
        /\ next.who = c.who /\ next.msg = c.msg
        /\ next.again = c.again /\ next.s = c.s /\ next.open = c.open
        /\ next.plan.row = NoSession
  <2> DEFINE pc == IF c.who = "ai" THEN "reply" ELSE "write"
  <2> DEFINE plan == [c.plan EXCEPT !.row = NoSession]
  <2> DEFINE half == [c EXCEPT !.pc = pc]
  <2> DEFINE next == [half EXCEPT !.plan = plan]
  <2>1. plan \in PlanRow /\ plan.row = NoSession
    <3>1. c.plan \in PlanRow
      BY <1>0 DEF HandlerRow
    <3> HIDE DEF c
    <3> QED BY <3>1, NoSessionTyped DEF PlanRow
  <2>2. /\ half \in HandlerRow /\ half.pc = pc /\ half.who = c.who /\ half.msg = c.msg
        /\ half.again = c.again /\ half.s = c.s /\ half.open = c.open /\ half.plan = c.plan
    <3>1. pc \in Labels
      BY DEF Labels
    <3> HIDE DEF pc
    <3> QED BY <1>0, <3>1 DEF HandlerRow
  <2>3. next = [c EXCEPT !.plan.row = NoSession, !.pc = pc]
    BY <1>0 DEF HandlerRow
  <2>4. handlers' = [handlers EXCEPT ![h].plan.row = NoSession, ![h].pc = pc]
    BY DEF Succeed
  <2> HIDE DEF plan, half, pc
  <2>5. /\ next \in HandlerRow /\ next.pc = pc /\ next.who = c.who /\ next.msg = c.msg
        /\ next.again = c.again /\ next.s = c.s /\ next.open = c.open /\ next.plan = plan
    BY <2>1, <2>2 DEF HandlerRow
  <2> HIDE DEF next
  <2>6. handlers' = [handlers EXCEPT ![h] = next]
    BY <1>0, <2>3, <2>4 DEF Inv, Typed
  <2> QED BY <2>1, <2>5, <2>6 DEF pc
<1>4. /\ handlers' \in [Handlers -> HandlerRow] /\ handlers'[h] = next
      /\ \A g \in Handlers \ {h} : handlers'[g] = handlers[g] /\ Same(g)
  BY <1>3, OneMoves
<1>6. ASSUME NEW g \in Handlers
      PROVE  /\ handlers'[g].msg = handlers[g].msg /\ handlers'[g].again = handlers[g].again
             /\ handlers'[g].s = handlers[g].s /\ handlers'[g].open = handlers[g].open
             /\ (handlers'[g].pc = "idle") = (handlers[g].pc = "idle")
             /\ Holds(g)' = Holds(g)
  BY <1>0, <1>3, <1>4 DEF Same, Holds
<1>7. ASSUME NEW i, Fresh(i) PROVE Fresh(i)'
  <2>1. \A g \in Handlers : Holds(g)' => handlers'[g].s.id # i
    BY <1>6, <1>7 DEF Fresh
  <2>2. d.who # "ai" => d.id # i
    BY <1>1, <1>2, <1>w, <1>7 DEF Fresh
  <2> QED BY <1>0, <1>2, <1>7, <2>1, <2>2 DEF Fresh
<1>8. Typed' /\ sessions'["manage"].start = 0 /\ Counted' /\ \A e \in deeds' : e.msg \in events'
  BY <1>0, <1>1, <1>2, <1>4 DEF Inv, Typed, Counted
<1>9. SeenOpen' /\ NoneForgotten' /\ Unseen'
  BY <1>0, <1>6, <1>7 DEF Inv, SeenOpen, NoneForgotten, Unseen
<1>10. OnceEach'
  <2>1. ASSUME NEW e \in deeds
        PROVE  e.msg # d.msg /\ (d.who = e.who /\ d.id = e.id /\ d.who # "ai" => d.id \in loose)
    BY <1>1, <1>2, <1>w DEF Deeded
  <2>2. OnceEach
    BY DEF Inv
  <2> QED BY <1>0, <1>2, <2>1, <2>2 DEF OnceEach
<1>11. DoneAsAsked'
  <2>1. d.who # "ai" =>
          /\ [id |-> d.id, kind |-> d.kind, on |-> d.on, start |-> d.start] \in offered
             \/ d.id \in loose
          /\ d.open
    BY <1>1, <1>2, <1>w DEF Asked
  <2> QED BY <1>0, <1>2, <2>1 DEF Inv, DoneAsAsked
<1>12. ASSUME NEW g \in Handlers \ {h} PROVE Local(g)'
  <2>0. /\ handlers'[g] = handlers[g] /\ Local(g) /\ Apart(g, h) /\ Holds(g)' = Holds(g)
    BY <1>4, <1>6 DEF Inv
  <2>1. OfMessage(g)'
    <3>1. handlers[g].pc \in Before /\ ~handlers[g].again => handlers[g].msg # c.msg
      BY <1>0, <2>0 DEF Apart, Before
    <3>2. PICK m : m = handlers[g].msg
      OBVIOUS
    <3>3. Fresh(m) => Fresh(m)'
      BY <1>7
    <3>4. Fresh(handlers[g].msg) => Fresh(handlers[g].msg)'
      BY <2>0, <3>2, <3>3
    <3>5. handlers[g].pc \in Before /\ ~handlers[g].again
          => \A e \in deeds' : e.msg # handlers[g].msg
      BY <1>2, <2>0, <3>1 DEF Local, OfMessage
    <3> QED BY <1>0, <2>0, <3>4, <3>5 DEF Local, OfMessage
  <2>2. OfFlow(g)'
    BY <2>0 DEF Local, OfFlow
  <2>3. c.who \in Flows /\ Holds(g) /\ handlers[g].s.id = d.id => d.id \in loose
    BY <1>1, <1>2, <2>0 DEF Apart
  <2>4. ActsWell(g)'
    <3> SUFFICES ASSUME handlers[g].pc = "act", handlers[g].who \in Flows PROVE ActsWell(g)'
      BY <2>0 DEF ActsWell
    <3>1. /\ Holds(g) /\ handlers[g].plan.row.id = handlers[g].s.id
          /\ Asked(handlers[g].plan) \in offered \/ handlers[g].s.id \in loose
          /\ Deeded(handlers[g].who, handlers[g].s.id) => handlers[g].s.id \in loose
      BY <2>0 DEF Local, ActsWell
    <3>2. (\E e \in deeds' : e.who = handlers[g].who /\ e.id = handlers[g].s.id)
          => handlers[g].s.id \in loose
      BY <1>2, <2>3, <3>1 DEF Deeded
    <3> QED BY <1>0, <2>0, <3>1, <3>2 DEF ActsWell, Deeded, Asked
  <2>5. WritesWell(g)'
    <3> SUFFICES ASSUME handlers[g].pc = "write" PROVE WritesWell(g)'
      BY <2>0 DEF WritesWell
    <3> DEFINE row == handlers[g].plan.row
    <3>1. /\ handlers[g].who = "manage" => row.start = 0
          /\ Due(handlers[g].who, row) \subseteq handlers[g].plan.offers
          /\ Due(handlers[g].who, row) # {} => Holds(g)
          /\ row.state # "NONE" =>
               /\ row.id = IF Holds(g) THEN handlers[g].s.id ELSE handlers[g].msg
               /\ Deeded(handlers[g].who, row.id) => row.id \in loose
      BY <2>0 DEF Local, WritesWell
    <3>2. handlers[g].who \in Flows /\ Fresh(handlers[g].msg)
      BY <2>0 DEF Local, OfFlow, OfMessage
    <3>3. c.who \in Flows => d.id # handlers[g].msg
      BY <1>1, <1>2, <3>2 DEF Fresh
    <3>4. row.state # "NONE" /\ (\E e \in deeds' : e.who = handlers[g].who /\ e.id = row.id)
          => row.id \in loose
      BY <1>2, <2>3, <3>1, <3>2, <3>3 DEF Deeded
    <3>5. PICK w, y : w = handlers[g].who /\ y = row
      OBVIOUS
    <3>6. /\ handlers'[g].who = w /\ handlers'[g].plan.row = y
          /\ handlers'[g].plan.offers = handlers[g].plan.offers
          /\ Due(w, y) \subseteq handlers[g].plan.offers /\ (Due(w, y) # {} => Holds(g))
      BY <2>0, <3>1, <3>5
    <3>7. Due(handlers'[g].who, handlers'[g].plan.row) = Due(w, y)
      BY <3>6
    <3> HIDE DEF row
    <3> QED BY <1>0, <2>0, <3>1, <3>4, <3>5, <3>6, <3>7 DEF WritesWell, Deeded
  <2> QED BY <2>1, <2>2, <2>4, <2>5 DEF Local
<1>13. Local(h)'
  <2>1. /\ handlers'[h].pc = (IF c.who = "ai" THEN "reply" ELSE "write")
        /\ handlers'[h].who = c.who /\ handlers'[h].s = c.s /\ handlers'[h].open = c.open
        /\ ~handlers'[h].again /\ handlers'[h].msg = c.msg /\ handlers'[h].plan.row = NoSession
    BY <1>0, <1>3, <1>4
  <2>2. OfMessage(h)'
    <3>1. PICK m : m = c.msg
      OBVIOUS
    <3>2. Fresh(m)'
      BY <1>1, <1>7, <3>1
    <3>3. Fresh(handlers[h].msg)'
      BY <2>1, <3>1, <3>2
    <3> QED BY <1>0, <1>1, <2>1, <3>3 DEF OfMessage, Before
  <2>3. OfFlow(h)' /\ ActsWell(h)'
    BY <1>1, <1>w, <2>1 DEF OfFlow, ActsWell
  <2>4. \A w : Due(w, NoSession) = {}
    BY NoSessionTyped DEF Due
  <2>5. Due(handlers'[h].who, handlers'[h].plan.row) = {}
    BY <2>1, <2>4
  <2>6. WritesWell(h)'
    BY <2>1, <2>5, NoSessionTyped DEF WritesWell
  <2> QED BY <2>2, <2>3, <2>6 DEF Local
<1>14. \A g, k \in Handlers : g # k => Apart(g, k)'
  BY <1>0, <1>6 DEF Inv, Apart
<1>15. ASSUME NEW w \in Flows PROVE Stored(w)'
  <2>0. PICK i : i = sessions[w].id
    OBVIOUS
  <2>1. Stored(w)
    BY DEF Inv
  <2>2. \A g \in Handlers : Finishing(g, w, i) => Finishing(g, w, i)'
    BY <1>0, <1>4 DEF Finishing, Holds
  <2>3. \A g \in Handlers : \A o : Telling(g, w, i, o) => Telling(g, w, i, o)'
    BY <1>0, <1>4 DEF Telling, Holds
  <2>4. d.who = w /\ d.id = i => Finishing(h, w, i)'
    BY <1>1, <1>2, <1>3, <1>4 DEF Finishing, Holds, Flows
  <2>5. SUFFICES ASSUME sessions[w].state # "NONE"
                 PROVE  /\ Deeded(w, i)' => i \in loose \/ \E g \in Handlers : Finishing(g, w, i)'
                        /\ \A o \in Due(w, sessions[w]) :
                             o \in offered \/ i \in loose \/ \E g \in Handlers : Telling(g, w, i, o)'
    BY <1>0, <2>0 DEF Stored, Deeded, Due
  <2>6. Deeded(w, i)' => Deeded(w, i) \/ (d.who = w /\ d.id = i)
    BY <1>2 DEF Deeded
  <2> QED BY <2>0, <2>1, <2>2, <2>3, <2>4, <2>5, <2>6 DEF Stored
<1> QED BY <1>8, <1>9, <1>10, <1>11, <1>12, <1>13, <1>14, <1>15 DEF Inv
\* A delivery of a message not seen before is the only one being handled; one
\* more of it carries nothing on.
LEMMA ReceiveKeeps ==
  ASSUME Inv, NEW h \in Handlers, Receive(h)
  PROVE  Inv'
<1>0. /\ handlers[h].pc = "idle" /\ Local(h) /\ ~Holds(h) /\ handlers[h].msg = 0
      /\ UNCHANGED <<status, sessions, offered, deeds, settled, loose>>
      /\ \A w \in Flows : sessions'[w] = sessions[w]
  BY DEF Inv, Receive, At, Local, OfMessage, OfFlow
<1>1. PICK m \in 1 .. MaxMessages, text \in Says :
        /\ m = Cardinality(events) + 1 \/ m \in events
        /\ events' = events \union {m}
        /\ handlers' = [handlers EXCEPT ![h] =
               [Idle EXCEPT !.pc = "project", !.msg = m, !.again = m \in events,
                            !.text = text, !.open = status = "OPEN"]]
  BY DEF Receive
<1> DEFINE next == [Idle EXCEPT !.pc = "project", !.msg = m, !.again = m \in events,
                                !.text = text, !.open = status = "OPEN"]
<1>2. /\ next \in HandlerRow /\ next.pc = "project" /\ next.msg = m
      /\ next.again = (m \in events) /\ next.open = (status = "OPEN")
      /\ next.s = NoSession /\ next.who = "manage"
  <2>1. text \in TextKinds /\ m \in Nat
    BY <1>1, ConversationAssumption
  <2> DEFINE again == m \in events
  <2> DEFINE open == status = "OPEN"
  <2>2. again \in BOOLEAN /\ open \in BOOLEAN
    OBVIOUS
  <2> HIDE DEF again, open
  <2> DEFINE y == [Idle EXCEPT !.pc = "project", !.msg = m, !.again = again,
                               !.text = text, !.open = open]
  <2>3. /\ y \in HandlerRow /\ y.pc = "project" /\ y.msg = m
        /\ y.again = again /\ y.open = open /\ y.s = NoSession /\ y.who = "manage"
    BY <2>1, <2>2, IdleTyped DEF HandlerRow, Labels
  <2>4. next = y
    BY DEF again, open
  <2> HIDE DEF y, next
  <2> QED BY <2>3, <2>4 DEF again, open
<1>3. handlers' = [handlers EXCEPT ![h] = next]
  BY <1>1
<1> HIDE DEF next
<1>4. /\ handlers' \in [Handlers -> HandlerRow] /\ handlers'[h] = next
      /\ \A g \in Handlers \ {h} : handlers'[g] = handlers[g] /\ Same(g)
  BY <1>2, <1>3, OneMoves
<1>5. Grows
  BY <1>0, <1>1 DEF Grows
<1>6. ASSUME NEW i, Fresh(i) PROVE Fresh(i)'
  <2>1. \A g \in Handlers : Holds(g)' => handlers'[g].s.id # i
    BY <1>2, <1>4, <1>6, NoSessionTyped DEF Fresh, Holds
  <2> QED BY <1>0, <1>6, <2>1 DEF Fresh
<1>7. Counted'
  <2>1. IsFiniteSet(events) /\ events = 1 .. Cardinality(events) /\ Cardinality(events) \in Nat
    BY FS_CardinalityType DEF Inv, Counted
  <2>2. CASE m \in events
    BY <1>1, <2>1, <2>2 DEF Counted
  <2>3. CASE m \notin events
    <3>1. IsFiniteSet(events') /\ Cardinality(events') = Cardinality(events) + 1
      BY <1>1, <2>1, <2>3, FS_AddElement
    <3>2. PICK n \in Nat : n = Cardinality(events)
      BY <2>1
    <3>3. events' = 1 .. n + 1
      BY <1>1, <2>1, <2>3, <3>2
    <3> QED BY <3>1, <3>2, <3>3 DEF Counted
  <2> QED BY <2>2, <2>3
<1>8. Typed' /\ sessions'["manage"].start = 0 /\ \A d \in deeds' : d.msg \in events'
  BY <1>0, <1>1, <1>4 DEF Inv, Typed
<1>9. SeenOpen'
  BY <1>0, <1>2, <1>4 DEF Inv, SeenOpen
<1>10. Unseen'
  BY <1>1, <1>6 DEF Inv, Unseen
<1>11. OnceEach' /\ DoneAsAsked'
  BY <1>0 DEF Inv, OnceEach, DoneAsAsked
<1>12. NoneForgotten'
  <2> SUFFICES ASSUME NEW e \in events'
               PROVE  e \in settled \/ \E g \in Handlers : handlers'[g].msg = e /\ ~handlers'[g].again
    BY <1>0 DEF NoneForgotten
  <2>1. CASE e \in events
    <3>1. e # 0
      BY <2>1 DEF Inv, Typed
    <3>2. e \in settled \/ \E g \in Handlers \ {h} : handlers[g].msg = e /\ ~handlers[g].again
      BY <1>0, <2>1, <3>1 DEF Inv, NoneForgotten
    <3> QED BY <1>4, <3>2
  <2>2. CASE e \notin events
    BY <1>1, <1>2, <1>4, <2>2
  <2> QED BY <2>1, <2>2
<1>13. ASSUME NEW g \in Handlers \ {h} PROVE Local(g)'
  <2>1. PICK i : i = handlers[g].msg
    OBVIOUS
  <2>2. Fresh(i) => Fresh(i)'
    BY <1>6
  <2>3. Fresh(handlers[g].msg) => Fresh(handlers[g].msg)'
    BY <1>4, <2>1, <2>2
  <2> QED BY <1>0, <1>4, <1>5, <2>3, OthersKeep
<1>14. Local(h)'
  <2>1. m \notin events => Fresh(m)' /\ \A d \in deeds : d.msg # m
    BY <1>1, <1>6 DEF Inv, Unseen
  <2>2. m \notin events => Fresh(handlers[h].msg)'
    <3>1. handlers'[h].msg = m
      BY <1>2, <1>4
    <3>2. PICK i : i = m
      OBVIOUS
    <3>3. m \notin events => Fresh(i)'
      BY <2>1, <3>2
    <3>4. handlers'[h].msg = i
      BY <3>1, <3>2
    <3> QED BY <3>3, <3>4
  <2>3. OfMessage(h)'
    <3>1. /\ handlers'[h].pc = "project" /\ handlers'[h].msg = m
          /\ ~handlers'[h].again => m \notin events
      BY <1>2, <1>4
    <3>2. handlers'[h].msg \in events'
      BY <1>1, <3>1
    <3>3. ~handlers'[h].again => \A d \in deeds' : d.msg # handlers'[h].msg
      BY <1>0, <2>1, <3>1
    <3>4. ~handlers'[h].again => Fresh(handlers[h].msg)'
      BY <2>2, <3>1
    <3> QED BY <3>1, <3>2, <3>3, <3>4 DEF OfMessage
  <2>4. OfFlow(h)' /\ ActsWell(h)' /\ WritesWell(h)'
    BY <1>2, <1>4, NoSessionTyped DEF OfFlow, ActsWell, WritesWell, Holds, Flows
  <2> QED BY <2>3, <2>4 DEF Local
<1>15. \A g, k \in Handlers : g # k => Apart(g, k)'
  <2>1. ASSUME NEW g \in Handlers \ {h} PROVE Apart(g, h)' /\ Apart(h, g)'
    <3>1. handlers[g].pc # "idle" => handlers[g].msg \in events
      BY DEF Inv, Local, OfMessage
    <3>2. ~Holds(h)'
      BY <1>2, <1>4, NoSessionTyped DEF Holds
    <3> QED BY <1>2, <1>4, <3>1, <3>2 DEF Apart
  <2>2. ASSUME NEW g \in Handlers \ {h}, NEW k \in Handlers \ {h}, g # k PROVE Apart(g, k)'
    BY <1>0, <1>4, <2>2 DEF Inv, Apart, Holds
  <2> QED BY <2>1, <2>2
<1>16. ASSUME NEW w \in Flows PROVE Stored(w)'
  <2>0. PICK i : i = sessions[w].id
    OBVIOUS
  <2>1. Stored(w)
    BY DEF Inv
  <2>2. \A g \in Handlers : Finishing(g, w, i) => Finishing(g, w, i)'
    BY <1>0, <1>4 DEF Finishing, Holds
  <2>3. \A g \in Handlers : \A o : Telling(g, w, i, o) => Telling(g, w, i, o)'
    BY <1>0, <1>4 DEF Telling, Holds
  <2>4. SUFFICES ASSUME sessions[w].state # "NONE"
                 PROVE  /\ Deeded(w, i) => i \in loose \/ \E g \in Handlers : Finishing(g, w, i)'
                        /\ \A o \in Due(w, sessions[w]) :
                             o \in offered \/ i \in loose \/ \E g \in Handlers : Telling(g, w, i, o)'
    BY <1>0, <2>0 DEF Stored, Deeded, Due
  <2> QED BY <2>0, <2>1, <2>2, <2>3, <2>4 DEF Stored
<1> QED BY <1>7, <1>8, <1>9, <1>10, <1>11, <1>12, <1>13, <1>14, <1>15, <1>16 DEF Inv
\* The business and the clock: handlers stay where they are, the rows ask for
\* what they asked for.
LEMMA OutsideKeeps ==
  ASSUME Inv, handlers' \in [Handlers -> HandlerRow], \A g \in Handlers : Same(g), SeenOpen',
         sessions' \in [Flows -> SessionRow], UNCHANGED <<events, offered, deeds, settled, loose>>,
         \A w \in Flows : /\ sessions'[w].state = sessions[w].state
                          /\ sessions'[w].id = sessions[w].id
                          /\ sessions'[w].start = sessions[w].start
                          /\ Due(w, sessions'[w]) = Due(w, sessions[w])
  PROVE  Inv'
<1>0. Grows
  BY DEF Grows
<1>1. Typed' /\ sessions'["manage"].start = 0 /\ Counted' /\ \A d \in deeds' : d.msg \in events'
  BY DEF Inv, Typed, Counted, Flows
<1>2. ASSUME NEW i, Fresh(i) PROVE Fresh(i)'
  BY <1>2 DEF Fresh, Same, Holds
<1>3. Unseen' /\ OnceEach' /\ DoneAsAsked' /\ NoneForgotten'
  BY <1>2 DEF Inv, Unseen, OnceEach, DoneAsAsked, NoneForgotten, Same
<1>4. ASSUME NEW g \in Handlers PROVE Local(g)'
  <2>1. PICK i : i = handlers[g].msg
    OBVIOUS
  <2>2. Fresh(i) => Fresh(i)'
    BY <1>2
  <2>3. Fresh(handlers[g].msg) => Fresh(handlers[g].msg)'
    BY <2>1, <2>2 DEF Same
  <2> QED BY <1>0, <2>3, OthersKeep
<1>5. \A g, k \in Handlers : g # k => Apart(g, k)'
  BY DEF Inv, Apart, Same, Holds
<1>6. ASSUME NEW w \in Flows PROVE Stored(w)'
  <2>0. PICK i : i = sessions[w].id
    OBVIOUS
  <2>1. Stored(w)
    BY DEF Inv
  <2>2. \A g \in Handlers : Finishing(g, w, i) => Finishing(g, w, i)'
    BY DEF Finishing, Same, Holds
  <2>3. \A g \in Handlers : \A o : Telling(g, w, i, o) => Telling(g, w, i, o)'
    BY DEF Telling, Same, Holds
  <2>4. PICK y : y = sessions'[w]
    OBVIOUS
  <2>5. SUFFICES ASSUME sessions[w].state # "NONE"
                 PROVE  /\ Deeded(w, i) => i \in loose \/ \E g \in Handlers : Finishing(g, w, i)'
                        /\ \A o \in Due(w, y) :
                             o \in offered \/ i \in loose \/ \E g \in Handlers : Telling(g, w, i, o)'
    BY <2>0, <2>4 DEF Stored, Deeded
  <2>6. Due(w, y) = Due(w, sessions[w])
    BY <2>4
  <2> QED BY <2>0, <2>1, <2>2, <2>3, <2>5, <2>6 DEF Stored
<1> QED BY <1>1, <1>3, <1>4, <1>5, <1>6 DEF Inv

LEMMA SetStatusKeeps ==
  ASSUME Inv, SetStatus
  PROVE  Inv'
<1>1. handlers' = Opened /\ UNCHANGED <<events, sessions, offered, deeds, settled, loose>>
  BY DEF SetStatus
<1>2. handlers' \in [Handlers -> HandlerRow]
  <2>1. Opened = [g \in Handlers |-> Opened[g]]
    BY DEF Opened
  <2> QED BY <1>1, <2>1, OpenedTyped
<1>3. \A g \in Handlers : Same(g)
  BY <1>1, OpenedTyped DEF Same
<1>4. SeenOpen'
  BY <1>1, OpenedTyped DEF SeenOpen
<1>5. sessions' \in [Flows -> SessionRow] /\ \A w \in Flows : sessions'[w] = sessions[w]
  BY <1>1 DEF Inv, Typed
<1> QED BY <1>1, <1>2, <1>3, <1>4, <1>5, OutsideKeeps

\* Nothing a step of the desk, or no step, changes is in the invariant.
LEMMA RestKeeps ==
  ASSUME Inv,
         UNCHANGED <<status, events, sessions, handlers, offered, deeds, settled, loose>>
  PROVE  Inv'
<1>1. \A g \in Handlers : Same(g)
  BY DEF Same
<1>2. SeenOpen'
  BY DEF Inv, SeenOpen
<1>3. sessions' \in [Flows -> SessionRow] /\ handlers' \in [Handlers -> HandlerRow]
  BY DEF Inv, Typed
<1> QED BY <1>1, <1>2, <1>3, OutsideKeeps

LEMMA ExpireKeeps ==
  ASSUME Inv, Expire
  PROVE  Inv'
<1>1. PICK w \in Flows : sessions' = [sessions EXCEPT ![w].late = TRUE]
  BY DEF Expire
<1>2. UNCHANGED <<status, events, handlers, offered, deeds, settled, loose>>
  BY DEF Expire
<1>3. sessions \in [Flows -> SessionRow] /\ handlers' \in [Handlers -> HandlerRow]
  BY <1>2 DEF Inv, Typed
<1> DEFINE y == [sessions[w] EXCEPT !.late = TRUE]
<1>4. /\ y \in SessionRow /\ y.state = sessions[w].state /\ y.id = sessions[w].id
      /\ y.start = sessions[w].start /\ y.on = sessions[w].on /\ y.options = sessions[w].options
  BY <1>1, <1>3 DEF SessionRow
<1>5. sessions' = [sessions EXCEPT ![w] = y]
  BY <1>1, <1>3
<1> HIDE DEF y
<1>6. Due(w, y) = Due(w, sessions[w])
  BY <1>4 DEF Due, Offer
<1>7. sessions' \in [Flows -> SessionRow]
      /\ \A x \in Flows : sessions'[x] = IF x = w THEN y ELSE sessions[x]
  BY <1>1, <1>3, <1>4, <1>5
<1>8. \A x \in Flows : /\ sessions'[x].state = sessions[x].state
                       /\ sessions'[x].id = sessions[x].id
                       /\ sessions'[x].start = sessions[x].start
                       /\ Due(x, sessions'[x]) = Due(x, sessions[x])
  BY <1>4, <1>6, <1>7
<1>9. \A g \in Handlers : Same(g)
  BY <1>2 DEF Same
<1>10. SeenOpen'
  BY <1>2 DEF Inv, SeenOpen
<1> QED BY <1>2, <1>3, <1>7, <1>8, <1>9, <1>10, OutsideKeeps

-----------------------------------------------------------------------------
(* The theorems.                                                           *)

LEMMA InitInv ==
  ASSUME Init
  PROVE  Inv
<1>0. /\ status = "OPEN" /\ events = {} /\ deeds = {} /\ settled = {}
      /\ handlers = [h \in Handlers |-> Idle] /\ sessions \in Earlier
  BY DEF Init
<1>1. /\ sessions \in [Flows -> SessionRow]
      /\ \A w \in Flows : sessions[w].state # "NONE" => sessions[w].id \notin 1 .. MaxMessages
      /\ sessions["manage"].start = 0
  BY <1>0, EarlierAssumption
<1>2. \A h \in Handlers : handlers[h] = Idle /\ ~Holds(h)
  BY <1>0, IdleTyped, NoSessionTyped DEF Holds
<1>3. Typed
  BY <1>0, <1>1, IdleTyped DEF Typed
<1>4. Counted
  <2>1. IsFiniteSet({}) /\ Cardinality({}) = 0
    BY FS_EmptySet
  <2>2. 1 .. 0 = {}
    OBVIOUS
  <2> QED BY <1>0, <2>1, <2>2 DEF Counted
<1>5. Unseen
  BY <1>0, <1>1, <1>2 DEF Unseen, Fresh
<1>6. SeenOpen
  BY <1>2, IdleTyped DEF SeenOpen
<1>7. OnceEach /\ DoneAsAsked /\ NoneForgotten /\ \A d \in deeds : d.msg \in events
  BY <1>0 DEF OnceEach, DoneAsAsked, NoneForgotten
<1>8. ASSUME NEW h \in Handlers PROVE Local(h)
  <2>1. handlers[h] = Idle /\ ~Holds(h)
    BY <1>2
  <2> QED BY <2>1, IdleTyped, NoSessionTyped
      DEF Local, OfMessage, OfFlow, ActsWell, WritesWell, Before
<1>9. \A g, h \in Handlers : g # h => Apart(g, h)
  BY <1>2, IdleTyped DEF Apart
<1>10. ASSUME NEW w \in Flows PROVE Stored(w)
  <2>1. ~Deeded(w, sessions[w].id)
    BY <1>0 DEF Deeded
  <2>2. Due(w, sessions[w]) \subseteq offered
    <3>1. CASE w = "flow"
      BY <3>1 DEF Init, Due
    <3>2. CASE w = "manage"
      BY <3>2 DEF Init, Due
    <3> QED BY <3>1, <3>2 DEF Flows
  <2> QED BY <2>1, <2>2 DEF Stored
<1> QED BY <1>1, <1>3, <1>4, <1>5, <1>6, <1>7, <1>8, <1>9, <1>10 DEF Inv

LEMMA HandleKeeps ==
  ASSUME Inv, NEW h \in Handlers, Handle(h)
  PROVE  Inv'
<1>1. CASE Receive(h)
  BY <1>1, ReceiveKeeps
<1>2. CASE Project(h)
  BY <1>2, ProjectKeeps
<1>3. CASE Prefer(h)
  BY <1>3, PreferKeeps
<1>4. CASE ReadStatus(h)
  BY <1>4, ReadStatusKeeps
<1>5. CASE ReadSession(h)
  BY <1>5, ReadSessionKeeps
<1>6. CASE ClearExpired(h)
  BY <1>6, ClearExpiredKeeps
<1>7. CASE Interpret(h)
  BY <1>7, InterpretKeeps
<1>8. CASE Succeed(h)
  BY <1>8, SucceedKeeps
<1>9. CASE Refuse(h)
  BY <1>9, RefuseKeeps
<1>10. CASE WriteSession(h)
  BY <1>10, WriteSessionKeeps
<1>11. CASE Reply(h)
  BY <1>11, ReplyKeeps
<1>12. CASE RecordAiState(h)
  BY <1>12, RecordKeeps
<1>13. CASE Handoff(h)
  BY <1>13, HandoffKeeps
<1>14. CASE Fail(h)
  BY <1>14, FailKeeps
<1> QED BY <1>1, <1>2, <1>3, <1>4, <1>5, <1>6, <1>7, <1>8, <1>9, <1>10, <1>11, <1>12,
           <1>13, <1>14 DEF Handle

\* What the handlers rely on between their awaits holds whatever the order of
\* messages, redeliveries, take-overs, expiries and failures.
THEOREM ConversationInvariance == Spec => []Inv
<1>1. Init => Inv
  BY InitInv
<1>2. Inv /\ [Next]_vars => Inv'
  <2> SUFFICES ASSUME Inv, [Next]_vars PROVE Inv'
    OBVIOUS
  <2>1. CASE \E h \in Handlers : Handle(h)
    BY <2>1, HandleKeeps
  <2>2. CASE SetStatus
    BY <2>2, SetStatusKeeps
  <2>3. CASE Expire
    BY <2>3, ExpireKeeps
  <2>4. CASE DeskCancels
    BY <2>4, RestKeeps DEF DeskCancels
  <2>5. CASE UNCHANGED vars
    BY <2>5, RestKeeps DEF vars
  <2> QED BY <2>1, <2>2, <2>3, <2>4, <2>5 DEF Next
<1> QED BY <1>1, <1>2, PTL DEF Spec

\* A message, delivered once or more, makes at most one booking or change
\* (ingestEvolution), and a session does so once unless it was loose.
THEOREM Once == Spec => []OnceEach
<1>1. Inv => OnceEach
  BY DEF Inv
<1> QED BY <1>1, ConversationInvariance, PTL

\* A flow books, moves or cancels what it had put to the customer, and after
\* the conversation was open (handleInbound of both flows).
THEOREM AsAsked == Spec => []DoneAsAsked
<1>1. Inv => DoneAsAsked
  BY DEF Inv
<1> QED BY <1>1, ConversationInvariance, PTL

\* Every message is being handled, was answered or flagged, or its handler
\* failed.
THEOREM Forgotten == Spec => []NoneForgotten
<1>1. Inv => NoneForgotten
  BY DEF Inv
<1> QED BY <1>1, ConversationInvariance, PTL
=============================================================================
