---------------------------- MODULE Conversation ----------------------------
(***************************************************************************)
(* One customer's WhatsApp conversation: the Evolution webhook             *)
(* (evolution-webhook-routes.ts), the inbox row it projects to, the        *)
(* booking flow and the management flow with their sessions, and the AI    *)
(* that answers what they leave.                                           *)
(*                                                                         *)
(* A handler serves one delivery of the webhook and every await is a step, *)
(* so two messages, or a message and its redelivery, are handled side by   *)
(* side.  A session is read once, and written back whole, without a lock.  *)
(*                                                                         *)
(* Abstracted: a text is the kind of text the code tells apart; the number *)
(* picks any entry of the list it answers, or none, and is sometimes the 1 *)
(* that also means yes; the order of a list, the date asked for and the    *)
(* location's identity are left out; the booking service accepts or        *)
(* refuses (Booking modules); what the language model understands is any   *)
(* of the outcomes the orchestrator has.                                   *)
(***************************************************************************)
EXTENDS Naturals, FiniteSets

CONSTANTS
    Handlers,     \* deliveries the API serves at a time
    MaxMessages,  \* bound: messages the customer sends
    Says,         \* the kinds of text the customer sends
    Sets,         \* the statuses the business sets
    MaxChanges,   \* bound: how often it does
    Services,     \* services offered
    Starts,       \* starts the slot search may find
    Existing,     \* bookings the customer has at first
    MaxBookings,  \* bound: bookings altogether
    Earlier       \* the sessions an earlier exchange may have left

Flows == {"manage", "flow"}
Statuses == {"OPEN", "HUMAN", "BOT_PAUSED", "CLOSED"}
\* stop is an opt-out; leave ends either flow, cancel the booking flow and exit
\* the management flow; urus, reschedule and drop ask for the management flow.
TextKinds == {"stop", "leave", "cancel", "exit", "booking", "urus", "reschedule",
              "drop", "number", "yes", "date", "talk"}
Bookings == 1 .. MaxBookings

\* The rows of both session tables; id is the message that began the session.
\* on is the service or the booking the session is about, 0 for none.
States == {"NONE", "AWAIT_LOCATION", "AWAIT_SERVICE", "AWAIT_DATE", "AWAIT_SLOT",
           "AWAIT_CONFIRM", "AWAIT_BOOKING", "AWAIT_ACTION", "AWAIT_RESCHEDULE_DATE",
           "AWAIT_RESCHEDULE_SLOT", "AWAIT_CANCEL_CONFIRM"}
SessionRow == [state : States, intent : {"NONE", "RESCHEDULE", "CANCEL"},
               listed : SUBSET Bookings, on : {0} \cup Services \cup Bookings,
               options : SUBSET Starts, start : {0} \cup Starts,
               late : BOOLEAN, id : Nat]

ASSUME ConversationAssumption ==
    /\ IsFiniteSet(Handlers)
    /\ MaxMessages \in Nat /\ MaxBookings \in Nat
    /\ Says \subseteq TextKinds /\ Sets \subseteq Statuses
    /\ Existing \subseteq Bookings

\* Sessions of before are of other messages; a management session has no start.
ASSUME EarlierAssumption ==
    \A e \in Earlier :
        /\ e \in [Flows -> SessionRow]
        /\ \A w \in Flows : e[w].state # "NONE" => e[w].id \notin 1 .. MaxMessages
        /\ e["manage"].start = 0

VARIABLES
    status,       \* of the conversation's row
    events,       \* messages whose first delivery has been ingested
    sessions,     \* the two session rows
    bookings,     \* status of each booking
    handlers,     \* what each handler is doing
    offered,      \* what the customer has been asked or shown, by session
    deeds,        \* what was carried out, for which message and session
    settled,      \* messages answered or flagged for a person, or whose handler
                  \* threw or ended with its process
    changes,      \* statuses set so far
    loose         \* sessions two handlers held at once, or a failed one held

vars == <<status, events, sessions, bookings, handlers, offered,
          deeds, settled, changes, loose>>

\* A session row; state "NONE" is no row.  id is the message that began it.
NoSession == [state |-> "NONE", intent |-> "NONE", listed |-> {}, on |-> 0,
              options |-> {}, start |-> 0, late |-> FALSE, id |-> 0]

Offer(s, kind, start) == [id |-> s.id, kind |-> kind, on |-> s.on, start |-> start]

-----------------------------------------------------------------------------
\* A plan: the call of the booking service, the session to write back, and
\* what the reply puts to the customer.  to = "next" leaves the message to the
\* next in line, to = "flag" is an answer without a reply; action and quiet are
\* the AI's decision, and whether its reason is one that leaves the status.
Nothing == [deed |-> "NONE", writes |-> FALSE, row |-> NoSession, offers |-> {},
            to |-> "reply", action |-> "NONE", quiet |-> FALSE]
Leave == [Nothing EXCEPT !.to = "next"]
Tell(row, offers) ==
    [Nothing EXCEPT !.writes = TRUE, !.row = row, !.offers = offers]
Forget == Tell(NoSession, {})
Do(deed, s) == [Nothing EXCEPT !.deed = deed, !.row = s, !.writes = TRUE]

Move(s, state) == [s EXCEPT !.state = state, !.late = FALSE]

\* askServices: no services ends the session, else the list is saved.
AskServices(id) ==
    {Forget, Tell([NoSession EXCEPT !.state = "AWAIT_SERVICE", !.id = id], {})}

\* WhatsAppBookingFlowService.handleInbound, the session having been read.
FlowPlans(s, text, id) ==
    CASE s.state = "NONE" ->
           IF text = "booking"
             THEN AskServices(id) \union
                  {Tell([NoSession EXCEPT !.state = "AWAIT_LOCATION", !.id = id], {})}
             ELSE {Leave}
      [] s.state # "NONE" /\ text \in {"cancel", "leave"} -> {Forget}
      [] s.state = "AWAIT_LOCATION" /\ text = "number" ->
           {Nothing} \union AskServices(s.id)
      [] s.state = "AWAIT_SERVICE" /\ text = "number" ->
           {Nothing} \union
           {Tell([Move(s, "AWAIT_DATE") EXCEPT !.on = sv, !.options = {}, !.start = 0], {}) :
               sv \in Services}
      [] s.state = "AWAIT_DATE" /\ text = "date" ->
           {Nothing} \union
           {Tell([Move(s, "AWAIT_SLOT") EXCEPT !.options = found, !.start = 0], {}) :
               found \in (SUBSET Starts) \ {{}}}
      [] s.state = "AWAIT_SLOT" /\ text = "number" ->
           {Nothing} \union
           {LET t == [Move(s, "AWAIT_CONFIRM") EXCEPT !.start = start]
            IN  Tell(t, {Offer(t, "book", start)}) : start \in s.options}
      [] s.state = "AWAIT_CONFIRM" /\ text = "yes" -> {Do("book", s)}
      [] s.state = "AWAIT_CONFIRM" /\ text = "number" -> {Nothing, Do("book", s)}
      [] OTHER -> {Nothing}

Upcoming == {b \in Bookings : bookings[b] = "active"}

IntentOf(text) ==
    CASE text = "reschedule" -> "RESCHEDULE" [] text = "drop" -> "CANCEL" [] OTHER -> "NONE"

\* Mutated form: cancelling asks for no confirmation.
AskActionAtOnce(s) ==
    IF s.intent = "CANCEL" THEN Do("cancel", s) ELSE Tell(Move(s, "AWAIT_RESCHEDULE_DATE"), {})

\* What the manager asks once a booking and an intent are chosen.
AskAction(s) ==
    CASE s.intent = "RESCHEDULE" -> Tell(Move(s, "AWAIT_RESCHEDULE_DATE"), {})
      [] s.intent = "CANCEL" ->
           LET t == Move(s, "AWAIT_CANCEL_CONFIRM")
           IN  Tell(t, {Offer(t, "cancel", 0)})
      [] OTHER -> Tell(Move(s, "AWAIT_ACTION"), {})

\* WhatsAppBookingManagementService.handleInbound and begin, likewise.
ManagePlans(s, text, id) ==
    CASE s.state = "NONE" ->
           IF text \in {"urus", "reschedule", "drop"}
             THEN {IF Upcoming = {} THEN Nothing
                     ELSE Tell([NoSession EXCEPT !.state = "AWAIT_BOOKING", !.id = id,
                                    !.intent = IntentOf(text), !.listed = Upcoming], {})}
             ELSE {Leave}
      [] s.state # "NONE" /\ text \in {"exit", "leave"} -> {Forget}
      [] s.state = "AWAIT_BOOKING" /\ text = "number" ->
           {Nothing} \union {AskAction([s EXCEPT !.on = b]) : b \in s.listed}
      [] s.state = "AWAIT_ACTION" /\ text = "number" ->
           {Nothing} \union
           {AskAction([s EXCEPT !.intent = i]) : i \in {"RESCHEDULE", "CANCEL"}}
      [] s.state = "AWAIT_RESCHEDULE_DATE" /\ text = "date" ->
           {Nothing} \union
           {LET t == [Move(s, "AWAIT_RESCHEDULE_SLOT") EXCEPT !.options = found]
            IN  Tell(t, {Offer(t, "move", start) : start \in found}) :
               found \in (SUBSET Starts) \ {{}}}
      [] s.state = "AWAIT_RESCHEDULE_SLOT" /\ text = "number" ->
           {Nothing} \union {Do("move", [s EXCEPT !.start = start]) : start \in s.options}
      [] s.state = "AWAIT_CANCEL_CONFIRM" /\ text = "yes" -> {Do("cancel", s)}
      [] s.state = "AWAIT_CANCEL_CONFIRM" /\ text = "number" -> {Nothing, Do("cancel", s)}
      [] OTHER -> {Nothing}

Plans(who, s, text, id) ==
    IF who = "manage" THEN ManagePlans(s, text, id) ELSE FlowPlans(s, text, id)

\* AiBookingOrchestrator.handle: hand off without a word, answer or ask back,
\* say that there is nothing to manage and hand off, or act and say so.
AiAct(deed, on) == [Nothing EXCEPT !.deed = deed, !.action = "EXECUTE",
                                   !.row = [NoSession EXCEPT !.on = on]]
AiLeaves(quiet) == [Nothing EXCEPT !.to = "flag", !.action = "HANDOFF", !.quiet = quiet]
AiSays(action) == [Nothing EXCEPT !.action = action]
AiPlans ==
    {AiLeaves(q) : q \in BOOLEAN}
    \union {AiSays(a) : a \in {"EXECUTE", "CLARIFY"} \union IF Upcoming = {} THEN {"HANDOFF"} ELSE {}}
    \union {AiAct("book", sv) : sv \in Services}
    \union {AiAct(deed, b) : deed \in {"cancel", "move"},
                             b \in {c \in Upcoming : Upcoming = {c}}}

-----------------------------------------------------------------------------
Idle == [pc |-> "idle", who |-> "manage", msg |-> 0, again |-> FALSE,
         text |-> "talk", s |-> NoSession, plan |-> Nothing, open |-> FALSE]

Init ==
    /\ status = "OPEN"
    /\ events = {}
    /\ sessions \in Earlier
    /\ bookings = [b \in Bookings |-> IF b \in Existing THEN "active" ELSE "none"]
    /\ handlers = [h \in Handlers |-> Idle]
    /\ offered = {Offer(sessions[w], "book", sessions[w].start) :
                    w \in {x \in {"flow"} : sessions[x].state = "AWAIT_CONFIRM"}}
                 \union
                 {Offer(sessions[w], "cancel", 0) :
                    w \in {x \in {"manage"} : sessions[x].state = "AWAIT_CANCEL_CONFIRM"}}
                 \union
                 UNION {{Offer(sessions[w], "move", start) : start \in sessions[w].options} :
                    w \in {x \in {"manage"} : sessions[x].state = "AWAIT_RESCHEDULE_SLOT"}}
    /\ deeds = {}
    /\ settled = {} /\ loose = {} /\ changes = 0

At(h, pc) == handlers[h].pc = pc

\* The handler goes to pc; what it remembers of the session stays.
Goto(h, pc) == handlers' = [handlers EXCEPT ![h].pc = pc]
Done(h) == handlers' = [handlers EXCEPT ![h] = Idle]

\* Every handler in flight sees that the conversation has been open.
Opened == [h \in Handlers |->
             IF status' = "OPEN" /\ ~At(h, "idle")
               THEN [handlers[h] EXCEPT !.open = TRUE] ELSE handlers[h]]

\* Mutated form: an event that is there already counts as new.
ReceiveTwice(h) ==
    /\ At(h, "idle")
    /\ \E m \in 1 .. MaxMessages, text \in Says :
         /\ m \in events \/ m = Cardinality(events) + 1
         /\ events' = events \union {m}
         /\ handlers' = [handlers EXCEPT ![h] =
                [Idle EXCEPT !.pc = "project", !.msg = m, !.text = text,
                             !.open = status = "OPEN"]]
    /\ UNCHANGED <<status, sessions, bookings, offered, deeds, settled, changes, loose>>

\* WhatsAppWebhookIngestionService.ingestEvolution: a delivery, the first one
\* of the next message or one more of an earlier one.
Receive(h) ==
    /\ At(h, "idle")
    /\ \E m \in 1 .. MaxMessages, text \in Says :
         /\ \/ m = Cardinality(events) + 1
            \/ m \in events /\ text = CHOOSE t \in Says : TRUE
         /\ events' = events \union {m}
         /\ handlers' = [handlers EXCEPT ![h] =
                [Idle EXCEPT !.pc = "project", !.msg = m, !.again = m \in events,
                             !.text = text, !.open = status = "OPEN"]]
    /\ UNCHANGED <<status, sessions, bookings, offered, deeds, settled, changes, loose>>

\* InboxService.project: a message reopens a closed conversation.  A delivery
\* seen before ends here.
Project(h) ==
    /\ At(h, "project")
    /\ status' = IF status = "CLOSED" THEN "OPEN" ELSE status
    /\ handlers' = [Opened EXCEPT ![h] =
           IF handlers[h].again THEN Idle
           ELSE [@ EXCEPT !.pc = IF handlers[h].text = "stop" THEN "prefer" ELSE "status"]]
    /\ UNCHANGED <<events, sessions, bookings, offered, deeds, settled, changes, loose>>

\* An opt-out is recorded and nothing is answered.
Prefer(h) ==
    /\ At(h, "prefer")
    /\ settled' = settled \union {handlers[h].msg}
    /\ Done(h)
    /\ UNCHANGED <<status, events, sessions, bookings, offered, deeds, changes, loose>>

\* handled: false: the booking flow follows the manager, the AI the flow.
NextInLine(c) ==
    IF c.who = "manage" THEN [c EXCEPT !.pc = "status", !.who = "flow", !.s = NoSession]
    ELSE [c EXCEPT !.pc = "ai", !.who = "ai", !.s = NoSession, !.text = "talk"]

\* handleInbound reads the conversation: only an open one is for the flows.
ReadStatus(h) ==
    /\ At(h, "status")
    /\ handlers' = [handlers EXCEPT ![h] =
           IF status = "OPEN" THEN [@ EXCEPT !.pc = "read"] ELSE NextInLine(@)]
    /\ UNCHANGED <<status, events, sessions, bookings, offered, deeds, settled, changes, loose>>

\* The handler after it has decided on a plan.
Follow(c, s, plan) ==
    IF plan.to = "next" THEN NextInLine(c)
    ELSE [c EXCEPT !.s = s, !.plan = plan, !.text = "talk",
             !.pc = IF plan.deed # "NONE" THEN "act" ELSE IF plan.writes THEN "write" ELSE "reply"]

Holders(s) == {h \in Handlers : s.state # "NONE" /\ handlers[h].s.state # "NONE"
                                /\ handlers[h].s.id = s.id}

ReadSession(h) ==
    /\ At(h, "read")
    /\ LET c == handlers[h]
           s == sessions[c.who]
       IN  /\ loose' = IF Holders(s) = {} THEN loose ELSE loose \union {s.id}
           /\ IF s.late
                THEN handlers' = [handlers EXCEPT ![h] = [@ EXCEPT !.pc = "expire", !.s = s]]
                ELSE \E plan \in Plans(c.who, s, c.text, c.msg) :
                       handlers' = [handlers EXCEPT ![h] = Follow(@, s, plan)]
    /\ UNCHANGED <<status, events, sessions, bookings, offered, deeds, settled, changes>>

\* clearSession of a session that has expired: it deletes the row there is now.
ClearExpired(h) ==
    /\ At(h, "expire")
    /\ LET c == handlers[h]
       IN  /\ sessions' = [sessions EXCEPT ![c.who] = NoSession]
           /\ \E plan \in Plans(c.who, NoSession, c.text, c.msg) :
                handlers' = [handlers EXCEPT ![h] = Follow(@, NoSession, plan)]
    /\ UNCHANGED <<status, events, bookings, offered, deeds, settled, changes, loose>>

\* AiBookingOrchestrator.handle up to its first effect.
Interpret(h) ==
    /\ At(h, "ai")
    /\ \E plan \in AiPlans :
         handlers' = [handlers EXCEPT ![h] =
             IF plan.to = "flag" THEN [@ EXCEPT !.pc = "record", !.plan = plan]
             ELSE Follow(@, NoSession, plan)]
    /\ UNCHANGED <<status, events, sessions, bookings, offered, deeds, settled, changes, loose>>

\* The booking service does as asked, and the session is over.
Succeed(h) ==
    LET c == handlers[h]
        s == c.plan.row
        Deed(b) == [msg |-> c.msg, who |-> c.who, id |-> s.id, kind |-> c.plan.deed,
                    on |-> s.on, start |-> s.start, booking |-> b, open |-> c.open]
    IN  /\ At(h, "act")
        /\ \/ /\ c.plan.deed = "book"
              /\ \E b \in Bookings :
                   /\ bookings[b] = "none"
                   /\ \A x \in Bookings : x < b => bookings[x] # "none"
                   /\ bookings' = [bookings EXCEPT ![b] = "active"]
                   /\ deeds' = deeds \union {Deed(b)}
           \/ /\ c.plan.deed \in {"cancel", "move"}
              /\ bookings[s.on] = "active"
              /\ bookings' = [bookings EXCEPT ![s.on] =
                     IF c.plan.deed = "cancel" THEN "cancelled" ELSE @]
              /\ deeds' = deeds \union {Deed(s.on)}
        /\ handlers' = [handlers EXCEPT ![h].plan.row = NoSession,
                                        ![h].pc = IF c.who = "ai" THEN "reply" ELSE "write"]
        /\ UNCHANGED <<status, events, sessions, offered, settled, changes, loose>>

\* BookingUnavailableError or BookingConflictError sends the customer back to
\* the date; cancelling ends its session whatever the error is.
Refuse(h) ==
    LET c == handlers[h]
        Back(s, state) == [Move(s, state) EXCEPT !.options = {}, !.start = 0]
    IN  /\ At(h, "act")
        /\ c.who # "ai"
        /\ c.plan.deed = "move" => bookings[c.plan.row.on] = "active"
        /\ handlers' = [handlers EXCEPT ![h].pc = "write",
               ![h].plan.row = CASE c.plan.deed = "book" -> Back(c.s, "AWAIT_DATE")
                                 [] c.plan.deed = "move" -> Back(c.s, "AWAIT_RESCHEDULE_DATE")
                                 [] OTHER -> NoSession]
        /\ UNCHANGED <<status, events, sessions, bookings, offered, deeds, settled, changes, loose>>

\* saveSession writes every column, clearSession deletes the row.
WriteSession(h) ==
    /\ At(h, "write")
    /\ sessions' = [sessions EXCEPT ![handlers[h].who] = handlers[h].plan.row]
    /\ handlers' = [handlers EXCEPT ![h].pc = "reply", ![h].plan.row = NoSession]
    /\ UNCHANGED <<status, events, bookings, offered, deeds, settled, changes, loose>>

\* enqueueReply; what the AI did is then recorded.
Reply(h) ==
    /\ At(h, "reply")
    /\ offered' = offered \union handlers[h].plan.offers
    /\ settled' = settled \union {handlers[h].msg}
    /\ IF handlers[h].who = "ai" THEN Goto(h, "record") ELSE Done(h)
    /\ UNCHANGED <<status, events, sessions, bookings, deeds, changes, loose>>

\* Mutated form: only what the AI replied to is recorded.
RecordHandled(h) ==
    LET plan == handlers[h].plan
    IN  /\ At(h, "record")
        /\ settled' = settled \union
               (IF plan.action = "HANDOFF" /\ plan.to = "reply" THEN {handlers[h].msg} ELSE {})
        /\ IF plan.action = "HANDOFF" /\ ~plan.quiet THEN Goto(h, "handoff") ELSE Done(h)
        /\ UNCHANGED <<status, events, sessions, bookings, offered, deeds, changes, loose>>

\* InboxService.recordAiState: a HANDOFF flags the conversation for a person.
RecordAiState(h) ==
    LET plan == handlers[h].plan
    IN  /\ At(h, "record")
        /\ settled' = settled \union
               (IF plan.action = "HANDOFF" THEN {handlers[h].msg} ELSE {})
        /\ IF plan.action = "HANDOFF" /\ ~plan.quiet THEN Goto(h, "handoff") ELSE Done(h)
        /\ UNCHANGED <<status, events, sessions, bookings, offered, deeds, changes, loose>>

\* A handoff the AI decided on takes the conversation from the flows.
Handoff(h) ==
    /\ At(h, "handoff")
    /\ status' = "HUMAN"
    /\ Done(h)
    /\ UNCHANGED <<events, sessions, bookings, offered, deeds, settled, changes, loose>>

\* A query, a call of the booking service or a rule of it throws, or the process
\* ends: the rest is not done, and no later delivery does it.
Fail(h) ==
    LET c == handlers[h]
    IN  /\ ~At(h, "idle")
        /\ settled' = IF c.again THEN settled ELSE settled \union {c.msg}
        /\ loose' = IF c.s.state = "NONE" THEN loose ELSE loose \union {c.s.id}
        /\ Done(h)
        /\ UNCHANGED <<status, events, sessions, bookings, offered, deeds, changes>>

\* Someone of the business takes over, returns to the AI, pauses or closes.
SetStatus ==
    /\ changes < MaxChanges /\ changes' = changes + 1
    /\ \E st \in Sets \ {status} : status' = st
    /\ handlers' = Opened
    /\ UNCHANGED <<events, sessions, bookings, offered, deeds, settled, loose>>

\* Half an hour passes without an answer.
Expire ==
    /\ \E w \in Flows :
         /\ sessions[w].state # "NONE" /\ ~sessions[w].late
         /\ sessions' = [sessions EXCEPT ![w].late = TRUE]
    /\ UNCHANGED <<status, events, bookings, handlers, offered, deeds, settled, changes, loose>>

\* The desk cancels a booking.
DeskCancels ==
    /\ \E b \in Upcoming : bookings' = [bookings EXCEPT ![b] = "cancelled"]
    /\ UNCHANGED <<status, events, sessions, handlers, offered, deeds, settled, changes, loose>>

Handle(h) ==
    \/ Receive(h) \/ Project(h) \/ Prefer(h) \/ ReadStatus(h) \/ ReadSession(h)
    \/ ClearExpired(h) \/ Interpret(h) \/ Succeed(h) \/ Refuse(h) \/ WriteSession(h)
    \/ Reply(h) \/ RecordAiState(h) \/ Handoff(h) \/ Fail(h)

Next == (\E h \in Handlers : Handle(h)) \/ SetStatus \/ Expire \/ DeskCancels

Spec == Init /\ [][Next]_vars

-----------------------------------------------------------------------------
(* A message makes at most one booking or change, however often it is      *)
(* delivered; a session does so once, unless two messages were in it at a  *)
(* time or a handler that held it failed.                                  *)
OnceEach ==
    \A d, e \in deeds :
        d # e => /\ d.msg # e.msg
                 /\ (d.who = e.who /\ d.id = e.id /\ d.who # "ai") => d.id \in loose

(* What a flow carries out is what it had put to the customer, with the    *)
(* same exceptions, and the conversation was open after the message came.  *)
DoneAsAsked ==
    \A d \in deeds :
        d.who # "ai" =>
            /\ [id |-> d.id, kind |-> d.kind, on |-> d.on, start |-> d.start] \in offered
               \/ d.id \in loose
            /\ d.open

(* Every message is being handled, was answered or was flagged for a       *)
(* person, unless its handler failed: no order of answers, take-overs and  *)
(* redeliveries lets one drop.                                             *)
NoneForgotten ==
    \A m \in events :
        \/ m \in settled
        \/ \E h \in Handlers : handlers[h].msg = m /\ ~handlers[h].again
=============================================================================
