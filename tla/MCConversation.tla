--------------------------- MODULE MCConversation ---------------------------
(* A conversation for TLC: see Conversation.cfg.                           *)
EXTENDS Conversation, TLC

CONSTANTS h1, h2
Symmetry == Permutations({h1, h2})

\* What earlier messages, all answered, may have left: either flow at each of
\* its questions, or both, one behind the other.
Left ==
  LET F(state, start) == [NoSession EXCEPT !.state = state, !.on = 1, !.id = MaxMessages + 1,
                                           !.options = Starts, !.start = start]
      M(state, intent) == [NoSession EXCEPT !.state = state, !.listed = Existing, !.on = 1,
                               !.intent = intent, !.options = Starts, !.id = MaxMessages + 2]
      Asking == {[F(st, 0) EXCEPT !.on = 0, !.options = {}] :
                    st \in {"AWAIT_LOCATION", "AWAIT_SERVICE"}}
                \union {[F("AWAIT_DATE", 0) EXCEPT !.options = {}], F("AWAIT_SLOT", 0)}
      Confirming == {F("AWAIT_CONFIRM", CHOOSE t \in Starts : TRUE)}
      Managing == {[M("AWAIT_BOOKING", "RESCHEDULE") EXCEPT !.on = 0, !.options = {}],
                   [M("AWAIT_ACTION", "NONE") EXCEPT !.options = {}],
                   [M("AWAIT_RESCHEDULE_DATE", "RESCHEDULE") EXCEPT !.options = {}],
                   M("AWAIT_RESCHEDULE_SLOT", "RESCHEDULE")}
      Cancelling == {[M("AWAIT_CANCEL_CONFIRM", "CANCEL") EXCEPT !.options = {}]}
  IN  [flow : Asking \union Confirming \union {NoSession}, manage : {NoSession}]
      \union [flow : {NoSession}, manage : Managing \union Cancelling]
      \union [flow : Confirming, manage : Cancelling]
=============================================================================
