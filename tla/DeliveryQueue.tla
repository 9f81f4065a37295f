--------------------------- MODULE DeliveryQueue ---------------------------
(***************************************************************************)
(* The outbound queue: rows of whatsapp_outbound_deliveries, written once  *)
(* per idempotency key and worked off by the ticks of the delivery worker. *)
(* A timer starts a tick every three seconds without waiting for the one   *)
(* before, so ticks overlap, in one process or in several.  Each statement *)
(* may fail, before or after PostgreSQL committed it; the provider may     *)
(* refuse, or accept and lose its answer; a tick may disappear with its    *)
(* process at any point (a redeployment does not wait for it).             *)
(*                                                                         *)
(* A waiting row may become due at any time: next_attempt_at and the delay *)
(* before a retry are left open.                                           *)
(***************************************************************************)
EXTENDS Integers, FiniteSets

CONSTANTS Messages,     \* idempotency keys
          Ticks,        \* bound: ticks of the delivery worker in flight
          NoMessage,
          MaxAttempts   \* max_attempts of every row

ASSUME MessagesAssumption == NoMessage \notin Messages
ASSUME AttemptsAssumption == MaxAttempts \in 1 .. 10

VARIABLES row,       \* status of each row, "ABSENT" before the insert
          attempts,  \* attempt_count
          accepted,  \* history: how often the provider accepted the message
          at,        \* where each tick is
          claimed    \* the row each tick holds in memory, as it claimed it

queueTables == <<row, attempts>>
queueVars == <<row, attempts, accepted, at, claimed>>

Waiting == {"QUEUED", "RETRY", "RATE_LIMITED"}
Settled == {"SENT", "FAILED"}
Busy == {"send", "mark", "retry"}
NoClaim == [id |-> NoMessage, attempt |-> 0]

QueueInit ==
  /\ row = [m \in Messages |-> "ABSENT"]
  /\ attempts = [m \in Messages |-> 0]
  /\ accepted = [m \in Messages |-> 0]
  /\ at = [d \in Ticks |-> "idle"]
  /\ claimed = [d \in Ticks |-> NoClaim]
-----------------------------------------------------------------------------
\* enqueue: INSERT ... ON CONFLICT DO NOTHING; a duplicate changes nothing.
Enqueue(m) ==
  /\ row' = [row EXCEPT ![m] = IF @ = "ABSENT" THEN "QUEUED" ELSE @]
  /\ UNCHANGED <<attempts, accepted, at, claimed>>

\* Mutated form: the SELECT also takes rows that another tick is sending.
ClaimSending(d, m) ==
  /\ at[d] = "idle"
  /\ row[m] \in Waiting \cup {"SENDING"}
  /\ attempts[m] < MaxAttempts
  /\ row' = [row EXCEPT ![m] = "SENDING"]
  /\ attempts' = [attempts EXCEPT ![m] = @ + 1]
  /\ claimed' = [claimed EXCEPT ![d] = [id |-> m, attempt |-> attempts[m] + 1]]
  /\ at' = [at EXCEPT ![d] = "send"]
  /\ UNCHANGED accepted

\* Mutated form: rows the provider rate limited are never due again.
ClaimNotLimited(d, m) ==
  /\ at[d] = "idle"
  /\ row[m] \in Waiting \ {"RATE_LIMITED"}
  /\ row' = [row EXCEPT ![m] = "SENDING"]
  /\ attempts' = [attempts EXCEPT ![m] = @ + 1]
  /\ claimed' = [claimed EXCEPT ![d] = [id |-> m, attempt |-> attempts[m] + 1]]
  /\ at' = [at EXCEPT ![d] = "send"]
  /\ UNCHANGED accepted

\* Mutated form: the attempt is not counted.
ClaimUncounted(d, m) ==
  /\ at[d] = "idle"
  /\ row[m] \in Waiting
  /\ row' = [row EXCEPT ![m] = "SENDING"]
  /\ claimed' = [claimed EXCEPT ![d] = [id |-> m, attempt |-> attempts[m]]]
  /\ at' = [at EXCEPT ![d] = "send"]
  /\ UNCHANGED <<attempts, accepted>>

\* claim: FOR UPDATE SKIP LOCKED makes the SELECT and the UPDATE one step.
Claim(d, m) ==
  /\ at[d] = "idle"
  /\ row[m] \in Waiting
  /\ row' = [row EXCEPT ![m] = "SENDING"]
  /\ attempts' = [attempts EXCEPT ![m] = @ + 1]
  /\ claimed' = [claimed EXCEPT ![d] = [id |-> m, attempt |-> attempts[m] + 1]]
  /\ at' = [at EXCEPT ![d] = "send"]
  /\ UNCHANGED accepted

\* sendText returns the provider's message id.
Accepted(d) ==
  /\ at[d] = "send"
  /\ accepted' = [accepted EXCEPT ![claimed[d].id] = @ + 1]
  /\ at' = [at EXCEPT ![d] = "mark"]
  /\ UNCHANGED <<queueTables, claimed>>

\* sendText throws: no provider registered, an HTTP error, a timeout, no id in
\* the answer.  In the last two the provider may have accepted the message.
Refused(d) ==
  /\ at[d] = "send"
  /\ \/ UNCHANGED accepted
     \/ accepted' = [accepted EXCEPT ![claimed[d].id] = @ + 1]
  /\ at' = [at EXCEPT ![d] = "retry"]
  /\ UNCHANGED <<queueTables, claimed>>

Release(d) ==
  /\ at' = [at EXCEPT ![d] = "idle"]
  /\ claimed' = [claimed EXCEPT ![d] = NoClaim]

\* markSent.  When it throws, before or after its commit, the same catch that
\* handles a refused message runs.
MarkSent(d) ==
  LET m == claimed[d].id
  IN /\ at[d] = "mark"
     /\ \/ row' = [row EXCEPT ![m] = "SENT"] /\ Release(d)
        \/ /\ row' \in {row, [row EXCEPT ![m] = "SENT"]}
           /\ at' = [at EXCEPT ![d] = "retry"]
           /\ UNCHANGED claimed
     /\ UNCHANGED <<attempts, accepted>>

\* Mutated form: the provider's first refusal is final.
AfterFailureFinal(d) == {"FAILED"}

\* The catch: give up after the last attempt, else wait for another one.
AfterFailure(d) ==
  IF claimed[d].attempt >= MaxAttempts THEN {"FAILED"} ELSE {"RETRY", "RATE_LIMITED"}

MarkRetry(d) ==
  /\ at[d] = "retry"
  /\ \E status \in AfterFailure(d) : row' = [row EXCEPT ![claimed[d].id] = status]
  /\ Release(d)
  /\ UNCHANGED <<attempts, accepted>>

\* The tick disappears: markRetry throws, or the process ends.
Vanish(d) ==
  /\ at[d] \in Busy
  /\ Release(d)
  /\ UNCHANGED <<queueTables, accepted>>

ClaimSome(d) == \E m \in Messages : Claim(d, m)
Proceed(d) == Accepted(d) \/ Refused(d) \/ MarkSent(d) \/ MarkRetry(d)

Deliver == \E d \in Ticks : ClaimSome(d) \/ Proceed(d) \/ Vanish(d)

\* On its own, the queue is fed by callers who may repeat themselves.
QueueNext == (\E m \in Messages : Enqueue(m)) \/ Deliver
QueueSpec == QueueInit /\ [][QueueNext]_queueVars

\* The timer keeps starting ticks, and every call of a tick returns or throws
\* (fetch and pg both give up in the end).
QueueFairness == \A d \in Ticks : WF_queueVars(ClaimSome(d)) /\ WF_queueVars(Proceed(d))
FairQueueSpec == QueueSpec /\ QueueFairness
-----------------------------------------------------------------------------
Held(m) == {d \in Ticks : at[d] \in Busy /\ claimed[d].id = m}

\* Rows, ticks and the rows they hold.
QueueTypeOK ==
  /\ row \in [Messages -> Waiting \cup Settled \cup {"ABSENT", "SENDING"}]
  /\ attempts \in [Messages -> 0 .. MaxAttempts]
  /\ accepted \in [Messages -> Nat]
  /\ at \in [Ticks -> Busy \cup {"idle"}]
  /\ claimed \in [Ticks -> [id : Messages \cup {NoMessage}, attempt : 0 .. MaxAttempts]]

\* A row is worked on by at most one tick, although ticks overlap, retry and
\* vanish, and a row a tick holds is never one that another tick could claim.
OneTickPerRow ==
  \A m \in Messages :
    /\ \A d, e \in Held(m) : d = e
    /\ Held(m) # {} => row[m] \in {"SENDING", "SENT"}

\* A message reaches the provider no more often than the row's attempts, and
\* no row is tried more than max_attempts times.
BoundedSends ==
  \A m \in Messages : accepted[m] <= attempts[m] /\ attempts[m] <= MaxAttempts

\* What a row says is what happened: SENT was accepted by the provider, and
\* the queue gives up on a message only after its last attempt.
OutcomeTrue ==
  \A m \in Messages :
    /\ row[m] = "SENT" => accepted[m] > 0
    /\ row[m] = "FAILED" => attempts[m] = MaxAttempts
    /\ row[m] = "ABSENT" => attempts[m] = 0

\* A row that nobody works on any more and that no claim ever finds again.
Orphan(m) == row[m] = "SENDING" /\ Held(m) = {}

\* Every row that was queued is sent, given up on, or left behind in SENDING by
\* a tick that vanished: there is no other way for a message to be lost.
EventuallySettled ==
  \A m \in Messages : row[m] = "QUEUED" ~> row[m] \in Settled \/ Orphan(m)
=============================================================================
