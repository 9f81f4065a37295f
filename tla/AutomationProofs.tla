-------------------------- MODULE AutomationProofs --------------------------
(***************************************************************************)
(* Theorems about AutomationDispatch, the composition of the dispatcher    *)
(* with the outbound queue, for any jobs, ticks of both workers, switches  *)
(* and limit.  The queue keeps its own invariant, proved first.  Of the    *)
(* dispatcher: Composer says that a tick that still works on a message is  *)
(* the only one to do so and has queued nothing before it says so, Mindful *)
(* that what a tick has asked about was on at some time since its claim,   *)
(* and Measured that ticks past the count of recent messages are few.      *)
(***************************************************************************)
EXTENDS AutomationDispatch, FiniteSetTheorems, TLAPS

-----------------------------------------------------------------------------
(* The queue alone, for any messages, any number of overlapping ticks and  *)
(* any max_attempts.  What a row says is not inductive by itself: Holding  *)
(* adds what a tick remembers of the row it claimed, Exclusive that no     *)
(* other tick remembers it too, and Counted that a waiting row has         *)
(* attempts left and that a row in SENDING before its answer has one       *)
(* attempt more than the provider has accepted messages.                   *)

Holds(d) == at[d] \in Busy

Holding(d) ==
  IF Holds(d)
  THEN LET m == claimed[d].id
       IN /\ m \in Messages /\ claimed[d].attempt = attempts[m]
          /\ at[d] \in {"send", "mark"} => row[m] = "SENDING"
          /\ at[d] = "retry" => row[m] \in {"SENDING", "SENT"}
          /\ at[d] = "send" => accepted[m] < attempts[m]
          /\ at[d] = "mark" => accepted[m] > 0
  ELSE claimed[d] = NoClaim

Exclusive ==
  \A d, e \in Ticks : Holds(d) /\ Holds(e) /\ claimed[d].id = claimed[e].id => d = e

Counted(m) ==
  /\ accepted[m] <= attempts[m] /\ attempts[m] <= MaxAttempts
  /\ row[m] \in Waiting => attempts[m] < MaxAttempts
  /\ row[m] = "SENT" => accepted[m] > 0
  /\ row[m] = "FAILED" => attempts[m] = MaxAttempts
  /\ row[m] = "ABSENT" => attempts[m] = 0

QueueInv == /\ QueueTypeOK /\ Exclusive
            /\ \A d \in Ticks : Holding(d)
            /\ \A m \in Messages : Counted(m)

LEMMA InitQueue == QueueInit => QueueInv
<1> SUFFICES ASSUME QueueInit PROVE QueueInv
  OBVIOUS
<1> USE AttemptsAssumption DEF QueueInit, NoClaim
<1>1. QueueTypeOK
  BY DEF QueueTypeOK, Waiting, Settled, Busy
<1>2. Exclusive /\ \A d \in Ticks : Holding(d)
  BY DEF Exclusive, Holding, Holds, Busy
<1>3. \A m \in Messages : Counted(m)
  BY DEF Counted, Waiting
<1> QED BY <1>1, <1>2, <1>3 DEF QueueInv

\* A tick's step touches its own row and nobody else's: what the other ticks
\* remember and what the other rows say stays true.
LEMMA OthersKeep ==
  ASSUME QueueInv, NEW d \in Ticks, NEW m \in Messages,
         Holds(d) => claimed[d].id = m,
         ~Holds(d) => row[m] \in Waiting,
         \A e \in Ticks \ {d} : at'[e] = at[e] /\ claimed'[e] = claimed[e],
         \A n \in Messages \ {m} : /\ row'[n] = row[n]
                                   /\ attempts'[n] = attempts[n]
                                   /\ accepted'[n] = accepted[n],
         Holds(d)' => claimed'[d].id = m,
         Holding(d)', Counted(m)', QueueTypeOK'
  PROVE  QueueInv'
<1>1. \A e \in Ticks \ {d} : Holds(e) => claimed[e].id # m /\ claimed[e].id \in Messages
  <2> TAKE e \in Ticks \ {d}
  <2> HAVE Holds(e)
  <2>1. claimed[e].id \in Messages /\ row[claimed[e].id] \in {"SENDING", "SENT"}
    BY DEF QueueInv, Holding, Holds, Busy
  <2>2. row[claimed[e].id] \notin Waiting
    BY <2>1 DEF Waiting
  <2> QED BY <2>1, <2>2 DEF QueueInv, Exclusive
<1>2. \A e \in Ticks \ {d} : Holding(e)'
  BY <1>1 DEF QueueInv, Holding, Holds
<1>3. Exclusive'
  BY <1>1 DEF QueueInv, Exclusive, Holds
<1>4. \A n \in Messages \ {m} : Counted(n)'
  BY DEF QueueInv, Counted
<1> QED BY <1>2, <1>3, <1>4 DEF QueueInv

\* Every step of the queue keeps the invariant.
LEMMA StepQueue == QueueInv /\ [QueueNext]_queueVars => QueueInv'
<1> SUFFICES ASSUME QueueInv, [QueueNext]_queueVars PROVE QueueInv'
  OBVIOUS
<1> USE AttemptsAssumption, MessagesAssumption
<1>1. ASSUME NEW m \in Messages, Enqueue(m) PROVE QueueInv'
  <2>1. QueueTypeOK'
    BY <1>1 DEF QueueInv, QueueTypeOK, Enqueue, Waiting
  <2>2. Exclusive' /\ \A d \in Ticks : Holding(d)'
    BY <1>1 DEF QueueInv, QueueTypeOK, Exclusive, Holding, Holds, Busy, Enqueue
  <2>3. \A n \in Messages : Counted(n)'
    BY <1>1 DEF QueueInv, QueueTypeOK, Counted, Enqueue, Waiting
  <2> QED BY <2>1, <2>2, <2>3 DEF QueueInv
<1>2. ASSUME NEW d \in Ticks, NEW m \in Messages, Claim(d, m) PROVE QueueInv'
  <2>1. attempts[m] \in 0 .. (MaxAttempts - 1) /\ ~Holds(d)
    BY <1>2 DEF QueueInv, QueueTypeOK, Counted, Claim, Holds, Busy
  <2>2. QueueTypeOK'
    BY <1>2, <2>1 DEF QueueInv, QueueTypeOK, Claim, Busy
  <2>3. Holding(d)' /\ Counted(m)'
    BY <1>2, <2>1 DEF QueueInv, QueueTypeOK, Holding, Holds, Counted, Claim, Busy, Waiting
  <2> QED BY <1>2, <2>1, <2>2, <2>3, OthersKeep DEF Claim, QueueInv, QueueTypeOK
<1>3. ASSUME NEW d \in Ticks, Proceed(d) \/ Vanish(d) PROVE QueueInv'
  <2>0. PICK m \in Messages : Holds(d) /\ claimed[d].id = m
    BY <1>3 DEF QueueInv, Holding, Holds, Busy, Proceed, Accepted, Refused, MarkSent, MarkRetry,
                Vanish
  <2>1. Holds(d) /\ claimed[d].id = m /\ Holding(d) /\ Counted(m)
    BY <2>0 DEF QueueInv
  <2>2. QueueTypeOK'
    <3>1. CASE Accepted(d) \/ Refused(d)
      BY <2>1, <3>1 DEF QueueInv, QueueTypeOK, Accepted, Refused, queueTables, Busy
    <3>2. CASE MarkSent(d)
      BY <2>1, <3>2 DEF QueueInv, QueueTypeOK, MarkSent, Release, NoClaim, Settled, Busy
    <3>3. CASE MarkRetry(d)
      BY <2>1, <3>3 DEF QueueInv, QueueTypeOK, MarkRetry, AfterFailure, Release, NoClaim, Waiting,
                        Settled
    <3>4. CASE Vanish(d)
      BY <3>4 DEF QueueInv, QueueTypeOK, Vanish, Release, NoClaim, queueTables
    <3> QED BY <1>3, <3>1, <3>2, <3>3, <3>4 DEF Proceed
  <2>3. Holding(d)' /\ Counted(m)' /\ (Holds(d)' => claimed'[d].id = m)
    <3>1. CASE Accepted(d) \/ Refused(d)
      BY <2>1, <3>1 DEF QueueInv, QueueTypeOK, Holding, Holds, Counted, Accepted, Refused,
                        queueTables, Busy, Waiting
    <3>2. CASE MarkSent(d)
      BY <2>1, <3>2 DEF QueueInv, QueueTypeOK, Holding, Holds, Counted, MarkSent, Release, Busy,
                        Waiting
    <3>3. CASE MarkRetry(d)
      BY <2>1, <3>3 DEF QueueInv, QueueTypeOK, Holding, Holds, Counted, MarkRetry, AfterFailure,
                        Release, Busy, Waiting
    <3>4. CASE Vanish(d)
      BY <2>1, <3>4 DEF QueueInv, QueueTypeOK, Holding, Holds, Counted, Vanish, Release, Busy,
                        queueTables
    <3> QED BY <1>3, <3>1, <3>2, <3>3, <3>4 DEF Proceed
  <2>4. /\ \A e \in Ticks \ {d} : at'[e] = at[e] /\ claimed'[e] = claimed[e]
        /\ \A n \in Messages \ {m} : /\ row'[n] = row[n]
                                     /\ attempts'[n] = attempts[n]
                                     /\ accepted'[n] = accepted[n]
    BY <1>3, <2>1 DEF QueueInv, QueueTypeOK, Proceed, Accepted, Refused, MarkSent, MarkRetry, Vanish,
                      Release, queueTables
  <2> QED BY <2>1, <2>2, <2>3, <2>4, OthersKeep
<1>4. CASE UNCHANGED queueVars
  BY <1>4 DEF queueVars, QueueInv, QueueTypeOK, Exclusive, Holding, Holds, Counted
<1> QED BY <1>1, <1>2, <1>3, <1>4 DEF QueueNext, Deliver, ClaimSome

\* What the invariant says of the rows and the ticks.
LEMMA QueueInvUsed ==
  QueueInv => QueueTypeOK /\ OneTickPerRow /\ BoundedSends /\ OutcomeTrue
<1> SUFFICES ASSUME QueueInv PROVE OneTickPerRow /\ BoundedSends /\ OutcomeTrue
  BY DEF QueueInv
<1>1. OneTickPerRow
  BY DEF QueueInv, OneTickPerRow, Held, Exclusive, Holding, Holds, Busy
<1>2. BoundedSends /\ OutcomeTrue
  BY DEF QueueInv, BoundedSends, OutcomeTrue, Counted
<1> QED BY <1>1, <1>2

\* The queue's invariant holds throughout.
THEOREM QueueInvariance == QueueSpec => []QueueInv
<1> QED BY InitQueue, StepQueue, PTL DEF QueueSpec

\* The rows, the ticks and what they hold keep their types.
THEOREM QueueTyped == QueueSpec => []QueueTypeOK
<1> QED BY QueueInvariance, QueueInvUsed, PTL

\* FOR UPDATE SKIP LOCKED and the status SENDING give every row to one tick,
\* however many overlap.
THEOREM OneTick == QueueSpec => []OneTickPerRow
<1> QED BY QueueInvariance, QueueInvUsed, PTL

\* No row is tried more than max_attempts times, nor sent more often than tried.
THEOREM SendsBounded == QueueSpec => []BoundedSends
<1> QED BY QueueInvariance, QueueInvUsed, PTL

\* A row in SENT was accepted; a row in FAILED has no attempt left.
THEOREM OutcomesTrue == QueueSpec => []OutcomeTrue
<1> QED BY QueueInvariance, QueueInvUsed, PTL

-----------------------------------------------------------------------------
(* The dispatcher.                                                         *)

Typed == /\ job \in [Jobs -> Claimable \cup Finished \cup {"ABSENT", "CLAIMED"}]
         /\ on \in SUBSET AllSwitches
         /\ recent \in SUBSET (Jobs \cup Replies)
         /\ doing \in [JobTicks -> Working \cup {"idle"}]
         /\ has \in [JobTicks -> Jobs \cup {NoJob}]
         /\ offSince \in [JobTicks -> SUBSET AllSwitches]
         /\ \A a \in JobTicks : doing[a] # "idle" => has[a] \in Jobs

\* Every label of a tick, for the provers.
USE DEF Working, Composing, Recording, Asking

LEMMA QueueStep == Typed /\ [Next]_vars => [QueueNext]_queueVars
<1> SUFFICES ASSUME Typed, [Next]_vars PROVE [QueueNext]_queueVars
  OBVIOUS
<1>1. ASSUME NEW a \in JobTicks, StepJob(a) PROVE [QueueNext]_queueVars
  <2>1. CASE EnqueueMessage(a)
    <3>1. has[a] \in Messages
      BY <2>1, JobsAssumption DEF Typed, EnqueueMessage
    <3> QED BY <2>1, <3>1 DEF EnqueueMessage, QueueNext
  <2> QED BY <1>1, <2>1 DEF StepJob, ReadProfile, ReadPolicy, ReadPreference, CountRecent,
                            ReadTemplate, Ask, Continue, Record, Audit, FinishFailed
<1> QED BY <1>1 DEF Next, Schedule, ClaimJob, Throw, Continue, VanishJob, Flip, QueueReply,
                    MinutePasses, QueueNext, vars

-----------------------------------------------------------------------------
(* Types.                                                                  *)

LEMMA InitTyped == Init => Typed
<1> QED BY DEF Init, Typed

LEMMA StepTyped == Typed /\ [Next]_vars => Typed'
<1> SUFFICES ASSUME Typed, [Next]_vars PROVE Typed'
  OBVIOUS
<1> USE DEF Typed
<1>1. ASSUME NEW a \in JobTicks, StepJob(a) \/ Throw(a) \/ VanishJob(a) PROVE Typed'
  <2>1. CASE ReadProfile(a) \/ ReadPolicy(a) \/ ReadPreference(a) \/ CountRecent(a)
             \/ ReadTemplate(a) \/ Throw(a)
    BY <2>1 DEF ReadProfile, ReadPolicy, ReadPreference, CountRecent, ReadTemplate, AfterPolicy,
                Throw, Ask, Continue
  <2>2. CASE EnqueueMessage(a)
    BY <2>2 DEF EnqueueMessage
  <2>3. CASE Record(a)
    BY <2>3 DEF Record, Outcome, Claimable, Finished
  <2>4. CASE Audit(a) \/ FinishFailed(a) \/ VanishJob(a)
    BY <2>4 DEF Audit, FinishFailed, VanishJob, Stop, Finished
  <2> QED BY <1>1, <2>1, <2>2, <2>3, <2>4 DEF StepJob
<1>2. ASSUME NEW a \in JobTicks, NEW j \in Jobs, ClaimJob(a, j) PROVE Typed'
  BY <1>2 DEF ClaimJob
<1>3. ASSUME NEW j \in Jobs, Schedule(j) PROVE Typed'
  BY <1>3 DEF Schedule, Claimable
<1>4. ASSUME NEW s \in Switches, Flip(s) PROVE Typed'
  BY <1>4, JobsAssumption DEF Flip
<1>5. ASSUME NEW x \in Replies, QueueReply(x) PROVE Typed'
  BY <1>5 DEF QueueReply
<1>6. CASE MinutePasses \/ UNCHANGED jobVars
  BY <1>6 DEF MinutePasses, jobVars
<1> QED BY <1>1, <1>2, <1>3, <1>4, <1>5, <1>6 DEF Next, vars

-----------------------------------------------------------------------------
(* Jobs and the queue.                                                     *)

Composer(a) ==
  doing[a] \in Composing =>
    /\ job[has[a]] \in {"CLAIMED", "FAILED"}
    /\ doing[a] # "dispatched" => row[has[a]] = "ABSENT"
    /\ doing[a] = "dispatched" => row[has[a]] # "ABSENT"
    /\ \A b \in JobTicks : doing[b] \in Composing /\ has[b] = has[a] => b = a

Agreed == /\ JobAgreesWithQueue
          /\ \A a \in JobTicks : Composer(a)

\* The delivery worker neither makes a row nor removes one.
LEMMA DeliverKeepsRows ==
  QueueInv /\ Deliver => \A m \in Messages : row'[m] = "ABSENT" <=> row[m] = "ABSENT"
<1> SUFFICES ASSUME QueueInv, NEW d \in Ticks,
                    ClaimSome(d) \/ Proceed(d) \/ Vanish(d)
             PROVE  \A m \in Messages : row'[m] = "ABSENT" <=> row[m] = "ABSENT"
  BY DEF Deliver
<1>1. Holds(d) => claimed[d].id \in Messages /\ row[claimed[d].id] # "ABSENT"
  BY DEF QueueInv, Holding, Holds, Busy
<1>2. CASE ClaimSome(d)
  BY <1>2 DEF ClaimSome, Claim, QueueInv, QueueTypeOK, Waiting
<1>3. CASE Proceed(d) \/ Vanish(d)
  BY <1>1, <1>3 DEF Holds, Busy, Proceed, Vanish, Accepted, Refused, MarkSent, MarkRetry,
                    AfterFailure, queueTables, QueueInv, QueueTypeOK
<1> QED BY <1>2, <1>3

LEMMA InitAgreed == Init => Agreed
<1> QED BY JobsAssumption DEF Init, QueueInit, Agreed, JobAgreesWithQueue, Composer

LEMMA StepAgreed == Typed /\ QueueInv /\ Agreed /\ [Next]_vars => Agreed'
<1> SUFFICES ASSUME Typed, QueueInv, Agreed, [Next]_vars PROVE Agreed'
  OBVIOUS
<1> USE DEF Typed
<1>0. Jobs \subseteq Messages /\ row \in [Messages -> Waiting \cup Settled \cup {"ABSENT", "SENDING"}]
  BY JobsAssumption DEF QueueInv, QueueTypeOK
<1>1. ASSUME NEW a \in JobTicks, StepJob(a) \/ Throw(a) \/ VanishJob(a) PROVE Agreed'
  <2>1. CASE ReadProfile(a) \/ ReadPolicy(a) \/ ReadPreference(a) \/ CountRecent(a)
             \/ ReadTemplate(a) \/ Throw(a)
    BY <2>1 DEF ReadProfile, ReadPolicy, ReadPreference, CountRecent, ReadTemplate, AfterPolicy,
                Throw, Ask, Continue, queueVars, Agreed, JobAgreesWithQueue, Composer
  <2>2. CASE EnqueueMessage(a)
    <3>1. row' = [row EXCEPT ![has[a]] = "QUEUED"] /\ has[a] \in Jobs
      BY <2>2 DEF EnqueueMessage, Enqueue, Agreed, Composer
    <3> QED BY <1>0, <2>2, <3>1 DEF EnqueueMessage, Agreed, JobAgreesWithQueue, Composer, Claimable
  <2>3. CASE Record(a)
    <3>1. job' = [job EXCEPT ![has[a]] = Outcome[doing[a]]] /\ has[a] \in Jobs
      BY <2>3 DEF Record
    <3>2. JobAgreesWithQueue'
      BY <2>3, <3>1 DEF Record, Outcome, queueVars, Agreed, JobAgreesWithQueue, Composer,
                        Claimable
    <3>3. \A b \in JobTicks : Composer(b)'
      BY <2>3, <3>1 DEF Record, queueVars, Agreed, Composer
    <3> QED BY <3>2, <3>3 DEF Agreed
  <2>4. CASE Audit(a) \/ FinishFailed(a) \/ VanishJob(a)
    BY <2>4 DEF Audit, FinishFailed, VanishJob, Stop, queueVars, Agreed, JobAgreesWithQueue,
                Composer, Claimable
  <2> QED BY <1>1, <2>1, <2>2, <2>3, <2>4 DEF StepJob
<1>2. ASSUME NEW a \in JobTicks, NEW j \in Jobs, ClaimJob(a, j) PROVE Agreed'
  <2>1. \A b \in JobTicks : doing[b] \in Composing => has[b] # j
    BY <1>2 DEF ClaimJob, Agreed, Composer, Claimable
  <2>2. row[j] = "ABSENT"
    BY <1>2 DEF ClaimJob, Agreed, JobAgreesWithQueue
  <2> QED BY <1>2, <2>1, <2>2 DEF ClaimJob, queueVars, Agreed, JobAgreesWithQueue, Composer,
                                  Claimable
<1>3. ASSUME NEW j \in Jobs, Schedule(j) PROVE Agreed'
  BY <1>3 DEF Schedule, queueVars, Agreed, JobAgreesWithQueue, Composer, Claimable
<1>4. ASSUME NEW s \in Switches, Flip(s) PROVE Agreed'
  BY <1>4 DEF Flip, queueVars, Agreed, JobAgreesWithQueue, Composer
<1>5. ASSUME NEW x \in Replies, QueueReply(x) PROVE Agreed'
  BY <1>5 DEF QueueReply, queueVars, Agreed, JobAgreesWithQueue, Composer
<1>6. CASE MinutePasses \/ UNCHANGED vars
  BY <1>6 DEF MinutePasses, queueVars, jobVars, vars, Agreed, JobAgreesWithQueue, Composer
<1>7. CASE Deliver /\ UNCHANGED jobVars
  <2>1. \A j \in Jobs : row'[j] = "ABSENT" <=> row[j] = "ABSENT"
    BY <1>0, <1>7, DeliverKeepsRows
  <2>2. JobAgreesWithQueue'
    BY <1>7, <2>1 DEF jobVars, Agreed, JobAgreesWithQueue
  <2>3. \A a \in JobTicks : Composer(a)'
    BY <1>7, <2>1 DEF jobVars, Agreed, Composer
  <2> QED BY <2>2, <2>3 DEF Agreed
<1> QED BY <1>1, <1>2, <1>3, <1>4, <1>5, <1>6, <1>7 DEF Next

-----------------------------------------------------------------------------
(* Opting out.                                                             *)

\* What a tick has asked about when it comes to a query.
AskedBefore ==
  [profile |-> {}, policy |-> {"automation"},
   preference |-> {"automation", "marketing", "transactional"},
   rate |-> AllSwitches \ {"template"}, template |-> AllSwitches \ {"template"},
   enqueue |-> AllSwitches]

Mindful(a) ==
  /\ offSince[a] \cap on = {}
  /\ doing[a] \in Asking =>
       Needs(has[a]) \cap AskedBefore[doing[a]] \cap offSince[a] = {}

AllMindful == \A a \in JobTicks : Mindful(a)

LEMMA InitMindful == Init => AllMindful
<1> QED BY DEF Init, AllMindful, Mindful

LEMMA StepMindful == Typed /\ AllMindful /\ [Next]_vars => AllMindful'
<1> SUFFICES ASSUME Typed, AllMindful, [Next]_vars PROVE AllMindful'
  OBVIOUS
<1> USE DEF Typed
<1>1. ASSUME NEW a \in JobTicks, StepJob(a) \/ Throw(a) \/ VanishJob(a) PROVE AllMindful'
  <2>1. on' = on /\ \A b \in JobTicks \ {a} :
          doing'[b] = doing[b] /\ has'[b] = has[b] /\ offSince'[b] = offSince[b]
    BY <1>1 DEF StepJob, ReadProfile, ReadPolicy, ReadPreference, CountRecent, ReadTemplate, Ask,
                Continue, EnqueueMessage, Record, Audit, FinishFailed, Stop, Throw, VanishJob
  <2>2. Mindful(a)'
    <3>0. Mindful(a)
      BY DEF AllMindful
    <3>1. CASE ReadProfile(a)
      BY <3>0, <3>1 DEF ReadProfile, Ask, Continue, Mindful, AskedBefore
    <3>2. CASE ReadPolicy(a)
      BY <3>0, <3>2 DEF ReadPolicy, Ask, Continue, Mindful, AskedBefore
    <3>3. CASE ReadPreference(a)
      BY <3>0, <3>3 DEF ReadPreference, Ask, Continue, Mindful, AskedBefore, AllSwitches
    <3>4. CASE CountRecent(a)
      <4>1. has[a] \notin Templated => "template" \notin Needs(has[a])
        BY DEF Needs
      <4> QED BY <3>0, <3>4, <4>1 DEF CountRecent, AfterPolicy, Continue, Mindful, AskedBefore
    <3>5. CASE ReadTemplate(a)
      BY <3>0, <3>5 DEF ReadTemplate, Ask, Continue, Mindful, AskedBefore
    <3>6. CASE EnqueueMessage(a) \/ Record(a) \/ Throw(a)
      BY <3>0, <3>6 DEF EnqueueMessage, Record, Throw, Continue, Mindful
    <3>7. CASE Audit(a) \/ FinishFailed(a) \/ VanishJob(a)
      BY <3>7 DEF Audit, FinishFailed, VanishJob, Stop, Mindful
    <3> QED BY <1>1, <3>1, <3>2, <3>3, <3>4, <3>5, <3>6, <3>7 DEF StepJob
  <2> QED BY <2>1, <2>2 DEF AllMindful, Mindful
<1>2. ASSUME NEW a \in JobTicks, NEW j \in Jobs, ClaimJob(a, j) PROVE AllMindful'
  BY <1>2 DEF ClaimJob, AllMindful, Mindful, AskedBefore
<1>3. ASSUME NEW s \in Switches, Flip(s) PROVE AllMindful'
  BY <1>3 DEF Flip, AllMindful, Mindful
<1>4. CASE (\E j \in Jobs : Schedule(j)) \/ (\E x \in Replies : QueueReply(x))
           \/ MinutePasses \/ UNCHANGED jobVars
  BY <1>4 DEF Schedule, QueueReply, MinutePasses, jobVars, AllMindful, Mindful
<1> QED BY <1>1, <1>2, <1>3, <1>4 DEF Next, vars

-----------------------------------------------------------------------------
(* The limit per minute.                                                   *)

Passed == {a \in JobTicks : doing[a] \in {"template", "enqueue"}}
Counting == recent \cap Jobs

Measured == /\ IsFiniteSet(recent)
            /\ Cardinality(Counting) + Cardinality(Passed)
                 <= MaxPerMinute + Cardinality(JobTicks) - 1

LEMMA Finite == /\ IsFiniteSet(JobTicks) /\ Cardinality(JobTicks) \in Nat
                /\ IsFiniteSet(Passed) /\ Cardinality(Passed) \in 0 .. Cardinality(JobTicks)
                /\ IsFiniteSet(Counting) /\ Cardinality(Counting) \in Nat
                /\ MaxPerMinute \in Nat \ {0}
<1>1. IsFiniteSet(JobTicks) /\ IsFiniteSet(Jobs)
  BY JobsAssumption, FS_Subset
<1>2. Passed \subseteq JobTicks /\ Counting \subseteq Jobs
  BY DEF Passed, Counting
<1> QED BY <1>1, <1>2, FS_Subset, FS_CardinalityType, JobsAssumption

LEMMA InitMeasured == Init => Measured
<1> SUFFICES ASSUME Init PROVE Measured
  OBVIOUS
<1>1. recent = {} /\ Counting = {} /\ Passed = {}
  BY DEF Init, Counting, Passed
<1>2. Cardinality({}) = 0 /\ IsFiniteSet({})
  BY FS_EmptySet
<1> QED BY <1>1, <1>2, Finite DEF Measured

LEMMA FewerMeasured ==
  ASSUME Measured, recent' \subseteq recent, Passed' \subseteq Passed
  PROVE  Measured'
<1>1. IsFiniteSet(recent') /\ Counting' \subseteq Counting
  BY FS_Subset DEF Measured, Counting
<1>2. /\ Cardinality(Counting') \in Nat /\ Cardinality(Counting') <= Cardinality(Counting)
      /\ Cardinality(Passed') \in Nat /\ Cardinality(Passed') <= Cardinality(Passed)
  BY <1>1, Finite, FS_Subset, FS_CardinalityType
<1> QED BY <1>1, <1>2, Finite DEF Measured

LEMMA StepMeasured == Typed /\ Measured /\ [Next]_vars => Measured'
<1> SUFFICES ASSUME Typed, Measured, [Next]_vars PROVE Measured'
  OBVIOUS
<1> USE DEF Typed
<1>1. ASSUME NEW a \in JobTicks, CountRecent(a) PROVE Measured'
  <2>1. recent' = recent /\ Counting' = Counting
    BY <1>1 DEF CountRecent, Continue, Counting
  <2>2. CASE Cardinality(recent) >= MaxPerMinute
    <3>1. Passed' \subseteq Passed
      BY <1>1, <2>2 DEF CountRecent, Continue, Passed
    <3> QED BY <2>1, <3>1, FewerMeasured
  <2>3. CASE ~(Cardinality(recent) >= MaxPerMinute)
    <3>1. /\ Cardinality(recent) \in Nat
          /\ Cardinality(Counting) <= Cardinality(recent)
      BY FS_Subset, FS_CardinalityType DEF Measured, Counting
    <3>2. Passed' \subseteq JobTicks
      BY DEF Passed
    <3>3. Cardinality(Passed') \in Nat /\ Cardinality(Passed') <= Cardinality(JobTicks)
      BY <3>2, Finite, FS_Subset, FS_CardinalityType
    <3> QED BY <2>1, <2>3, <3>1, <3>3, Finite DEF Measured
  <2> QED BY <2>2, <2>3
<1>2. ASSUME NEW a \in JobTicks, EnqueueMessage(a) PROVE Measured'
  <2>1. a \in Passed /\ Passed' = Passed \ {a}
    BY <1>2 DEF EnqueueMessage, Passed
  <2>2. Cardinality(Passed') = Cardinality(Passed) - 1
    BY <2>1, Finite, FS_RemoveElement
  <2>3. recent' \subseteq recent \cup {has[a]}
    BY <1>2 DEF EnqueueMessage
  <2>4. IsFiniteSet(recent \cup {has[a]})
    BY FS_AddElement DEF Measured
  <2>5. IsFiniteSet(recent')
    BY <2>3, <2>4, FS_Subset
  <2>6. Counting' \subseteq Counting \cup {has[a]}
    BY <2>3 DEF Counting
  <2>7. /\ IsFiniteSet(Counting \cup {has[a]})
        /\ Cardinality(Counting \cup {has[a]}) \in Nat
        /\ Cardinality(Counting \cup {has[a]}) <= Cardinality(Counting) + 1
    <3>1. /\ IsFiniteSet(Counting \cup {has[a]})
          /\ Cardinality(Counting \cup {has[a]}) =
               IF has[a] \in Counting THEN Cardinality(Counting) ELSE Cardinality(Counting) + 1
      BY Finite, FS_AddElement
    <3> QED BY <3>1, Finite
  <2>8. Cardinality(Counting') \in Nat /\ Cardinality(Counting') <= Cardinality(Counting) + 1
    BY <2>6, <2>7, FS_Subset, FS_CardinalityType, Finite
  <2> QED BY <2>2, <2>5, <2>8, Finite DEF Measured
<1>3. ASSUME NEW x \in Replies, QueueReply(x) PROVE Measured'
  <2>1. Counting' = Counting /\ Passed' = Passed
    BY <1>3, JobsAssumption DEF QueueReply, Counting, Passed
  <2>2. IsFiniteSet(recent')
    BY <1>3, FS_AddElement DEF QueueReply, Measured
  <2> QED BY <2>1, <2>2 DEF Measured
<1>4. ASSUME NEW a \in JobTicks,
             \/ ReadProfile(a) \/ ReadPolicy(a) \/ ReadPreference(a) \/ ReadTemplate(a)
             \/ Throw(a) \/ Record(a) \/ Audit(a) \/ FinishFailed(a) \/ VanishJob(a)
             \/ \E j \in Jobs : ClaimJob(a, j)
      PROVE Measured'
  <2>1. recent' = recent /\ Passed' \subseteq Passed
    BY <1>4 DEF ReadProfile, ReadPolicy, ReadPreference, ReadTemplate, Ask, Continue, Throw, Record,
                Audit, FinishFailed, VanishJob, Stop, ClaimJob, Passed
  <2> QED BY <2>1, FewerMeasured
<1>5. CASE \/ \E j \in Jobs : Schedule(j)
           \/ \E s \in Switches : Flip(s)
           \/ MinutePasses \/ UNCHANGED jobVars
  <2>1. recent' \subseteq recent /\ Passed' = Passed
    BY <1>5 DEF Schedule, Flip, MinutePasses, jobVars, Passed
  <2> QED BY <2>1, FewerMeasured
<1> QED BY <1>1, <1>2, <1>3, <1>4, <1>5 DEF Next, StepJob, vars

-----------------------------------------------------------------------------
(* The theorems.                                                           *)

DispatchInv == Typed /\ QueueInv /\ Agreed /\ AllMindful /\ Measured

\* The dispatcher's invariant holds throughout, together with the queue's.
THEOREM DispatchInvariance == Spec => []DispatchInv
<1>1. Init => DispatchInv
  BY InitTyped, InitQueue, InitAgreed, InitMindful, InitMeasured DEF Init, DispatchInv
<1>2. DispatchInv /\ [Next]_vars => DispatchInv'
  BY QueueStep, StepTyped, StepQueue, StepAgreed, StepMindful, StepMeasured DEF DispatchInv
<1> QED BY <1>1, <1>2, PTL DEF Spec

\* Jobs, ticks, switches and the queue keep their types.
THEOREM DispatchTyped == Spec => []TypeOK
<1>1. DispatchInv => TypeOK
  BY DEF DispatchInv, QueueInv, Typed, TypeOK
<1> QED BY <1>1, DispatchInvariance, PTL

\* A waiting or skipped job has no row in the queue, a dispatched job has one.
THEOREM JobsAgree == Spec => []JobAgreesWithQueue
<1>1. DispatchInv => JobAgreesWithQueue
  BY DEF DispatchInv, Agreed
<1> QED BY <1>1, DispatchInvariance, PTL

\* A switch that is off from the claim on stops the message.
THEOREM OptOutRespected == Spec => []OptOutHolds
<1>1. DispatchInv => OptOutHolds
  <2> SUFFICES ASSUME DispatchInv, NEW a \in JobTicks, doing[a] = "enqueue"
               PROVE  Needs(has[a]) \cap offSince[a] = {}
    BY DEF OptOutHolds
  <2>1. Needs(has[a]) \cap AllSwitches \cap offSince[a] = {}
    BY DEF DispatchInv, AllMindful, Mindful, AskedBefore
  <2>2. offSince[a] \subseteq AllSwitches
    BY DEF DispatchInv, Typed
  <2> QED BY <2>1, <2>2
<1> QED BY <1>1, DispatchInvariance, PTL

\* The limit per minute is passed by no more messages than ticks overlap.
THEOREM RateBounded == Spec => []RateNearlyKept
<1>1. DispatchInv => RateNearlyKept
  BY Finite DEF DispatchInv, Measured, Counting, RateNearlyKept
<1> QED BY <1>1, DispatchInvariance, PTL
=============================================================================
