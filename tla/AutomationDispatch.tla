------------------------- MODULE AutomationDispatch -------------------------
(***************************************************************************)
(* Automation jobs (confirmations, reminders, campaigns, surveys) and the  *)
(* ticks that turn a due job into a row of the outbound queue.  A job is   *)
(* scheduled once per dedupe key.  A tick claims a job and then asks, one  *)
(* query after another and without a lock, whether the customer and the    *)
(* business still want the message; both may change their minds between    *)
(* two queries.  Each query may throw, before or after its commit: the     *)
(* catch of the tick then records the job as failed.                       *)
(*                                                                         *)
(* Composed with DeliveryQueue: the job's message is the row of the queue  *)
(* whose idempotency key is automation:<job id>.                           *)
(***************************************************************************)
EXTENDS DeliveryQueue

CONSTANTS Jobs,          \* dedupe keys; each is also the key of its message
          Marketing,     \* jobs whose payload says marketing: true
          Templated,     \* jobs that name a template instead of a text
          Blank,         \* jobs whose payload lacks a text or a recipient
          JobTicks,      \* bound: dispatcher ticks in flight
          NoJob,
          Switches,      \* bound: the switches that are flipped during a run
          Replies,       \* messages other callers queue, counted here only
          MaxPerMinute   \* max_messages_per_minute

AllSwitches == {"automation", "marketing", "transactional", "whatsapp", "consent", "template"}

ASSUME JobsAssumption ==
  /\ Jobs \subseteq Messages
  /\ NoJob \notin Jobs /\ Replies \cap Jobs = {} /\ IsFiniteSet(Jobs \cup JobTicks)
  /\ Marketing \subseteq Jobs /\ Templated \subseteq Jobs /\ Blank \subseteq Jobs
  /\ Switches \subseteq AllSwitches
  /\ MaxPerMinute \in Nat \ {0}

VARIABLES job,     \* status of each job, "ABSENT" before it is scheduled
          on,      \* what is switched on: no opt-outs, consent, policy, template
          recent,  \* messages queued during the last minute
          doing,   \* where each tick is
          has,     \* the job each tick works on
          offSince \* history: switches off ever since the tick claimed its job

jobVars == <<job, on, recent, doing, has, offSince>>
vars == <<queueVars, jobVars>>

Claimable == {"QUEUED", "DEFERRED"}
Finished == {"DISPATCHED", "SKIPPED", "FAILED"}

\* The try block of a tick, in the order of its queries.
Asking == {"profile", "policy", "preference", "rate", "template", "enqueue"}
Recording == {"dispatched", "skip", "defer"}
Composing == Asking \cup Recording
Working == Composing \cup {"audit", "catch"}

\* The switches a job's message depends on (every job has one customer).
Needs(j) ==
  {"automation", "whatsapp"}
    \cup (IF j \in Marketing THEN {"marketing", "consent"} ELSE {"transactional"})
    \cup (IF j \in Templated THEN {"template"} ELSE {})

Init ==
  /\ QueueInit
  /\ job = [j \in Jobs |-> "ABSENT"]
  /\ on = AllSwitches
  /\ recent = {}
  /\ doing = [a \in JobTicks |-> "idle"]
  /\ has = [a \in JobTicks |-> NoJob]
  /\ offSince = [a \in JobTicks |-> {}]
-----------------------------------------------------------------------------
\* Mutated form: a repeated schedule makes the job due again.
ScheduleAgain(j) ==
  /\ job' = [job EXCEPT ![j] = "QUEUED"]
  /\ UNCHANGED <<queueVars, on, recent, doing, has, offSince>>

\* schedule: INSERT ... ON CONFLICT(tenant_id, dedupe_key) DO NOTHING.
Schedule(j) ==
  /\ job' = [job EXCEPT ![j] = IF @ = "ABSENT" THEN "QUEUED" ELSE @]
  /\ UNCHANGED <<queueVars, on, recent, doing, has, offSince>>

\* claim, then the first guard of the tick: is there anything to send?
ClaimJob(a, j) ==
  /\ doing[a] = "idle"
  /\ job[j] \in Claimable
  /\ job' = [job EXCEPT ![j] = "CLAIMED"]
  /\ has' = [has EXCEPT ![a] = j]
  /\ doing' = [doing EXCEPT ![a] = IF j \in Blank THEN "skip" ELSE "profile"]
  /\ offSince' = [offSince EXCEPT ![a] = AllSwitches \ on]
  /\ UNCHANGED <<queueVars, on, recent>>

Continue(a, label) ==
  /\ doing' = [doing EXCEPT ![a] = label]
  /\ UNCHANGED <<queueVars, job, on, recent, has, offSince>>

\* A question of the tick: the switches it reads, and where it goes from there.
Ask(a, here, switches, next) ==
  /\ doing[a] = here
  /\ Continue(a, IF switches \subseteq on THEN next ELSE "skip")

\* getCustomerProfile: automation_opt_out.
ReadProfile(a) == Ask(a, "profile", {"automation"}, "policy")

\* evaluate, getPolicy: marketing_enabled or transactional_enabled.
ReadPolicy(a) ==
  Ask(a, "policy", Needs(has[a]) \cap {"marketing", "transactional"}, "preference")

\* Mutated form: a transactional message does not ask for the preference.
ReadPreferenceMarketing(a) ==
  IF has[a] \in Marketing
  THEN Ask(a, "preference", {"whatsapp", "consent"}, "rate")
  ELSE doing[a] = "preference" /\ Continue(a, "rate")

\* evaluate, getPreference, then quiet hours and weekdays, left open here.
ReadPreference(a) ==
  \/ Ask(a, "preference", Needs(has[a]) \cap {"whatsapp", "consent"}, "rate")
  \/ /\ doing[a] = "preference"
     /\ Needs(has[a]) \cap {"whatsapp", "consent"} \subseteq on
     /\ Continue(a, "defer")

AfterPolicy(a) == IF has[a] \in Templated THEN "template" ELSE "enqueue"

\* evaluate, countRecentDeliveries: too many in the last minute, try later.
CountRecent(a) ==
  /\ doing[a] = "rate"
  /\ Continue(a, IF Cardinality(recent) >= MaxPerMinute THEN "defer" ELSE AfterPolicy(a))

ReadTemplate(a) == Ask(a, "template", {"template"}, "enqueue")

\* delivery.enqueue with the key automation:<job id>.
EnqueueMessage(a) ==
  /\ doing[a] = "enqueue"
  /\ Enqueue(has[a])
  /\ recent' = IF row[has[a]] = "ABSENT" THEN recent \cup {has[a]} ELSE recent
  /\ doing' = [doing EXCEPT ![a] = "dispatched"]
  /\ UNCHANGED <<job, on, has, offSince>>

\* finish and defer: an UPDATE by id whatever the status is, then the audit row.
Outcome == [dispatched |-> "DISPATCHED", skip |-> "SKIPPED", defer |-> "DEFERRED"]

\* Mutated form: the job is recorded before its message is queued.
RecordFirst(a) ==
  /\ doing[a] \in Recording \cup {"enqueue"}
  /\ job' = [job EXCEPT ![has[a]] =
               IF doing[a] = "enqueue" THEN "DISPATCHED" ELSE Outcome[doing[a]]]
  /\ doing' = [doing EXCEPT ![a] = "audit"]
  /\ UNCHANGED <<queueVars, on, recent, has, offSince>>

Record(a) ==
  /\ doing[a] \in Recording
  /\ job' = [job EXCEPT ![has[a]] = Outcome[doing[a]]]
  /\ doing' = [doing EXCEPT ![a] = "audit"]
  /\ UNCHANGED <<queueVars, on, recent, has, offSince>>

Stop(a) ==
  /\ doing' = [doing EXCEPT ![a] = "idle"]
  /\ has' = [has EXCEPT ![a] = NoJob]
  /\ offSince' = [offSince EXCEPT ![a] = {}]

Audit(a) ==
  /\ doing[a] = "audit"
  /\ Stop(a)
  /\ UNCHANGED <<queueVars, job, on, recent>>

\* Any query of the try block throws, the audit rows of finish and defer too.
Throw(a) ==
  /\ doing[a] \in Composing \cup {"audit"}
  /\ Continue(a, "catch")

\* The catch: finish(FAILED), whatever the try block had recorded.
FinishFailed(a) ==
  /\ doing[a] = "catch"
  /\ job' = [job EXCEPT ![has[a]] = "FAILED"]
  /\ Stop(a)
  /\ UNCHANGED <<queueVars, on, recent>>

\* The tick disappears with its process, or its catch throws.
VanishJob(a) ==
  /\ doing[a] \in Working
  /\ Stop(a)
  /\ UNCHANGED <<queueVars, job, on, recent>>
-----------------------------------------------------------------------------
\* STOP and START messages, the profile, the policy and template editors.
Flip(s) ==
  /\ on' = IF s \in on THEN on \ {s} ELSE on \cup {s}
  /\ offSince' = [a \in JobTicks |->
                    IF s \in on THEN offSince[a] ELSE offSince[a] \ {s}]
  /\ UNCHANGED <<queueVars, job, recent, doing, has>>

\* Rows grow older than a minute.
MinutePasses ==
  /\ recent' \in SUBSET recent
  /\ UNCHANGED <<queueVars, job, on, doing, has, offSince>>

\* Replies of the AI receptionist are queued as well; what becomes of their
\* rows is DeliveryQueue's subject, but the limit per minute counts them.
QueueReply(x) ==
  /\ recent' = recent \cup {x}
  /\ UNCHANGED <<queueVars, job, on, doing, has, offSince>>

StepJob(a) ==
  \/ ReadProfile(a) \/ ReadPolicy(a) \/ ReadPreference(a) \/ CountRecent(a)
  \/ ReadTemplate(a) \/ EnqueueMessage(a) \/ Record(a) \/ Audit(a) \/ FinishFailed(a)

Next ==
  \/ \E j \in Jobs : Schedule(j)
  \/ \E a \in JobTicks : \/ \E j \in Jobs : ClaimJob(a, j)
                         \/ StepJob(a) \/ Throw(a) \/ VanishJob(a)
  \/ \E s \in Switches : Flip(s)
  \/ \E x \in Replies : QueueReply(x)
  \/ MinutePasses
  \/ Deliver /\ UNCHANGED jobVars

Spec == Init /\ [][Next]_vars

\* Timers keep starting ticks of both workers and every query is answered.  A
\* due job is claimed in the end although others keep coming back: jobs are
\* claimed in the order of available_at, which each deferral moves forward.
FairSpec ==
  /\ Spec
  /\ \A a \in JobTicks : WF_vars(StepJob(a))
  /\ \A j \in Jobs : SF_vars(\E a \in JobTicks : ClaimJob(a, j))
  /\ \A d \in Ticks :
       /\ WF_vars(ClaimSome(d) /\ UNCHANGED jobVars)
       /\ WF_vars(Proceed(d) /\ UNCHANGED jobVars)
-----------------------------------------------------------------------------
\* Jobs, ticks and switches.
TypeOK ==
  /\ QueueTypeOK
  /\ job \in [Jobs -> Claimable \cup Finished \cup {"ABSENT", "CLAIMED"}]
  /\ on \in SUBSET AllSwitches
  /\ recent \in SUBSET (Jobs \cup Replies)
  /\ doing \in [JobTicks -> Working \cup {"idle"}]
  /\ has \in [JobTicks -> Jobs \cup {NoJob}]
  /\ offSince \in [JobTicks -> SUBSET AllSwitches]

\* The status of a job agrees with the queue: nothing was queued for a job that
\* is waiting or was skipped, and a dispatched job has its row.
JobAgreesWithQueue ==
  \A j \in Jobs :
    /\ job[j] \in Claimable \cup {"ABSENT", "SKIPPED"} => row[j] = "ABSENT"
    /\ job[j] = "DISPATCHED" => row[j] # "ABSENT"

\* A customer who opted out before the tick began, a campaign without consent,
\* a message type or template switched off: while it stays so nothing is queued.
OptOutHolds ==
  \A a \in JobTicks : doing[a] = "enqueue" => Needs(has[a]) \cap offSince[a] = {}

\* The limit per minute is checked before the insert and without a lock, so
\* ticks may pass it together; they exceed it by at most one message each.
RateNearlyKept ==
  Cardinality(recent \cap Jobs) <= MaxPerMinute + Cardinality(JobTicks) - 1

\* A job that a vanished tick left behind in CLAIMED.
Abandoned(j) ==
  job[j] = "CLAIMED" /\ \A a \in JobTicks : has[a] # j

\* A job that is due gets an answer: its message reaches the provider or is
\* given up on, or the job is skipped, deferred or failed, or a tick of one of
\* the two workers vanished while it had the job or its row.
EventuallyAnswered ==
  \A j \in Jobs :
    job[j] = "QUEUED" ~> \/ job[j] \in {"SKIPPED", "DEFERRED", "FAILED"}
                         \/ row[j] \in Settled
                         \/ Abandoned(j) \/ Orphan(j)
=============================================================================
