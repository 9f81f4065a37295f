# WSadmin Business in TLA+

WSadmin Business is a booking system for small businesses: a Fastify API, a
React application and a worker over one PostgreSQL database, with WhatsApp
(Evolution API), HitPay and language models outside. It is multi-tenant; a
tenant sees only its own rows, so every module but `TenantAccess` models one.

This directory holds TLA+ specifications of the parts in which several
requests, ticks, webhooks or browser tabs can get in each other's way, TLC
configurations that check them on small instances, and TLAPS proofs that every
invariant and every action property the runs check holds for every value of the
constants; liveness stays with TLC.
All paths below are relative to `src/`.

    tlc -workers 2 -config Booking_batch.cfg MCBooking   # a run
    tlapm BookingProofs.tla                              # the proofs

`PROJECT.json` lists the components, the runs, the theorems, the hazards, the
findings, a mutated form of some definition for every property (under which
the property fails), and the source lines every definition stands for.

## 1. Inventory

How the parts fit together:

    web, public pages ----\                               /--> AutomationJobs --\
    WhatsApp webhook --> inbox, flows, AI --> BookingService --> planners        |
    dashboard ------------/        |               |                             v
                                   |          PostgreSQL rows        worker: dispatcher tick
    HitPay webhooks --> billing    v                                             |
    payment webhooks --> payments  whatsapp_outbound_deliveries <----------------/
                                   |
                                   v
                          worker: delivery tick --> Evolution API --> customer

Processes share nothing but the database (Redis carries a heartbeat only).
There are no queues in memory: a "queue" is a table, a claim is an `UPDATE`
with `FOR UPDATE SKIP LOCKED`. Almost every service method is a sequence of
awaited single statements outside a transaction, so the interleaving points
are the awaits; the exceptions are the booking writes, refunds, taught answers
and first logins, which are transactions.

| component | state it keeps | operations | what is hard | what makes it correct |
|---|---|---|---|---|
| Booking service (`booking`, `database/bookings.ts`) | `bookings`, audit events | create, batch, reschedule, confirm, cancel, complete, no-show | unlocked check, then locks, counts and writes; batches; deadlocks; edits of staff and resources meanwhile | no overbooking; batches all or nothing; the lifecycle; a replayable audit trail; every call answered |
| Availability, calendar blocks (`availability`, `calendar`) | hours, breaks, leave, blocks | check a window, list slots | time zones, recurrence, boundaries of windows | a slot that is shown is free by every rule |
| Booking policy (`booking-policy`) | one row per tenant | read, update, evaluate | asked before the transaction; read-merge-write | a start outside the policy is refused |
| Advanced booking (`advanced-booking`) | tentative requests, memberships | propose, approve, decline, consume | approve books first and resolves second | one booking per approved request, none for a declined one |
| Delivery queue (`whatsapp-delivery`) | `whatsapp_outbound_deliveries` | enqueue, claim, send, mark | overlapping ticks, lost answers, crashes | one tick per row, bounded attempts, truthful status |
| Automation (`automation`) | `automation_jobs`, audit, rules, policies, consents | plan, claim, evaluate, dispatch, defer | opt-out racing the dispatcher, two-step finish, rate limit by counting | no message after an opt-out; job and queue agree; every due job is answered |
| Marketing (`automation/marketing.ts`) | campaigns, recipients, surveys | plan, replan, cancel, submit | replanning and cancelling during planning | one message per recipient and campaign |
| SaaS billing (`saas`) | checkouts, billing events, invoices, subscription | open a checkout, reconcile webhooks, override | lost answers, webhooks repeated and reordered, crash between record and effect | a plan is active only when paid or granted |
| Entitlements, onboarding (`saas`) | usage counters, onboarding steps | assert, consume, save step | assert and increment are two statements | quota not exceeded |
| Customer payments (`payments`) | payments, refunds, webhook events | create, reconcile, refund, artifact | overlapping refunds, crash between provider and row | never refund more than was paid |
| Conversation (`whatsapp`, `inbox`, `whatsapp-booking`) | conversations, messages, sessions, replies | ingest, project, booking flow, management flow | webhook redelivery, unlocked sessions, replies in a table nobody drains | one booking per confirmation; each message answered once |
| AI answers (`ai`) | conversation memory, usage | interpret, route, act, reply | fallback after a good answer, book-then-reply, memory read-merge-write | what the customer is told has happened has happened |
| Knowledge (`ai/knowledge.ts`) | FAQ entries, unanswered questions | search, rank, record, teach, edit | ask racing teach, edit racing edit, normalisation | a taught question is answered the next time |
| Authentication (`auth`) | users, memberships, sessions | first login, login, resolve, logout | two first logins at once; session older than its membership | one user per identity; authority follows membership |
| Staff, resources, services, locations, customers | their tables and links | edit, link, deactivate, merge, blacklist | an edit under a booking in flight | a booking never uses what was switched off before it locked it |
| Treatments, verticals, privacy, dashboard | their tables | single statements | (the overlap of stays is decided by an exclusion constraint) | |
| Web application (`apps/web`) | a copy of the rows each page shows, the tenant of a tab | load, edit a copy, send it back | answers overtaking each other, two tabs, lost answers, copies gone stale | nothing is overwritten that was seen; no request for somebody else's tenant |
| Scripts | none | acceptance runs against a database | | |

## 2. Modules

| module | models | state | kind |
|---|---|---|---|
| `Slots` | windows, staff, resources, crowds | none (operators) | shared |
| `SlotLedger` | what booking promises | who holds which place | abstract specification |
| `BookingTransactions` | `BookingService` and its transactions | tables, row locks, calls | detailed specification |
| `BookingProperties` | invariants, action properties, refinement, the inductive invariant | | properties |
| `BookingProofs` | proofs | | proofs |
| `DeliveryQueue` | the outbound queue and its ticks | rows, ticks, what reached the customer | component |
| `AutomationDispatch` | jobs, dispatcher, consent; EXTENDS `DeliveryQueue` and composes with it | jobs, ticks, preferences | composition |
| `SaasBilling` | checkouts and HitPay webhooks | tables, requests, handlers, HitPay | component |
| `KnowledgeSearch` | how a question finds its sources | none (operators) | algorithm |
| `KnowledgeLearning` | asks, the owner's list, teaching, editing; EXTENDS `KnowledgeSearch` | entries, list, asks, edits | component |
| `OpeningRules` | the availability engine and the booking policy | none (operators) | algorithm |
| `FrontDesk` | public page, tentative requests, `BookingService.create`; EXTENDS `OpeningRules` | rows, bookings, pages, calls | composition |
| `Conversation` | webhook, inbox, both WhatsApp flows, what the AI does | sessions, handlers, bookings | component |
| `CustomerPayments` | payments, refunds, webhooks, the Payments page | rows, calls, the provider | component |
| `TenantAccess` | Google sign-in, sessions, authorization, quotas | users, sessions, tabs, usage | component |
| `WorkspacePages` | the pages that keep copies of rows; onboarding | rows, copies, requests | component |
| `AutomationProofs` (queue and dispatcher), `PaymentsProofs`, `BillingProofs`, `AccessProofs`, `ConversationProofs`, `ConsoleProofs` (pages and knowledge), `DeskProofs` (availability and front desk) | proofs | | proofs |
| `MCBooking`, `MCDelivery`, `MCAutomation`, `MCBilling`, `MCKnowledge`, `MCFrontDesk`, `MCConversation`, `MCPayments`, `MCAccess`, `MCPages` | instances for TLC | | model checking |

### Booking

A call (`Requests`) goes through the labels `pc`: an unlocked check
(`CheckCreate`, `CheckReschedule`, `CheckTransition`: the reads of
`BookingService` and `AvailabilityEngine.check`), then, inside a READ COMMITTED
transaction, the booking row of a move (`LockRow`), the service and a
self-booking customer FOR SHARE (`LockShared`), the staff member and the
resource FOR UPDATE (`LockStaff`, `LockResource`), the two counts and the write
(`CountAndWrite`), once per date for a batch, and `Commit`. Each of these is a
step, so other calls and administrators run between any two of them. A lock is
membership in `owner[x]`; FOR UPDATE waits until nobody else is in it.
`wrote[p]` holds the rows a transaction has written and nobody else sees.
`DeadlockVictim` is PostgreSQL's deadlock detector, `ConnectionLost` a process
or connection that dies; both roll back. `transitionStatus` takes one lock
and is one step. Hours, blocks, policy and options only narrow the candidates
a call may start with and are left open; prices and notes are payload.

### Delivery and automation

A tick of the worker claims one row (`Claim`: the attempt is counted and the row
becomes SENDING, committed), sends (`Accepted` or `Refused`: the provider has
taken the message and answers, or its answer is lost, or it refuses), and
records the outcome (`MarkSent`, `MarkRetry`, either of which may fail before or
after its commit). `Vanish` is a process that ends: shutdown does not wait
for ticks. Ticks overlap because `setInterval` does not wait either. How long a
retry waits is left open.

A dispatcher tick claims a job and then reads, one statement at a time, the
profile, the policy, the preference, the recent count and the template, and at
the end enqueues the message, defers the job or refuses it; `Record` is the
two-statement `finish` or the single `defer`. Customers flip their consent
(`Flip`) between any two of these reads.

### Billing

`ReadOverview` to `FailCheckout` are the awaits of `createCheckout`; `Receive`
to `FinishEvent` those of `reconcile`; `HitPay` lets the provider move each
billing through its life and report what happened, with or without our
reference, any report being delivered at any time and any number of times.
`DropRequest` and `DropHook` are queries that throw and processes that end.

### Knowledge

A text is its set of words and a term is found in a text when it is one of its
words (the code looks for substrings, so it finds more, never less).
`KnowledgeSearch` has the three steps of a search: the query (`Normal`, `Terms`,
`TopicsOf`), what the WHERE clauses select (`Selected`, `Broad`) and what the
ranking keeps (`SourceTopics`, `Score`, `Ranked`). A source carries the text the
database searches apart from the text the ranking sees, because they differ.
`KnowledgeLearning` lets customers ask (`Ask`, `Generate`, `Record`, one per
await), owners teach (`Teach`, a transaction), add and edit entries (`BeginEdit`
reads a row, `FinishEdit` writes all of it back; `Given` are the sets of fields a
request gives: all of them from the page, the wording alone from another client).
`DropAsk` and `DropEdit` are queries that throw and processes that end.

### Availability and the front desk

`OpeningRules` has what one availability check computes: the policy
(`EvaluateBookingStart`), the weekly hours, overrides and time off of a person
(`WindowFits`, `OpenFor`), the expansion of repeated blocks with its two
cut-offs, imported events, bookings that count as busy, and the order in which
candidates are tried; and `findAvailabilitySlots`, which offers the starts of a
local date. Beside it stands a definition that looks at every instant of a
window by itself (`ClearAt`), which the run compares what was booked with.

`FrontDesk` puts two ways in on top of it. A visitor of the public page chooses,
sees a list and confirms (`Choose`, `ChooseAgain`, `ShowSlots`, `LoadFails`,
`PickSlot`, `Confirm`, `ShowResult`); a request with candidates is made and
approved (`CreateTentative`, `Approve`, `MarkApproved`). In the server a call is
checked, inserted or refused (`Check`, `Insert`, `Conflict`), may crash between
(`Crash`), and its answer may be lost (`LoseAnswer`). Meanwhile time passes
(`Tick`), bookings are cancelled (`Cancel`) and the owner edits rows (`Edit`).
The page's steps only decide what can be pressed. Options and locations are not
sent by this page; a zone is a fixed shift; a check is one step over one
snapshot (its reads are separate in the code; what may change between the check
and the insert is in the model).

### Conversation

A handler serves one delivery of the webhook. `Receive` is the transaction that
ingests it, once per message (`ON CONFLICT`): a redelivery ends there.
`Project` updates the inbox row and reopens a closed conversation, `Prefer`
stores an opt-out. Then, management flow first, booking flow second, AI last:
`ReadStatus`, `ReadSession`, `ClearExpired`, and a *plan* (`FlowPlans`,
`ManagePlans`, `AiPlans`): which call of the booking service to make, which
session row to write, what is offered, whether a reply is sent. The plan is
carried out by `Succeed` or `Refuse` (the booking service's answer),
`WriteSession` and `Reply`; the AI has `Interpret`, `RecordAiState` and
`Handoff`. `Fail` may end a handler anywhere. Beside the handlers the business
sets the status (`SetStatus`), sessions expire (`Expire`) and the desk cancels
bookings (`DeskCancels`). `offered`, `deeds`, `settled` and `loose` are history
for the properties. A text is the kind of text the code tells apart; a number
may be the 1 that also means yes.

### Customer payments

`Create`, `Checkout`, `Attach` are the awaits of `create`; `Pay` is the
customer; `Deliver`, `Find`, `Apply`, `HookFails`, `Artifact` those of a webhook;
`ReadPayment`, `GatewayRefund`, `RecordRefund`, `Answer`, `CallFails` those of
`refund`, whose idempotency key is the payment and the amount. The page keeps a
copy of the rows and of the payment whose dialog is open (`Refresh`, `ServeList`,
`ShowList`, `OpenRefund`, `Confirm`, `CloseRefund`).

### Access and quotas

`Start` to `OpenSession` take a sign-in from the state cookie through the
callback's transaction (`Find`, `Upsert`, `ReadMembership`, `Commit`, with the
unique indexes deciding about the second of two inserts; `Throw` rolls back) to
a session. Every tab shares the browser's cookie but keeps the tenant it was
loaded with (`Load`, `Logout`, `Expire`). `Send`, `AssertEntitlement`,
`ReadUsage`, `Increment` follow the consumption of a quota, with the System
Owner's `SetSubscription` beside them.

### Workspace pages

A page is a record: the rows it shows, those it has forms for, those its buttons
change. `Open` and `Refresh` send the loads, `Serve` answers one of them,
`FinishLoad` puts the answers on the page, `Lose` drops a request; `Save` sends
the copy of a form, `Write` stores it, `Act` is a button, `Answer` its end.
Onboarding is `SaveStep`, `Complete`, `CheckComplete`, `WriteStep`,
`WriteComplete`, `Stored`: completing reads the checkpoints and writes in two
statements. `World` is everybody else who changes a row.

## 3. Runs

| run | instance | distinct states | shows |
|---|---|---|---|
| `booking_batch` | batch of 2 + single + move or transition; 2 staff, 1 resource, 1 window, capacity 1 | 231 k | types; batches all or nothing; a replayable trail; no overbooking; the lifecycle; only batches deadlock; every call is answered |
| `booking_admin` | 2 calls, 1 staff, 2 overlapping windows; rows switched off and on, links cut, capacities 1..2 edited | 84 k | what was validated stays true; refinement of `SlotLedger` |
| `delivery_queue` | 2 messages, 2 ticks, 3 attempts | 6 k | one tick per row, bounded sends, truthful outcomes, rows settle |
| `automation_dispatch` | reminder with template + campaign message + reply; 2 dispatcher ticks, 1 delivery tick, limit 1 per minute | 486 k | jobs and queue agree, opt-out holds, every due job is answered |
| `knowledge_learning` | 3 questions over 7 words, 2 entries, an ask and two edits in flight, limit 1 | 1.4 M | a taught question is answered again; selection and ranking agree; an edit restores no more than it read |
| `billing_webhooks` | 2 checkouts, 2 requests, 2 handlers, 2 reports | 5.8 M | activation backed by a payment, true outcomes, one handler per event, no lock-out but by a crash |
| `billing_second` | one request after another | 77 | violated: two unfinished billings at HitPay |
| `tenant_access` | 3 sign-ins of 2 Google accounts with one email, a user of before, 2 tabs, plan limit 1, 1 change of plan | 729 k | one tenant per person; sessions of the right person; no request for a tenant the session's user does not belong to; a quota passed by no more than the requests that overlap |
| `pages_console` | 2 tabs, 2 requests, 5 pages, 4 tracked rows, 2 fields, 1 checkpoint, 2 saves | 2.1 M | completed means every checkpoint; a form overwrites only what its page had not been shown |
| `payments_refunds` | a payment of 3 units, 4 calls, 1 tab | 1.0 M | the ledger adds up; more than was paid is refunded only by overlapping refunds, never by retries of one amount; what shows as paid was paid |
| `front_desk` | a day of 6 units, 5 of shift, 3 offers; 1 visit, 1 tentative request, 2 calls, 2 bookings, 1 edit, 1 unit of time | 1.1 M | bookings lie in clear time unless the rows changed after the check; an offer is refused only after a change; a second booking needs a lost answer; an orphan needs overlapping or interrupted approvals |
| `conversation` | 2 messages and redeliveries, 2 handlers, 8 kinds of text, 2 starts, 12 initial states, 1 status change | 4.2 M | nothing is carried out twice, or without having been asked and confirmed, but by overlap or failure; no message is dropped |

Why these bounds suffice. A violation of the booking properties needs two calls
that meet on a unit (a third shows that a cancel or a move may intervene), and a
batch of two has every shape of a batch: a first date, a later date, a failure
in between. Two overlapping windows give every relation two windows can have to
an instant that matters; capacities 1 and 2 separate "full" from "one left". A
queue needs two rows and two ticks to mix them up, and three attempts to have a
first, a middle and a last one. Billing needs two checkouts for one to be
confused with the other and two reports to be out of order. Knowledge needs one
question of each kind: accented, the same one plain, made of common words only;
single words for a topic and for a branch's code are added where the ranking is
checked. Two edits show the one undoing the other. An over-refund needs two
refunds of different amounts under way and a third call to retry one of them;
three units are the least that two amounts can exceed. Two tabs and two
requests are what it takes for a copy to be stale and an answer to overtake
another. The front desk's day of six units with a shift of five has a window
that crosses the local midnight, a break, a block that repeats, and room for two
bookings. A conversation starts in any session an earlier exchange may have
left, so two messages are a whole exchange from every state of either flow.
The proofs lift all of these results but the liveness to every value of the
constants (section 4).

The bounds: `Windows`, `Requests`, `Fresh` (the ids the database will hand
out), `MaxCapacity`, `AdminOps` for booking; `Messages`, `Ticks`, `MaxAttempts`
(5 in the code) for the queue; `Jobs`, `Replies`, `MaxPerMinute` for the
dispatcher; `MaxCheckouts`, `MaxEvents`, `Overrides` for billing; `MaxFaqs`,
`Limit`, `Asks`, `EditCalls`, `Given` for knowledge; `Flows`, `Tabs`, `MaxChanges` for access;
`Tabs`, `Reqs`, `Pages`, `Tracked`, `Steps`, `MaxWrites` for the pages; `Calls`
for payments; `Visits`, `Tentatives`, `Calls`, `Bookings`, `CandidateLists`,
`Edits`, `MaxNow`, `MaxEdits` for the front desk; `Handlers`, `MaxMessages`,
`Says`, `Sets`, `MaxChanges`, `MaxBookings`, `Earlier` for the conversation.
Symmetry is used in runs without liveness properties only.

Deadlock is checked in the booking, queue and dispatcher runs, where a stop
would mean a call nobody answers or a timer that no longer fires. The other
systems come to rest (all reports handled, all messages answered, bounds used
up) and their configurations say so.

The types of the queue's and the dispatcher's state are proved (section 4) and
therefore in no run.

### Fairness

* Booking: weak fairness of each call's next step (the server runs what it has
  accepted) and of `DeadlockVictim` (PostgreSQL looks for deadlocks after
  `deadlock_timeout`). Nothing is assumed of administrators, of connections
  being lost, or of calls being made.
* Queue: weak fairness that timers keep starting ticks and that a tick in
  flight goes on: every `fetch` and query returns or throws. `Vanish` stays
  possible, so the liveness property speaks of rows that are settled or
  orphaned.
* Automation: in addition strong fairness of claiming each job: the claim orders
  by `available_at`, and a deferral puts a job behind all that are due, so a job
  that is due again and again is claimed.

The other modules state safety only: their progress is the browser's, the
customer's or the provider's, of whom the code assumes nothing.

### Findings and observations

One run refutes what the repository says of itself. **A second billing**
(`billing_second`): a lost answer of HitPay marks the checkout FAILED, and the
next request opens another billing for the same unfinished subscription, where
a test says an unfinished checkout is reused.

What else the models contain, and no property promises away:

* A lost answer of the provider, or a failed `markSent`, counts as a failed
  attempt and is sent again (`whatsapp-delivery/src/index.ts:13`; the UAT
  checklist asks for no duplicates). A process that ends after `claim` leaves its
  row in SENDING for ever.
* Terms lose their accents and the stored entries keep them
  (`database/src/ai-knowledge.ts:44`): a question whose telling words are all
  accented is taught, resolved and turned away again. `TaughtIsAnswered` speaks
  of wordings without accents.
* The AI answers, and books, in conversations a person has taken over: only the
  two flows look at the conversation's status (`evolution-webhook-routes.ts:7`;
  `docs/PRODUCT_CONTRACT.md:16`).
* A YES that cancels through the management flow ends its session; a second YES
  then reaches a booking flow left at its confirmation, and books. A "1"
  answers the choice of a slot and, sent again, confirms it.
* A message whose handler failed is a duplicate when it is delivered again, and
  is never answered. Choosing a new slot for a booking that is no longer active
  throws and leaves the session as it was.
* Saving a step of onboarding after it was completed reopens it.
* A repeated block whose last occurrence starts before `recurrence_until` and
  runs past it blocks nothing in a window that begins after that moment.
* After a failed load the public page keeps the list it had, possibly another
  service's; a visitor who goes back while a booking is submitted sees the
  confirmation under the new choice.

## 4. Proofs

Proved for every value of the constants that satisfies the modules' ASSUMEs.

### Booking (`BookingProofs`)

* `TypeCorrect`, `BatchesAtomic`, `ChecksHold`: invariants of the runs;
* `NoOverbooking`, `Lifecycle`: the two action properties;
* `TrailKept`: the audit trail of every booking replays to its status;
* `KnotsNeedBatches`: every circle of waiting transactions contains a batch;
* `Implements`: `BookingTransactions` implements `SlotLedger` (initial states map
  to initial states, every step to a step or a stutter), under the mapping that
  shows committed rows only.

Assumed: the ids two calls insert are new and distinct, rows of different
tables are different rows, capacities are positive, windows are finite sets of
instants.

No-overbooking is not inductive: the count a transaction made is about rows
nobody has committed yet. What carries it is `Inv` (`Invariance`):

* `Exclusive`: FOR UPDATE locks have one owner;
* `Shape`: what a call remembers fits where it is (a call at `commit` has
  written all its rows, one at `count` has one to write, ...);
* `RowsHeld`: an active booking has a place, the row a move works on is locked
  and still active, and a fresh id is inserted by its own call only;
* `BatchAllOrNothing`;
* `Locked`: whatever a transaction has validated is locked by it and still so;
* `Room`: in the calendar a transaction sees (committed rows plus its own), no
  instant of a row it wrote is loaded beyond capacity.

`Room` survives the steps of others because a commit that touches the same unit
would need the lock this call owns (`RoomOther`), and edits of a capacity wait
for it; it survives the call's own write because the count bounds the load at
every instant of the window (`RoomWrite`). At the commit what the transaction
sees becomes what everybody sees (`CommitSeen`), and no-overbooking follows.
`Implements` reads the same step as one `Claim` of the ledger.

`TrailReplays` is inductive given `Inv`: a trail grows by the event that leads
from its last status, because the row that is read for the event is locked or
new (`ReplaysOn`). For the deadlocks the invariant is `AllOrdered`: a call for
one booking holds none of the locks it takes later. Such a call waits upwards
only, from the booking (level 1) to the staff member (2) to the resource (3)
(`WaitsUpwards`), and a circle has no top (`KnotHasBatch`).

### Delivery queue (`AutomationProofs`)

`QueueTyped`, `OneTick`, `SendsBounded`, `OutcomesTrue`, for any messages and any
number of ticks. `OneTickPerRow` says nothing about a row between two ticks, so
the invariant (`QueueInvariance`) adds: a row a tick works on is SENDING or
already settled by that very tick and nobody else holds it (`Exclusive`,
`Holding`), and what reached the provider is at most what the claims counted,
one less while the claimer has not called yet (`Counted`).

### Dispatcher (`AutomationProofs`)

`DispatchTyped`, `JobsAgree`, `OptOutRespected`, and `RateBounded`: the recent
messages of a customer exceed the limit by less than the number of dispatcher
ticks. (The last, `RateNearlyKept`, is in no run: with two jobs it cannot be
exceeded.) The invariant (`DispatchInvariance`) contains the queue's, since the
dispatcher inserts into it, and says for each tick what it has read so far and
what is still true of it: the job it composes for is CLAIMED by it alone
(`Agreed`), it saw no opt-out older than its claim (`Mindful`), and the ticks
that have counted but not inserted are what the limit may be passed by
(`Measured`).

### Payments (`PaymentsProofs`)

`PaidBacked`: whatever order and number of webhooks, a status that counts as
paid is one the provider reported. `OverRefund`: more than the amount is
recorded as refunded only after two refunds of that payment overlapped. The
strengthening says that a refund under way which overlapped no other still sees
the sum it read (`Single`), and that reports exist only of payments that
were made (`Backed`).

`LedgerSums`: the sum on the row is the sum of the recorded refunds. A sum over
a set of refunds is the number of its units (`SumOf`, `UnitsOf`), so that one
more refund adds its amount (`UnitsAdd`) without an induction over the set.

`OneAmountFits`: when all refunds of a payment that the page sent are of one
amount, the money given back never exceeds what was paid, however many calls
overlap or are repeated. The invariant (`Stepwise`) says that the row's sum and
all idempotency keys are then multiples of that amount, and that no key exceeds
what was paid. The provider gives back once for each key, so the units it gave
back map one to one into the units of the payment (`StepsFit`). Assumed: the
name for "no tab" is not a tab.

### Billing (`BillingProofs`)

`Activation`, `Outcomes`, `OneHandler`, `LockOuts`, for any plans and any number
of requests, handlers, checkouts and reports. The properties speak of what is
recorded at the end. The invariant (`BillingInvariance`) adds what a handler has
learned of its event, and done for it, at each await (`Handling`: at `finish` a
charge has its invoice), what a request knows of the row it opened
(`Requested`), and that HitPay reports only what happened to billings that exist
(`Billed`, `Reported`).

### Access and quotas (`AccessProofs`)

`OneTenant`, `SignedIn`, `Charged`, `QuotaBounded`, for any accounts, sign-ins,
tabs and plans. Three invariants, each on top of the ones before
(`AccessInvariance`): `AccountsInv` says what a sign-in's transaction knows at
each label of the rows it has locked (`Found`, `Written`, `Joins`,
`Provisioned`), and that two transactions hold different rows and write
different subjects (`Apart`), which the unique indexes enforce; `ChargeInv` that
a request past its authorization acts for a member; `QuotaInv` that usage,
together with the requests past the check, exceeds the highest limit there was
by less than the number of tabs.

### Conversation (`ConversationProofs`)

`Once`, `AsAsked`, `Forgotten`, for any messages, deliveries, handlers and
sessions left by earlier exchanges. None of the three is inductive: they compare
what was carried out with sessions that are gone. `ConversationInvariance` says

* `Local`: what a handler may rely on between two awaits: its message has done
  nothing yet and began no session (`OfMessage`), which flow is at work and that
  the conversation was open (`OfFlow`), that what it is about to carry out was
  put to the customer (`ActsWell`), and that the row it is about to write is of
  the session it read, its question in the reply to come (`WritesWell`);
* `Apart`: two handlers have different messages, and a session both hold is
  loose;
* `Stored`: a stored session has not been carried out, or whoever did so is
  about to delete it; what it asks for was put to the customer, or is about to.

A session is *loose* once two handlers held it or one that held it failed; of
those the theorems promise nothing, because the code does not: sessions are read
and written back without a lock. That every plan fits the session it was made
from is a lemma about the plan operators alone (`PlansFit`).

### Workspace pages (`ConsoleProofs`)

`OnlyUnseen`: a save of a form changes a field its user did not touch only if
that field changed after the page was last shown the row, or if answers overtook
each other. `CompletedMeansAll`: onboarding counts as completed only with every
checkpoint saved. Both for any tabs, requests, pages, rows and fields.

A value travels from the row to a request, to a page's copy, to a form and back,
and each of these may be old. The invariant `Current` says one thing of all of
them (`FreshIn`): a field whose last change is not later than the time a copy
was read is still what the row holds. `PagesOk` and `ReqsOk` follow it through
every step. For onboarding, `Checked` adds that a request at the completing
write found every checkpoint saved; checkpoints are never taken back.

### Knowledge (`ConsoleProofs`)

`RankingAgrees`: what the database selects by words a source shows, or by topic,
the ranking never drops as worthless. `TeachingHelps`: a question that was taught,
and whose entry is active and still asks it in a wording without accents, is not
turned away again. `EditsKeep`: a field of an entry changes only to what an edit
was given or had read. For any words, topics, questions, entries and sources.

The lemmas are about the algorithm alone: what the terms of a question are
(`TermsFacts`), that a source sharing a term or a topic scores above zero
(`ScoreFacts`), and that the best of the selected is not cut off
(`BestIsRanked`, which picks the one with the least number among equals). The
invariant `Learned` adds that a resolved question names an entry that exists:
entries are never removed. Assumed: questions are finite and not empty, the rows
of other tables have numbers that no entry has, and taking off accents twice is
taking them off once.

### Availability and the front desk (`DeskProofs`)

`ClearPlaces`, `OneBookingEach`, `NoOrphans` and the action property
`OffersHold`, for any hours, breaks, blocks, imported events, services, staff,
visits, requests, calls and edits.

Assumed: the rows are such as the CHECK constraints of the migrations admit
(`Admitted`: positive durations, buffers, capacities and minutes that are not
negative) and its foreign keys (the staff and resources of a service exist);
there are finitely many imported events; staff and resources are numbered; a
zone is a fixed shift; and the services stay the same, since one is deactivated
and never deleted.

The engine asks three questions of a window as a whole (is it within one
stretch of hours, does a block overlap it, which repetitions are to be looked
at); the property asks each instant of it. `SameDay` and `FitsThroughout` carry
hours and breaks from the two ends to every instant between, `NothingMissed`
shows that an instant inside an occurrence of a repeated block is found by the
expansion in spite of its two cut-offs, and `CandidateIsClear` puts them
together. Three invariants rest on the types (`DeskTyped`):

* `Clear`: what a call has checked and not yet inserted lies in clear time,
  unless the rows were edited since;
* `Orderly`: who has not been in trouble (a lost answer, a crash, an overlap)
  has one call at most (`OneCall`), waits for it (`PageWaits`, `RequestWaits`),
  and every booking is known to whoever asked for it or its call is about to
  tell (`Named`);
* `Offered`: a list, or a call made from it, that nothing has changed since
  still has a place for each of its slots, at each point of the way: that asking
  for a slot by name finds the candidate it was offered from is `AskedByName`.

### Only model-checked

The three liveness properties: fairness and ENABLED are outside the prover. The
types that no theorem states are lemmas of the proof modules.

## 5. What is not modelled, and what is left

Each component left out is listed in `PROJECT.json` with the reason. What would
be worth adding, in order of importance:

1. `Planning`: the planners of reminders, surveys and campaigns, with reschedule
   and cancel in between. They leave their mark only as `Schedule`; two of the
   listed hazards (`booking-routes.ts:15`, `marketing.ts:11`) wait for it.
2. Policy beyond the start: the cancellation deadline, which `cancel` evaluates
   on a start read before its transaction.
3. Memberships and the waiting list of advanced booking; merging two customers
   under a booking in flight; provisioning and pairing of WhatsApp instances;
   the rolling summary the AI keeps.
4. Proofs: every invariant and action property has one. What could be added are
   abstract specifications for the other components and that they are
   implemented, as `SlotLedger` is: a ledger of refunds, a mailbox that delivers
   each message at most as often as it was tried.

Left out because nothing in them can go wrong between two requests: treatments
and sharing links, privacy, the dashboard, calendar views (single statements or
reads); property rentals (an exclusion constraint decides); start-up wiring and
migrations; scripts. Left out for good: the look of the web application, SQL as
a language, what a language model answers, formatting, logging, and the parsing
of provider payloads except for what they decide.
