---------------------------- MODULE ConsoleProofs ----------------------------
(***************************************************************************)
(* Theorems about the owner's console: the pages, for any tabs, requests,  *)
(* pages, rows and fields, and the knowledge base that one of them edits,  *)
(* for any words, questions, entries and sources.  Typed is the type       *)
(* invariant of WorkspacePages; Current says of every copy of a row,       *)
(* wherever it is on its way, which of its fields still are what the row   *)
(* holds.  Learned is the invariant of KnowledgeLearning.                  *)
(***************************************************************************)
EXTENDS WorkspacePages, KnowledgeLearning, FiniteSetTheorems, WellFoundedInduction, TLAPS

Row == [Fields -> Nat]
Progress == [steps : SUBSET Steps, completed : BOOLEAN]
Values == {NotRead} \cup Row \cup Progress \cup BOOLEAN

PageTypes ==
  [page : Pages \cup {None}, copy : [Tracked -> Values], loading : BOOLEAN,
   saving : BOOLEAN, seen : [Forms -> Nat], newest : [Forms -> Nat]]

Idles == [at : {"idle"}]
Loads == [at : {"reading"}, tab : Tabs, got : [Tracked -> Values], when : [Forms -> Nat]]
Saves == [at : {"save"}, tab : Tabs \cup {None}, row : Forms, copy : Row,
          touched : SUBSET Fields, newest : Nat, overtaken : BOOLEAN]
Saveds == [at : {"saved"}, tab : Tabs, row : Forms, new : Row, when : Nat]
Acteds == [at : {"acted"}, tab : Tabs]
StepReqs == [at : {"step"}, tab : Tabs \cup {None}, step : Steps]
Checks == [at : {"check", "complete"}, tab : Tabs \cup {None}]
Storeds == [at : {"stored"}, tab : Tabs, new : Progress]
ReqTypes == Idles \cup Loads \cup Saves \cup Saveds \cup Acteds \cup StepReqs
              \cup Checks \cup Storeds

DbTyped ==
  /\ db \in [Tracked -> Values]
  /\ \A r \in Forms : db[r] \in Row
  /\ "onboarding" \in Tracked => db["onboarding"] \in Progress
  /\ clock \in Nat /\ since \in [Forms -> [Fields -> Nat]]
  /\ \A r \in Forms : \A f \in Fields : since[r][f] <= clock
CopyTyped(t) == \A r \in Forms : tab[t].copy[r] # NotRead => tab[t].copy[r] \in Row
TabTyped == tab \in [Tabs -> PageTypes] /\ \A t \in Tabs : CopyTyped(t)
ReqTyped == req \in [Reqs -> ReqTypes]
Typed == DbTyped /\ TabTyped /\ ReqTyped

LEMMA FormsFacts ==
  /\ "onboarding" \notin Forms
  /\ Forms \subseteq Tracked
  /\ \A p \in Pages : Acts(p) \cap Forms = {} /\ "onboarding" \notin Acts(p)
  /\ \A p \in Pages : Edits(p) \cap Tracked \subseteq Forms
  /\ Forms \cap {"integrations", "services", "staff", "hours"} = {}
BY PagesAssumption
DEF Forms, Edits, Acts, AllPages, OnboardingPage, SettingsPage, AutomationPage,
    MarketingPage, KnowledgePage

\* A request of each kind has its own fields.
LEMMA ReqKinds ==
  ASSUME NEW q \in ReqTypes
  PROVE  /\ q.at = "idle" => q \in Idles /\ q = NoReq
         /\ q.at = "reading" => q \in Loads
         /\ q.at = "save" => q \in Saves
         /\ q.at = "saved" => q \in Saveds
         /\ q.at = "acted" => q \in Acteds
         /\ q.at = "step" => q \in StepReqs
         /\ q.at \in {"check", "complete"} => q \in Checks
         /\ q.at = "stored" => q \in Storeds
         /\ q # NoReq => q.at # "idle" /\ q.tab \in Tabs \cup {None}
         /\ q.at \in {"idle", "reading", "save", "saved", "acted", "step", "check",
                      "complete", "stored"}
<1> USE DEF NoReq
<1>1. CASE q \in Idles
  BY <1>1 DEF Idles
<1>2. CASE q \in Loads
  BY <1>2 DEF Loads
<1>3. CASE q \in Saves
  BY <1>3 DEF Saves
<1>4. CASE q \in Saveds
  BY <1>4 DEF Saveds
<1>5. CASE q \in Acteds
  BY <1>5 DEF Acteds
<1>6. CASE q \in StepReqs
  BY <1>6 DEF StepReqs
<1>7. CASE q \in Checks
  BY <1>7 DEF Checks
<1>8. CASE q \in Storeds
  BY <1>8 DEF Storeds
<1> QED BY <1>1, <1>2, <1>3, <1>4, <1>5, <1>6, <1>7, <1>8 DEF ReqTypes
\* What a step can do to the rows.
LEMMA DbCases ==
  ASSUME Typed, [Next]_vars
  PROVE  \/ UNCHANGED <<db, clock, since>>
         \/ /\ \E r \in Tracked \ (Forms \cup {"onboarding"}) : Flip(r)
            /\ since' = since
         \/ \E k \in Reqs : Write(k) \/ WriteStep(k) \/ WriteComplete(k)
<1> DEFINE Goal == \/ UNCHANGED <<db, clock, since>>
                   \/ /\ \E r \in Tracked \ (Forms \cup {"onboarding"}) : Flip(r)
                      /\ since' = since
                   \/ \E k \in Reqs : Write(k) \/ WriteStep(k) \/ WriteComplete(k)
<1>1. ASSUME NEW t \in Tabs, NEW r \in Tracked, NEW k \in Reqs, Act(t, r, k) PROVE Goal
  <2>1. tab[t].page \in Pages
    BY <1>1 DEF Act, Typed, TabTyped, PageTypes
  <2>2. r \notin Forms /\ r # "onboarding"
    BY <1>1, <2>1, FormsFacts DEF Act
  <2> QED BY <1>1, <2>2 DEF Act
<1>2. ASSUME NEW r \in Tracked \cap {"integrations", "services", "staff", "hours"}, World(r)
      PROVE  Goal
  BY <1>2, FormsFacts DEF World
<1>3. ASSUME NEW t \in Tabs, NEW k \in Reqs,
             \/ \E p \in Pages : Open(t, p, k)
             \/ Refresh(t, k)
             \/ \E r \in Forms, touched \in SUBSET Fields : Save(t, r, touched, k)
             \/ \E s \in Steps : SaveStep(t, s, k)
             \/ Complete(t, k)
      PROVE  Goal
  BY <1>3 DEF Open, Refresh, Save, SaveStep, Complete
<1>4. ASSUME NEW k \in Reqs,
             \/ \E r \in Tracked : Serve(k, r)
             \/ FinishLoad(k) \/ Lose(k) \/ Answer(k) \/ CheckComplete(k) \/ Stored(k)
      PROVE  Goal
  BY <1>4 DEF Serve, FinishLoad, Lose, Answer, CheckComplete, Stored
<1>5. CASE UNCHANGED vars
  BY <1>5 DEF vars
<1> QED BY <1>1, <1>2, <1>3, <1>4, <1>5 DEF Next

\* The time of a field's last change: a later one, or the one it had before.
Aged(r) == \A f \in Fields :
  \/ since'[r][f] = clock + 1 /\ clock' = clock + 1
  \/ since'[r][f] = since[r][f] /\ db'[r][f] = db[r][f]

LEMMA WriteDb ==
  ASSUME Typed, NEW k \in Reqs, Write(k)
  PROVE  /\ DbTyped' /\ clock' = clock + 1
         /\ \A r \in Forms : Aged(r)
         /\ \A r \in Tracked \ Forms : db'[r] = db[r]
<1> DEFINE w == req[k].row
           new == [f \in Fields |-> IF f \in req[k].touched THEN clock + 1
                                    ELSE req[k].copy[f]]
<1>1. req[k] \in Saves
  BY ReqKinds DEF Write, Typed, ReqTyped
<1>2. w \in Forms /\ req[k].copy \in Row
  BY <1>1 DEF Saves
<1>3. /\ clock' = clock + 1 /\ db' = [db EXCEPT ![w] = new]
      /\ since' = [since EXCEPT ![w] = [f \in Fields |->
                       IF new[f] # db[w][f] THEN clock + 1 ELSE @[f]]]
  BY DEF Write
<1>4. new \in Row
  BY <1>2 DEF Row, Typed, DbTyped
<1> HIDE DEF w, new
<1>5. db' \in [Tracked -> Values]
  BY <1>2, <1>3, <1>4, FormsFacts DEF Values, Typed, DbTyped
<1>6. /\ db'[w] = new
      /\ \A r \in Tracked \ {w} : db'[r] = db[r]
      /\ \A r \in Forms \ {w} : since'[r] = since[r]
      /\ \A f \in Fields : since'[w][f] = IF new[f] # db[w][f] THEN clock + 1 ELSE since[w][f]
      /\ since' \in [Forms -> [Fields -> Nat]]
  BY <1>2, <1>3, FormsFacts DEF Typed, DbTyped
<1>7. \A r \in Forms : Aged(r)
  BY <1>3, <1>6, FormsFacts DEF Aged
<1>8. \A r \in Forms : db'[r] \in Row
  BY <1>4, <1>6, FormsFacts DEF Typed, DbTyped
<1>9. \A r \in Forms : \A f \in Fields : since'[r][f] <= clock'
  BY <1>3, <1>6 DEF Typed, DbTyped
<1>10. \A r \in Tracked \ Forms : db'[r] = db[r]
  BY <1>2, <1>6
<1>11. "onboarding" \in Tracked => db'["onboarding"] \in Progress
  BY <1>10, FormsFacts DEF Typed, DbTyped
<1>12. clock' \in Nat
  BY <1>3 DEF Typed, DbTyped
<1> QED BY <1>3, <1>5, <1>6, <1>7, <1>8, <1>9, <1>10, <1>11, <1>12 DEF DbTyped

LEMMA StoreDb ==
  ASSUME Typed, NEW k \in Reqs, WriteStep(k) \/ WriteComplete(k)
  PROVE  /\ DbTyped' /\ clock' = clock + 1
         /\ \A r \in Forms : Aged(r)
         /\ "onboarding" \in Tracked =>
              /\ db["onboarding"].steps \subseteq db'["onboarding"].steps
              /\ db'["onboarding"].completed <=> WriteComplete(k)
<1>1. PICK new \in SUBSET Steps, completed \in BOOLEAN :
        /\ StoreOnboarding(k, new, completed)
        /\ completed <=> WriteComplete(k)
  <2>1. CASE WriteStep(k)
    <3>1. req[k].step \in Steps
      BY <2>1, ReqKinds DEF WriteStep, Typed, ReqTyped, StepReqs
    <3>2. ~ WriteComplete(k)
      BY <2>1 DEF WriteStep, WriteComplete
    <3> QED BY <2>1, <3>1, <3>2 DEF WriteStep
  <2>2. CASE WriteComplete(k)
    BY <2>2 DEF WriteComplete
  <2> QED BY <2>1, <2>2
<1> DEFINE row == [steps |-> DataAfter(db["onboarding"].steps, new), completed |-> completed]
<1>2. /\ clock' = clock + 1 /\ since' = since
      /\ db' = [db EXCEPT !["onboarding"] = row]
  BY <1>1 DEF StoreOnboarding
<1>3. "onboarding" \in Tracked =>
        /\ row \in Progress /\ row.completed = completed
        /\ db["onboarding"].steps \subseteq row.steps
  BY DEF Typed, DbTyped, Progress, DataAfter, MergedSteps
<1> HIDE DEF row
<1>4. db' \in [Tracked -> Values]
  BY <1>2, <1>3 DEF Values, Typed, DbTyped
<1>5. \A r \in Forms : db'[r] = db[r]
  BY <1>2, FormsFacts DEF Typed, DbTyped
<1>6. "onboarding" \in Tracked => db'["onboarding"] = row
  BY <1>2 DEF Typed, DbTyped
<1>7. \A r \in Forms : Aged(r)
  BY <1>2, <1>5 DEF Aged
<1>8. clock' \in Nat /\ \A r \in Forms : \A f \in Fields : since'[r][f] <= clock'
  BY <1>2 DEF Typed, DbTyped
<1>9. DbTyped'
  BY <1>2, <1>3, <1>4, <1>5, <1>6, <1>8 DEF Typed, DbTyped
<1> QED BY <1>1, <1>2, <1>3, <1>6, <1>7, <1>9

LEMMA DbStep ==
  ASSUME Typed, [Next]_vars
  PROVE  /\ DbTyped' /\ clock <= clock'
         /\ \A r \in Forms : Aged(r)
<1>0. clock \in Nat
  BY DEF Typed, DbTyped
<1>1. CASE UNCHANGED <<db, clock, since>>
  BY <1>0, <1>1 DEF Typed, DbTyped, Aged
<1>2. ASSUME NEW r \in Tracked \ (Forms \cup {"onboarding"}), Flip(r), since' = since
      PROVE  /\ DbTyped' /\ clock <= clock'
             /\ \A x \in Forms : Aged(x)
  <2>1. clock' = clock + 1 /\ db' = [db EXCEPT ![r] = ~ db[r]]
    BY <1>2 DEF Flip
  <2>2. \A x \in Tracked \ {r} : db'[x] = db[x]
    BY <2>1 DEF Typed, DbTyped
  <2>3. db' \in [Tracked -> Values]
    BY <2>1 DEF Values, Typed, DbTyped
  <2>4. \A x \in Forms : db'[x] = db[x]
    BY <2>2, FormsFacts
  <2>5. "onboarding" \in Tracked => db'["onboarding"] = db["onboarding"]
    BY <2>2
  <2>6. clock' \in Nat /\ clock <= clock' /\
        \A x \in Forms : \A f \in Fields : since'[x][f] <= clock'
    BY <1>0, <1>2, <2>1 DEF Typed, DbTyped
  <2> QED BY <1>2, <2>3, <2>4, <2>5, <2>6 DEF Typed, DbTyped, Aged
<1>3. ASSUME NEW k \in Reqs, Write(k) \/ WriteStep(k) \/ WriteComplete(k)
      PROVE  /\ DbTyped' /\ clock <= clock'
             /\ \A x \in Forms : Aged(x)
  BY <1>0, <1>3, WriteDb, StoreDb
<1> QED BY <1>1, <1>2, <1>3, DbCases
-----------------------------------------------------------------------------
(* Copies.                                                                 *)

\* A copy read at some time agrees with the row on every field that has not
\* changed since.
FreshIn(row, when, value, times) ==
  row # NotRead => /\ row \in Row
                   /\ \A f \in Fields : times[f] <= when => row[f] = value[f]

PageOk(pg, rows, times, now) ==
  /\ pg \in PageTypes
  /\ \A r \in Forms : /\ FreshIn(pg.copy[r], pg.seen[r], rows[r], times[r])
                     /\ pg.seen[r] <= now /\ pg.newest[r] <= now

ReqOk(q, rows, times, now) ==
  /\ q \in ReqTypes
  /\ q.at = "reading" => \A r \in Forms : /\ FreshIn(q.got[r], q.when[r], rows[r], times[r])
                                        /\ q.when[r] <= now
  /\ q.at = "save" =>
       /\ q.newest <= now
       /\ ~ q.overtaken => \A f \in Fields :
            times[q.row][f] <= q.newest => q.copy[f] = rows[q.row][f]
  /\ q.at = "saved" => /\ FreshIn(q.new, q.when, rows[q.row], times[q.row])
                       /\ q.when <= now
  /\ q.at \in {"step", "check", "complete", "stored"} => "onboarding" \in Tracked

Current ==
  /\ DbTyped
  /\ tab \in [Tabs -> PageTypes] /\ \A t \in Tabs : PageOk(tab[t], db, since, clock)
  /\ req \in [Reqs -> ReqTypes] /\ \A k \in Reqs : ReqOk(req[k], db, since, clock)

LEMMA CurrentTyped == Current => Typed
BY DEF Current, Typed, TabTyped, ReqTyped, CopyTyped, PageOk, FreshIn

LEMMA FreshAges ==
  ASSUME DbTyped, NEW r \in Forms, Aged(r), NEW row, NEW when \in Nat, when <= clock,
         FreshIn(row, when, db[r], since[r])
  PROVE  FreshIn(row, when, db'[r], since'[r])
BY DEF FreshIn, Aged, DbTyped

LEMMA PageAges ==
  ASSUME DbTyped, DbTyped', clock <= clock', \A r \in Forms : Aged(r), NEW pg,
         PageOk(pg, db, since, clock)
  PROVE  PageOk(pg, db', since', clock')
<1>1. ASSUME NEW r \in Forms
      PROVE  FreshIn(pg.copy[r], pg.seen[r], db'[r], since'[r])
  BY FreshAges DEF PageOk, PageTypes
<1>2. ASSUME NEW r \in Forms
      PROVE  pg.seen[r] <= clock' /\ pg.newest[r] <= clock'
  <2>1. /\ pg.seen[r] \in Nat /\ pg.newest[r] \in Nat
        /\ pg.seen[r] <= clock /\ pg.newest[r] <= clock
    BY DEF PageOk, PageTypes
  <2> QED BY <2>1 DEF DbTyped
<1> QED BY <1>1, <1>2 DEF PageOk

LEMMA ReqAges ==
  ASSUME DbTyped, DbTyped', clock <= clock', \A r \in Forms : Aged(r), NEW q,
         ReqOk(q, db, since, clock)
  PROVE  ReqOk(q, db', since', clock')
<1>0. clock \in Nat /\ clock' \in Nat
  BY DEF DbTyped
<1>1. q \in ReqTypes
  BY DEF ReqOk
<1>2. CASE q.at = "reading"
  <2>1. q \in Loads
    BY <1>1, <1>2, ReqKinds
  <2>2. ASSUME NEW r \in Forms
        PROVE  FreshIn(q.got[r], q.when[r], db'[r], since'[r]) /\ q.when[r] <= clock'
    <3>1. /\ q.when[r] \in Nat /\ q.when[r] <= clock
          /\ FreshIn(q.got[r], q.when[r], db[r], since[r])
      BY <1>2, <2>1 DEF ReqOk, Loads
    <3> QED BY <1>0, <3>1, FreshAges
  <2> QED BY <1>1, <1>2, <2>2 DEF ReqOk
<1>3. CASE q.at = "save"
  <2>1. q.row \in Forms /\ q.newest \in Nat /\ q.newest <= clock
    BY <1>1, <1>3, ReqKinds DEF Saves, ReqOk
  <2>2. ASSUME ~ q.overtaken, NEW f \in Fields, since'[q.row][f] <= q.newest
        PROVE  q.copy[f] = db'[q.row][f]
    <3>1. since'[q.row][f] = since[q.row][f] /\ db'[q.row][f] = db[q.row][f]
      BY <1>0, <2>1, <2>2 DEF Aged
    <3> QED BY <1>3, <2>2, <3>1 DEF ReqOk
  <2> QED BY <1>0, <1>1, <1>3, <2>1, <2>2 DEF ReqOk
<1>4. CASE q.at = "saved"
  <2>1. /\ q.row \in Forms /\ q.when \in Nat /\ q.when <= clock
        /\ FreshIn(q.new, q.when, db[q.row], since[q.row])
    BY <1>1, <1>4, ReqKinds DEF Saveds, ReqOk
  <2> QED BY <1>0, <1>1, <1>4, <2>1, FreshAges DEF ReqOk
<1>5. CASE q.at \notin {"reading", "save", "saved"}
  BY <1>1, <1>5 DEF ReqOk
<1> QED BY <1>2, <1>3, <1>4, <1>5

LEMMA NewLoadOk ==
  ASSUME DbTyped, NEW t \in Tabs PROVE ReqOk(NewLoad(t), db, since, clock)
<1>1. NewLoad(t) \in Loads
  BY DEF NewLoad, Loads, Unloaded, Values
<1> QED BY <1>1, FormsFacts DEF NewLoad, ReqOk, ReqTypes, FreshIn, Unloaded, DbTyped

LEMMA IdleOk == ASSUME NEW rows, NEW times, NEW now PROVE ReqOk(NoReq, rows, times, now)
BY DEF NoReq, ReqOk, ReqTypes, Idles

\* Pages that are opened or whose copies stay as they were.
LEMMA ClosedOk ==
  ASSUME DbTyped, NEW p \in Pages
  PROVE  PageOk([Closed EXCEPT !.page = p, !.loading = TRUE], db, since, clock)
<1> DEFINE pg == [Closed EXCEPT !.page = p, !.loading = TRUE]
<1> SUFFICES PageOk(pg, db, since, clock)
  OBVIOUS
<1>0. Unloaded \in [Tracked -> Values]
  BY DEF Unloaded, Values
<1>1. Closed \in PageTypes
  BY <1>0 DEF Closed, PageTypes
<1>2. /\ pg \in PageTypes /\ pg.copy = Closed.copy
      /\ pg.seen = Closed.seen /\ pg.newest = Closed.newest
  BY <1>1 DEF PageTypes
<1>3. /\ Closed.copy = Unloaded
      /\ \A r \in Forms : Closed.seen[r] = 0 /\ Closed.newest[r] = 0
  BY DEF Closed
<1> HIDE DEF pg
<1> QED BY <1>2, <1>3, FormsFacts DEF PageOk, FreshIn, Unloaded, DbTyped

LEMMA FlagsOk ==
  ASSUME NEW pg, PageOk(pg, db, since, clock), NEW a \in BOOLEAN, NEW b \in BOOLEAN
  PROVE  /\ PageOk([pg EXCEPT !.loading = a], db, since, clock)
         /\ PageOk([pg EXCEPT !.saving = a], db, since, clock)
         /\ PageOk([pg EXCEPT !.loading = a, !.saving = b], db, since, clock)
BY DEF PageOk, PageTypes

LEMMA DetachOk ==
  ASSUME NEW q, ReqOk(q, db, since, clock), q.at \in Unwritten
  PROVE  ReqOk([q EXCEPT !.tab = None], db, since, clock)
<1> DEFINE d == [q EXCEPT !.tab = None]
<1> SUFFICES ReqOk(d, db, since, clock)
  OBVIOUS
<1>1. q \in ReqTypes
  BY DEF ReqOk
<1>2. CASE q.at = "save"
  <2>1. q \in Saves
    BY <1>1, <1>2, ReqKinds
  <2>2. d \in Saves /\ d.at = "save" /\ d.newest = q.newest /\ d.row = q.row
        /\ d.copy = q.copy /\ d.overtaken = q.overtaken
    BY <2>1 DEF Saves
  <2> HIDE DEF d
  <2> QED BY <1>2, <2>2 DEF ReqOk, ReqTypes
<1>3. CASE q.at = "step"
  <2>1. q \in StepReqs
    BY <1>1, <1>3, ReqKinds
  <2>2. d \in StepReqs /\ d.at = "step"
    BY <2>1 DEF StepReqs
  <2> HIDE DEF d
  <2> QED BY <1>3, <2>2 DEF ReqOk, ReqTypes
<1>4. CASE q.at \in {"check", "complete"}
  <2>1. q \in Checks
    BY <1>1, <1>4, ReqKinds
  <2>2. d \in Checks /\ d.at \in {"check", "complete"}
    BY <2>1 DEF Checks
  <2> HIDE DEF d
  <2> QED BY <1>4, <2>2 DEF ReqOk, ReqTypes
<1> QED BY <1>2, <1>3, <1>4 DEF Unwritten
-----------------------------------------------------------------------------
(* Steps.                                                                  *)

PagesOk == tab' = [t \in Tabs |-> tab'[t]] /\ \A t \in Tabs : PageOk(tab'[t], db, since, clock)

\* One page changes, and what it becomes is in order.
LEMMA OnePage ==
  ASSUME Current, NEW t, NEW pg, PageOk(pg, db, since, clock),
         tab' = [tab EXCEPT ![t] = pg]
  PROVE  PagesOk
BY DEF Current, PagesOk

LEMMA SamePages == ASSUME Current, tab' = tab PROVE PagesOk
BY DEF Current, PagesOk

\* Whose request it is, once it was made.
LEMMA OfTab ==
  ASSUME Current, NEW k \in Reqs, req[k] # NoReq
  PROVE  req[k].tab \in Tabs \cup {None} /\ ReqOk(req[k], db, since, clock)
BY ReqKinds DEF Current

LEMMA LoadedOk ==
  ASSUME DbTyped, NEW pg, PageOk(pg, db, since, clock), NEW load,
         ReqOk(load, db, since, clock), load.at = "reading"
  PROVE  PageOk(Loaded(pg, load), db, since, clock)
<1> DEFINE new == Loaded(pg, load)
<1> SUFFICES PageOk(new, db, since, clock)
  OBVIOUS
<1>1. load \in Loads /\ pg \in PageTypes
  BY ReqKinds DEF ReqOk, PageOk
<1>2. /\ new \in PageTypes
      /\ \A r \in Tracked : new.copy[r] = IF r \in Rows(pg.page) THEN load.got[r] ELSE pg.copy[r]
      /\ \A r \in Forms :
           /\ new.seen[r] = IF r \in Rows(pg.page) THEN load.when[r] ELSE pg.seen[r]
           /\ new.newest[r] = IF r \in Rows(pg.page) THEN LargerOf(pg.newest[r], load.when[r])
                                                   ELSE pg.newest[r]
  BY <1>1, FormsFacts DEF Loaded, Replaced, PageTypes, Loads, LargerOf
<1> HIDE DEF new
<1>3. ASSUME NEW r \in Forms
      PROVE  /\ FreshIn(new.copy[r], new.seen[r], db[r], since[r])
             /\ new.seen[r] <= clock /\ new.newest[r] <= clock
  <2>1. /\ FreshIn(load.got[r], load.when[r], db[r], since[r]) /\ load.when[r] <= clock
        /\ FreshIn(pg.copy[r], pg.seen[r], db[r], since[r])
        /\ pg.seen[r] <= clock /\ pg.newest[r] <= clock /\ r \in Tracked
    BY FormsFacts DEF ReqOk, PageOk
  <2> QED BY <1>2, <2>1 DEF LargerOf
<1> QED BY <1>2, <1>3 DEF PageOk

LEMMA SavedOk ==
  ASSUME DbTyped, NEW pg, PageOk(pg, db, since, clock), NEW r \in Forms, NEW row \in Row,
         NEW when \in Nat, when <= clock, FreshIn(row, when, db[r], since[r])
  PROVE  PageOk(ShowSaved(pg, r, row, when), db, since, clock)
<1> DEFINE new == ShowSaved(pg, r, row, when)
<1> SUFFICES PageOk(new, db, since, clock)
  OBVIOUS
<1>1. pg \in PageTypes /\ r \in Tracked /\ row \in Values
  BY FormsFacts DEF PageOk, Values
<1>2. /\ new \in PageTypes
      /\ \A x \in Tracked : new.copy[x] = IF x = r THEN row ELSE pg.copy[x]
      /\ \A x \in Forms :
           /\ new.seen[x] = IF x = r THEN when ELSE pg.seen[x]
           /\ new.newest[x] = IF x = r THEN LargerOf(pg.newest[x], when) ELSE pg.newest[x]
  BY <1>1 DEF ShowSaved, PageTypes, LargerOf
<1> HIDE DEF new
<1>3. ASSUME NEW x \in Forms
      PROVE  /\ FreshIn(new.copy[x], new.seen[x], db[x], since[x])
             /\ new.seen[x] <= clock /\ new.newest[x] <= clock
  BY <1>2, FormsFacts DEF PageOk, LargerOf
<1> QED BY <1>2, <1>3 DEF PageOk

LEMMA PagesStep == Current /\ [Next]_vars => PagesOk
<1> SUFFICES ASSUME Current, [Next]_vars PROVE PagesOk
  OBVIOUS
<1>0. /\ DbTyped
      /\ \A t \in Tabs : PageOk(tab[t], db, since, clock)
      /\ tab \in [Tabs -> PageTypes] /\ None \notin Tabs
  BY PagesAssumption DEF Current
<1>1. ASSUME NEW t \in Tabs, NEW p \in Pages, NEW k \in Reqs, Open(t, p, k) PROVE PagesOk
  BY <1>0, <1>1, ClosedOk, OnePage DEF Open
<1>2. ASSUME NEW t \in Tabs, NEW k \in Reqs, Refresh(t, k) PROVE PagesOk
  <2>1. tab' = [tab EXCEPT ![t] = [tab[t] EXCEPT !.loading = TRUE]]
    BY <1>2 DEF Refresh
  <2>2. PageOk([tab[t] EXCEPT !.loading = TRUE], db, since, clock)
    BY <1>0, FlagsOk
  <2> QED BY <2>1, <2>2, OnePage
<1>3. ASSUME NEW k \in Reqs, FinishLoad(k) PROVE PagesOk
  <2>1. req[k] # NoReq /\ ReqOk(req[k], db, since, clock) /\ req[k].at = "reading"
    BY <1>3, OfTab DEF FinishLoad, NoReq
  <2>2. req[k].tab \in Tabs
    BY <2>1, ReqKinds DEF ReqOk, Loads
  <2>3. tab' = [tab EXCEPT ![req[k].tab] = Loaded(tab[req[k].tab], req[k])]
    BY <1>3 DEF FinishLoad
  <2>4. PageOk(Loaded(tab[req[k].tab], req[k]), db, since, clock)
    BY <1>0, <2>1, <2>2, LoadedOk
  <2> QED BY <2>3, <2>4, OnePage
<1>4. ASSUME NEW k \in Reqs, Lose(k) PROVE PagesOk
  <2> DEFINE t == req[k].tab
             a == IF req[k].at = "reading" THEN FALSE ELSE tab[t].loading
             b == IF req[k].at = "reading" THEN tab[t].saving ELSE FALSE
  <2>1. req[k] # NoReq /\ t \in Tabs \cup {None}
    BY <1>4, OfTab DEF Lose
  <2>2. CASE t = None
    BY <1>4, <2>2, SamePages DEF Lose
  <2>3. CASE t # None
    <3>1. t \in Tabs /\ a \in BOOLEAN /\ b \in BOOLEAN
      BY <1>0, <2>1, <2>3 DEF PageTypes
    <3>2. tab' = [tab EXCEPT ![t] = [tab[t] EXCEPT !.loading = a, !.saving = b]]
      BY <1>0, <1>4, <2>3, <3>1 DEF Lose, PageTypes
    <3>3. PageOk([tab[t] EXCEPT !.loading = a, !.saving = b], db, since, clock)
      <4> HIDE DEF a, b, t
      <4> QED BY <1>0, <3>1, FlagsOk
    <3> HIDE DEF a, b, t
    <3> QED BY <3>2, <3>3, OnePage
  <2> QED BY <2>2, <2>3
<1>5. ASSUME NEW k \in Reqs, Answer(k) PROVE PagesOk
  <2> DEFINE t == req[k].tab
  <2>1. req[k] # NoReq /\ ReqOk(req[k], db, since, clock) /\ req[k].at \in {"saved", "acted"}
    BY <1>5, OfTab DEF Answer, NoReq
  <2>2. t \in Tabs
    BY <2>1, ReqKinds DEF ReqOk, Saveds, Acteds
  <2>3. CASE tab' = [tab EXCEPT ![t].loading = TRUE]
    <3>1. tab' = [tab EXCEPT ![t] = [tab[t] EXCEPT !.loading = TRUE]]
      BY <2>3
    <3>2. PageOk([tab[t] EXCEPT !.loading = TRUE], db, since, clock)
      BY <1>0, <2>2, FlagsOk
    <3> QED BY <3>1, <3>2, OnePage
  <2>4. CASE /\ req[k].at = "saved"
             /\ tab' = [tab EXCEPT ![t] = ShowSaved(@, req[k].row, req[k].new, req[k].when)]
    <3>1. req[k].row \in Forms /\ req[k].new \in Row /\ req[k].when \in Nat
      BY <2>1, <2>4, ReqKinds DEF ReqOk, Saveds
    <3>2. PageOk(ShowSaved(tab[t], req[k].row, req[k].new, req[k].when), db, since, clock)
      BY <1>0, <2>1, <2>2, <2>4, <3>1, SavedOk DEF ReqOk
    <3> QED BY <2>4, <3>2, OnePage
  <2> QED BY <1>5, <2>3, <2>4 DEF Answer
<1>6. ASSUME NEW t \in Tabs, NEW k \in Reqs,
             Complete(t, k) \/ \E s \in Steps : SaveStep(t, s, k)
      PROVE  PagesOk
  <2>1. tab' = [tab EXCEPT ![t] = [tab[t] EXCEPT !.saving = TRUE]]
    BY <1>6 DEF Complete, SaveStep
  <2>2. PageOk([tab[t] EXCEPT !.saving = TRUE], db, since, clock)
    BY <1>0, FlagsOk
  <2> QED BY <2>1, <2>2, OnePage
<1>7. ASSUME NEW k \in Reqs, Stored(k) PROVE PagesOk
  <2> DEFINE t == req[k].tab
             new == [tab[t] EXCEPT !.copy["onboarding"] = req[k].new, !.saving = FALSE]
  <2>1. req[k] # NoReq /\ ReqOk(req[k], db, since, clock) /\ req[k].at = "stored"
    BY <1>7, OfTab DEF Stored, NoReq
  <2>2. t \in Tabs /\ req[k].new \in Values
    BY <2>1, ReqKinds DEF ReqOk, Storeds, Values
  <2>3. tab' = [tab EXCEPT ![t] = new]
    BY <1>7 DEF Stored
  <2>4. PageOk(new, db, since, clock)
    <3>1. tab[t] \in PageTypes
      BY <1>0, <2>2
    <3>2. /\ new \in PageTypes /\ new.seen = tab[t].seen /\ new.newest = tab[t].newest
          /\ \A r \in Tracked \ {"onboarding"} : new.copy[r] = tab[t].copy[r]
      BY <2>2, <3>1 DEF PageTypes
    <3> HIDE DEF new
    <3> QED BY <1>0, <2>2, <3>2, FormsFacts DEF PageOk
  <2> HIDE DEF new, t
  <2> QED BY <2>3, <2>4, OnePage
<1>8. CASE tab' = tab
  BY <1>8, SamePages
<1> QED
  BY <1>1, <1>2, <1>3, <1>4, <1>5, <1>6, <1>7, <1>8
  DEF Next, Act, Save, Serve, Write, CheckComplete, WriteStep, WriteComplete,
      StoreOnboarding, World, vars
\* Every request is in order with the rows before the step or after it.
Either(q) == ReqOk(q, db, since, clock) \/ ReqOk(q, db', since', clock')
ReqsOk == req' = [k \in Reqs |-> req'[k]] /\ \A k \in Reqs : Either(req'[k])

LEMMA OneReq ==
  ASSUME Current, NEW k, NEW q, Either(q), req' = [req EXCEPT ![k] = q]
  PROVE  ReqsOk
BY DEF Current, ReqsOk, Either

LEMMA SameReqs == ASSUME Current, req' = req PROVE ReqsOk
BY DEF Current, ReqsOk, Either

LEMMA ServeOk ==
  ASSUME Current, NEW k \in Reqs, NEW r \in Tracked, Serve(k, r)
  PROVE  ReqsOk
<1> DEFINE q == [req[k] EXCEPT !.got[r] = db[r],
                               !.when = [x \in Forms |-> IF x = r THEN clock ELSE @[x]]]
<1>1. req' = [req EXCEPT ![k] = q]
  BY DEF Serve, Current
<1>2. req[k] \in Loads /\ ReqOk(req[k], db, since, clock) /\ req[k].at = "reading"
  BY ReqKinds DEF Serve, Current
<1>3. DbTyped /\ db[r] \in Values /\ clock \in Nat
  BY DEF Current, DbTyped
<1>4. /\ q \in Loads
      /\ \A x \in Tracked : q.got[x] = IF x = r THEN db[r] ELSE req[k].got[x]
      /\ \A x \in Forms : q.when[x] = IF x = r THEN clock ELSE req[k].when[x]
  BY <1>2, <1>3 DEF Loads
<1> HIDE DEF q
<1>5. ASSUME NEW x \in Forms
      PROVE  FreshIn(q.got[x], q.when[x], db[x], since[x]) /\ q.when[x] <= clock
  <2>1. CASE x = r
    BY <1>3, <1>4, <2>1, FormsFacts DEF FreshIn, DbTyped
  <2>2. CASE x # r
    BY <1>2, <1>4, <2>2, FormsFacts DEF ReqOk
  <2> QED BY <2>1, <2>2
<1>6. ReqOk(q, db, since, clock)
  BY <1>4, <1>5 DEF ReqOk, ReqTypes, Loads
<1> QED BY <1>1, <1>6, OneReq DEF Either

LEMMA SaveOk ==
  ASSUME Current, NEW t \in Tabs, NEW r \in Forms, NEW touched \in SUBSET Fields, NEW k \in Reqs,
         Save(t, r, touched, k)
  PROVE  ReqsOk
<1> DEFINE q == [at |-> "save", tab |-> t, row |-> r, copy |-> tab[t].copy[r],
                 touched |-> touched, newest |-> tab[t].newest[r],
                 overtaken |-> tab[t].seen[r] < tab[t].newest[r]]
<1>1. req' = [req EXCEPT ![k] = q] /\ tab[t].copy[r] # NotRead
  BY DEF Save
<1>2. /\ FreshIn(tab[t].copy[r], tab[t].seen[r], db[r], since[r])
      /\ tab[t].newest[r] <= clock /\ tab[t].newest[r] \in Nat /\ tab[t].seen[r] \in Nat
  BY DEF Current, PageOk, PageTypes
<1>3. tab[t].copy[r] \in Row
  BY <1>1, <1>2 DEF FreshIn
<1>4. q \in Saves
  BY <1>2, <1>3 DEF Saves
<1>5. ASSUME ~ q.overtaken, NEW f \in Fields, since[r][f] <= tab[t].newest[r]
      PROVE  q.copy[f] = db[r][f]
  <2>1. ~ (tab[t].seen[r] < tab[t].newest[r])
    BY <1>5, Zenon
  <2>2. since[r][f] \in Nat
    BY DEF Current, DbTyped
  <2>3. since[r][f] <= tab[t].seen[r]
    BY <1>2, <1>5, <2>1, <2>2
  <2> QED BY <1>1, <1>2, <2>3 DEF FreshIn
<1>6. ReqOk(q, db, since, clock)
  BY <1>2, <1>4, <1>5 DEF ReqOk, ReqTypes
<1> HIDE DEF q
<1> QED BY <1>1, <1>6, OneReq DEF Either

LEMMA WriteOk == ASSUME Current, NEW k \in Reqs, Write(k) PROVE ReqsOk
<1> DEFINE r == req[k].row
           new == [f \in Fields |-> IF f \in req[k].touched THEN clock + 1
                                    ELSE req[k].copy[f]]
           q == [at |-> "saved", tab |-> req[k].tab, row |-> r, new |-> new,
                 when |-> clock + 1]
<1>1. req[k] \in Saves /\ DbTyped /\ clock \in Nat
  BY ReqKinds DEF Write, Current, DbTyped
<1>2. /\ r \in Forms /\ r \in Tracked /\ req[k].copy \in Row
      /\ req[k].tab \in Tabs \cup {None}
  BY <1>1, FormsFacts DEF Saves
<1>3. /\ db' = [db EXCEPT ![r] = new] /\ clock' = clock + 1
      /\ req' = [req EXCEPT ![k] = IF req[k].tab = None THEN NoReq ELSE q]
  BY DEF Write
<1>4. new \in Row
  BY <1>1, <1>2 DEF Row
<1> HIDE DEF new
<1>5. CASE req[k].tab = None
  BY <1>3, <1>5, IdleOk, OneReq DEF Either
<1>6. CASE req[k].tab # None
  <2>1. q \in Saveds
    BY <1>1, <1>2, <1>4, <1>6 DEF Saveds
  <2>2. db'[r] = new
    BY <1>1, <1>2, <1>3 DEF DbTyped
  <2>3. FreshIn(q.new, q.when, db'[q.row], since'[q.row]) /\ q.when <= clock'
    BY <1>1, <1>3, <1>4, <2>2 DEF FreshIn
  <2>4. ReqOk(q, db', since', clock')
    BY <2>1, <2>3 DEF ReqOk, ReqTypes, Saveds
  <2>5. req' = [req EXCEPT ![k] = q]
    BY <1>3, <1>6
  <2> HIDE DEF q
  <2> QED BY <2>4, <2>5, OneReq DEF Either
<1> QED BY <1>5, <1>6

\* The kinds of requests that carry no copy of a form's row.
LEMMA PlainOk ==
  ASSUME NEW q \in Acteds \cup StepReqs \cup Checks \cup Storeds,
         q \in Acteds \/ "onboarding" \in Tracked
  PROVE  Either(q)
<1>1. q.at \notin {"reading", "save", "saved"} /\ q \in ReqTypes
  BY DEF Acteds, StepReqs, Checks, Storeds, ReqTypes
<1>2. q \in Acteds => q.at = "acted"
  BY DEF Acteds
<1>3. q.at \in {"step", "check", "complete", "stored"} => "onboarding" \in Tracked
  BY <1>2
<1>4. ReqOk(q, db, since, clock)
  BY <1>1, <1>3 DEF ReqOk
<1> QED BY <1>4 DEF Either

LEMMA StoreOk ==
  ASSUME Current, NEW k \in Reqs, WriteStep(k) \/ WriteComplete(k) PROVE ReqsOk
<1>1. PICK new \in SUBSET Steps, completed \in BOOLEAN : StoreOnboarding(k, new, completed)
  <2>1. CASE WriteStep(k)
    <3>1. req[k].step \in Steps
      BY <2>1, ReqKinds DEF WriteStep, Current, StepReqs
    <3> QED BY <2>1, <3>1 DEF WriteStep
  <2>2. CASE WriteComplete(k)
    BY <2>2 DEF WriteComplete
  <2> QED BY <2>1, <2>2
<1> DEFINE row == [steps |-> DataAfter(db["onboarding"].steps, new), completed |-> completed]
           q == [at |-> "stored", tab |-> req[k].tab, new |-> row]
<1>2. req' = [req EXCEPT ![k] = IF req[k].tab = None THEN NoReq ELSE q]
  BY <1>1 DEF StoreOnboarding
<1>3. req[k].at \in {"step", "complete"} /\ req[k] # NoReq
  <2>1. req[k].at \in {"step", "complete"}
    BY DEF WriteStep, WriteComplete
  <2>2. NoReq.at = "idle"
    BY DEF NoReq
  <2> QED BY <2>1, <2>2
<1>6. req[k].tab \in Tabs \cup {None} /\ "onboarding" \in Tracked
  BY <1>3, OfTab DEF ReqOk
<1>4. CASE req[k].tab = None
  BY <1>2, <1>4, IdleOk, OneReq DEF Either
<1>5. CASE req[k].tab # None
  <2>1. req' = [req EXCEPT ![k] = q]
    BY <1>2, <1>5
  <2>2. row \in Progress
    BY <1>6 DEF Current, DbTyped, Progress, DataAfter, MergedSteps
  <2>3. q \in Storeds
    BY <1>5, <1>6, <2>2 DEF Storeds
  <2> HIDE DEF q
  <2> QED BY <1>6, <2>1, <2>3, PlainOk, OneReq
<1> QED BY <1>4, <1>5
LEMMA OpenOk ==
  ASSUME Current, NEW t \in Tabs, NEW p \in Pages, NEW k \in Reqs, Open(t, p, k) PROVE ReqsOk
<1>1. ASSUME NEW j \in Reqs PROVE ReqOk(req'[j], db, since, clock)
  <2>1. ReqOk(req[j], db, since, clock) /\ DbTyped
    BY DEF Current
  <2>2. \/ req'[j] = NewLoad(t) \/ req'[j] = req[j] \/ req'[j] = NoReq
        \/ req[j].at \in Unwritten /\ req'[j] = [req[j] EXCEPT !.tab = None]
    BY DEF Open
  <2> QED BY <2>1, <2>2, NewLoadOk, IdleOk, DetachOk
<1>2. req' = [j \in Reqs |-> req'[j]]
  BY DEF Open
<1> QED BY <1>1, <1>2 DEF ReqsOk, Either

LEMMA ReqsStep == Current /\ [Next]_vars => ReqsOk
<1> SUFFICES ASSUME Current, [Next]_vars PROVE ReqsOk
  OBVIOUS
<1>1. ASSUME NEW t \in Tabs, NEW k \in Reqs, Refresh(t, k) PROVE ReqsOk
  BY <1>1, NewLoadOk, OneReq DEF Refresh, Either, Current
<1>2. ASSUME NEW t \in Tabs, NEW k \in Reqs, NEW r \in Tracked, Act(t, r, k) PROVE ReqsOk
  <2>1. [at |-> "acted", tab |-> t] \in Acteds
    BY DEF Acteds
  <2> QED BY <1>2, <2>1, PlainOk, OneReq DEF Act
<1>3. ASSUME NEW t \in Tabs, NEW k \in Reqs, NEW s \in Steps, SaveStep(t, s, k) PROVE ReqsOk
  <2>1. [at |-> "step", tab |-> t, step |-> s] \in StepReqs
    BY DEF StepReqs
  <2> QED BY <1>3, <2>1, PlainOk, OneReq DEF SaveStep, OnPage
<1>4. ASSUME NEW t \in Tabs, NEW k \in Reqs, Complete(t, k) PROVE ReqsOk
  <2>1. [at |-> "check", tab |-> t] \in Checks
    BY DEF Checks
  <2> QED BY <1>4, <2>1, PlainOk, OneReq DEF Complete, OnPage
<1>5. ASSUME NEW k \in Reqs, FinishLoad(k) \/ Lose(k) \/ Stored(k) PROVE ReqsOk
  <2>1. req' = [req EXCEPT ![k] = NoReq]
    BY <1>5 DEF FinishLoad, Lose, Stored
  <2> QED BY <2>1, IdleOk, OneReq DEF Either
<1>6. ASSUME NEW k \in Reqs, Answer(k) PROVE ReqsOk
  <2>1. req[k] # NoReq /\ req[k] \in ReqTypes /\ req[k].at \in {"saved", "acted"}
    BY <1>6, OfTab DEF Answer, NoReq, ReqOk
  <2>2. req[k].tab \in Tabs
    BY <2>1, ReqKinds DEF Saveds, Acteds
  <2>3. CASE req' = [req EXCEPT ![k] = NewLoad(req[k].tab)]
    BY <2>2, <2>3, NewLoadOk, OneReq DEF Either, Current
  <2>4. CASE req' = [req EXCEPT ![k] = NoReq]
    BY <2>4, IdleOk, OneReq DEF Either
  <2> QED BY <1>6, <2>3, <2>4 DEF Answer
<1>7. ASSUME NEW k \in Reqs, CheckComplete(k) PROVE ReqsOk
  <2> DEFINE q == [req[k] EXCEPT !.at = "complete"]
  <2>1. req[k] # NoReq /\ req[k].at = "check" /\ req[k] \in ReqTypes
    BY <1>7, OfTab DEF CheckComplete, NoReq, ReqOk
  <2>2. req[k] \in Checks /\ "onboarding" \in Tracked
    BY <2>1, ReqKinds, OfTab DEF ReqOk
  <2>3. q \in Checks /\ req' = [req EXCEPT ![k] = q]
    BY <1>7, <2>2 DEF CheckComplete, Checks
  <2> HIDE DEF q
  <2> QED BY <2>2, <2>3, PlainOk, OneReq
<1>8. CASE req' = req
  BY <1>8, SameReqs
<1> QED
  BY <1>1, <1>2, <1>3, <1>4, <1>5, <1>6, <1>7, <1>8, ServeOk, SaveOk, WriteOk, StoreOk, OpenOk
  DEF Next, World, vars

LEMMA CurrentStep == Current /\ [Next]_vars => Current'
<1> SUFFICES ASSUME Current, [Next]_vars PROVE Current'
  OBVIOUS
<1>1. /\ DbTyped /\ DbTyped' /\ clock <= clock'
      /\ \A r \in Forms : Aged(r)
  BY DbStep, CurrentTyped DEF Current
<1>2. PagesOk /\ ReqsOk
  BY PagesStep, ReqsStep
<1>3. ASSUME NEW t \in Tabs PROVE PageOk(tab'[t], db', since', clock')
  BY <1>1, <1>2, PageAges DEF PagesOk
<1>4. ASSUME NEW k \in Reqs PROVE ReqOk(req'[k], db', since', clock')
  BY <1>1, <1>2, ReqAges DEF ReqsOk, Either
<1>5. tab' \in [Tabs -> PageTypes] /\ req' \in [Reqs -> ReqTypes]
  BY <1>2, <1>3, <1>4 DEF PagesOk, ReqsOk, PageOk, ReqOk
<1> QED BY <1>1, <1>3, <1>4, <1>5 DEF Current

LEMMA CurrentInit == Init => Current
<1> SUFFICES ASSUME Init PROVE Current
  OBVIOUS
<1>1. DbTyped
  <2>1. db \in [Tracked -> Values]
    BY DEF Init, Values, Row, Progress
  <2>2. \A r \in Forms : db[r] \in Row
    BY FormsFacts DEF Init, Row
  <2>3. "onboarding" \in Tracked => db["onboarding"] \in Progress
    BY DEF Init, Progress
  <2>4. /\ clock = 0 /\ since \in [Forms -> [Fields -> Nat]]
        /\ \A r \in Forms : \A f \in Fields : since[r][f] = 0
    BY DEF Init
  <2> QED BY <2>1, <2>2, <2>3, <2>4 DEF DbTyped
<1>2. PageOk(Closed, db, since, clock)
  <2>1. Unloaded \in [Tracked -> Values]
    BY DEF Unloaded, Values
  <2>2. Closed \in PageTypes
    BY <2>1 DEF Closed, PageTypes
  <2>3. /\ Closed.copy = Unloaded
        /\ \A r \in Forms : Closed.seen[r] = 0 /\ Closed.newest[r] = 0
    BY DEF Closed
  <2> QED BY <1>1, <2>2, <2>3, FormsFacts DEF PageOk, FreshIn, Unloaded, DbTyped
<1>3. ReqOk(NoReq, db, since, clock)
  BY IdleOk
<1>4. tab = [t \in Tabs |-> Closed] /\ req = [k \in Reqs |-> NoReq]
  BY DEF Init
<1>5. Closed \in PageTypes /\ NoReq \in ReqTypes
  BY <1>2, <1>3 DEF PageOk, ReqOk
<1> QED BY <1>1, <1>2, <1>3, <1>4, <1>5 DEF Current

LEMMA AlwaysCurrent == Spec => []Current
BY CurrentInit, CurrentStep, PTL DEF Spec

\* A save never undoes a change that its page had been shown.
LEMMA UnseenStep ==
  Current /\ [Next]_vars =>
    [\A k \in Reqs :
       req[k].at = "save" /\ clock' > clock /\ req'[k] # req[k] /\ ~req[k].overtaken =>
         \A f \in Fields \ req[k].touched :
           db'[req[k].row][f] # db[req[k].row][f] =>
             since[req[k].row][f] > req[k].newest]_vars
<1> SUFFICES ASSUME Current, [Next]_vars, NEW k \in Reqs,
                    req[k].at = "save", clock' > clock, req'[k] # req[k], ~req[k].overtaken,
                    NEW f \in Fields \ req[k].touched,
                    db'[req[k].row][f] # db[req[k].row][f]
             PROVE  since[req[k].row][f] > req[k].newest
  OBVIOUS
<1>1. /\ req[k] \in Saves /\ clock \in Nat /\ db \in [Tracked -> Values]
      /\ since \in [Forms -> [Fields -> Nat]]
  BY ReqKinds DEF Current, DbTyped
<1>2. req[k].row \in Forms /\ req[k].row \in Tracked /\ req[k].newest \in Nat
  BY <1>1, FormsFacts DEF Saves
<1>3. Write(k)
  <2>1. ASSUME NEW j \in Reqs, j # k, req' = [req EXCEPT ![j] = req'[j]] PROVE FALSE
    BY <2>1 DEF Current
  <2>2. clock' # clock
    BY <1>1
  <2>3. CASE \E j \in Reqs : Write(j)
    <3>1. PICK j \in Reqs : Write(j)
      BY <2>3
    <3>2. CASE j # k
      BY <2>1, <3>1, <3>2 DEF Write, Current
    <3> QED BY <3>1, <3>2
  <2>4. ASSUME NEW t \in Tabs, NEW r \in Tracked, NEW j \in Reqs, Act(t, r, j) PROVE FALSE
    <3>1. j # k
      BY <2>4 DEF Act, NoReq
    <3> QED BY <2>1, <2>4, <3>1 DEF Act, Current
  <2>5. ASSUME NEW j \in Reqs, WriteStep(j) \/ WriteComplete(j) PROVE FALSE
    <3>1. j # k
      BY <2>5 DEF WriteStep, WriteComplete
    <3> QED BY <2>1, <2>5, <3>1 DEF WriteStep, WriteComplete, StoreOnboarding, Current
  <2> QED
    BY <2>2, <2>3, <2>4, <2>5
    DEF Next, Open, Refresh, Save, SaveStep, Complete, Serve, FinishLoad, Lose, Answer,
        CheckComplete, Stored, World, vars
<1>4. db'[req[k].row][f] = req[k].copy[f]
  BY <1>1, <1>2, <1>3 DEF Write
<1>5. since[req[k].row][f] <= req[k].newest => req[k].copy[f] = db[req[k].row][f]
  BY DEF Current, ReqOk
<1> QED BY <1>1, <1>2, <1>4, <1>5

\* A save overwrites a field its owner did not touch only with a change to it
\* that the page could not know of when Save was pressed.
THEOREM OnlyUnseen == Spec => OverwritesOnlyUnseen
BY UnseenStep, AlwaysCurrent, PTL DEF Spec, OverwritesOnlyUnseen
-----------------------------------------------------------------------------
(* Onboarding.                                                             *)

\* Between its check and its write, a request to complete knows that every
\* checkpoint is saved; checkpoints are never taken back.
AllSaved == Steps \subseteq db["onboarding"].steps
Checked == "onboarding" \in Tracked =>
             /\ db["onboarding"].completed => AllSaved
             /\ \A k \in Reqs : req[k].at = "complete" => AllSaved

LEMMA CheckedStep == Current /\ Checked /\ [Next]_vars => Checked'
<1> SUFFICES ASSUME Current, Checked, [Next]_vars, "onboarding" \in Tracked
             PROVE  /\ db'["onboarding"].completed => AllSaved'
                    /\ \A k \in Reqs : req'[k].at = "complete" => AllSaved'
  BY DEF Checked
<1>1. Typed /\ db \in [Tracked -> Values]
  BY CurrentTyped DEF Current, DbTyped
<1>2. CASE \E k \in Reqs : WriteStep(k) \/ WriteComplete(k)
  <2>1. PICK k \in Reqs : WriteStep(k) \/ WriteComplete(k)
    BY <1>2
  <2>2. /\ AllSaved => AllSaved'
        /\ db'["onboarding"].completed => WriteComplete(k)
    BY <1>1, <2>1, StoreDb DEF AllSaved
  <2>3. WriteComplete(k) => AllSaved
    BY DEF WriteComplete, Checked
  <2>4. ASSUME NEW j \in Reqs, req'[j].at = "complete" PROVE AllSaved
    <3>1. req'[k].at # "complete"
      BY <2>1 DEF WriteStep, WriteComplete, StoreOnboarding, NoReq, Current
    <3>2. req'[j] = req[j]
      BY <2>1, <2>4, <3>1 DEF WriteStep, WriteComplete, StoreOnboarding, Current
    <3> QED BY <2>4, <3>2 DEF Checked
  <2> QED BY <2>2, <2>3, <2>4
<1>3. CASE ~ \E k \in Reqs : WriteStep(k) \/ WriteComplete(k)
  <2>1. db'["onboarding"] = db["onboarding"]
    <3>1. ASSUME NEW k \in Reqs, Write(k) PROVE db'["onboarding"] = db["onboarding"]
      BY <1>1, <3>1, WriteDb, FormsFacts
    <3>2. ASSUME NEW r \in Tracked \ (Forms \cup {"onboarding"}), Flip(r)
          PROVE  db'["onboarding"] = db["onboarding"]
      BY <1>1, <3>2 DEF Flip
    <3> QED BY <1>1, <1>3, <3>1, <3>2, DbCases
  <2>2. ASSUME NEW j \in Reqs, req'[j].at = "complete" PROVE AllSaved
    <3>1. CASE req'[j] = req[j]
      BY <2>2, <3>1 DEF Checked
    <3>2. CASE \E k \in Reqs : CheckComplete(k)
      BY <3>2 DEF CheckComplete, AllSaved
    <3>3. CASE req'[j] # req[j] /\ ~ \E k \in Reqs : CheckComplete(k)
      <4>1. req'[j] \in ReqTypes /\ req[j] \in ReqTypes
        BY CurrentStep DEF Current
      <4>2. NoReq.at # "complete" /\ \A t : NewLoad(t).at # "complete"
        BY DEF NoReq, NewLoad
      <4>3. ASSUME NEW t \in Tabs, NEW p \in Pages, NEW k \in Reqs, Open(t, p, k)
            PROVE  AllSaved
        <5>1. req'[j] = [req[j] EXCEPT !.tab = None] /\ req[j].at \in Unwritten
          BY <2>2, <3>3, <4>2, <4>3 DEF Open
        <5>2. req[j].at = "complete"
          BY <2>2, <4>1, <5>1 
        <5> QED BY <5>2 DEF Checked
      <4>4. ASSUME NEW k \in Reqs, NEW r \in Tracked, Serve(k, r) PROVE FALSE
        <5>1. k = j
          BY <3>3, <4>4 DEF Serve, Current
        <5>2. req[j] \in Loads
          BY <4>1, <4>4, <5>1, ReqKinds DEF Serve
        <5>3. req'[j].at = "reading"
          BY <4>4, <5>1, <5>2 DEF Serve, Current, Loads
        <5> QED BY <2>2, <5>3
      <4>5. ASSUME NEW k \in Reqs, NEW q, q.at # "complete", req' = [req EXCEPT ![k] = q]
            PROVE  FALSE
        BY <2>2, <3>3, <4>5 DEF Current
      <4>6. ASSUME NEW t \in Tabs, NEW k \in Reqs,
                   \/ Refresh(t, k)
                   \/ \E r \in Tracked : Act(t, r, k)
                   \/ \E r \in Forms, touched \in SUBSET Fields : Save(t, r, touched, k)
                   \/ \E s \in Steps : SaveStep(t, s, k)
                   \/ Complete(t, k)
            PROVE  FALSE
        <5>1. CASE Refresh(t, k)
          BY <4>2, <4>5, <5>1 DEF Refresh
        <5>2. CASE \E r \in Tracked : Act(t, r, k)
          BY <4>5, <5>2 DEF Act
        <5>3. ASSUME NEW r \in Forms, NEW touched \in SUBSET Fields, Save(t, r, touched, k)
              PROVE  FALSE
          BY <4>5, <5>3 DEF Save
        <5>4. CASE \E s \in Steps : SaveStep(t, s, k)
          BY <4>5, <5>4 DEF SaveStep
        <5>5. CASE Complete(t, k)
          BY <4>5, <5>5 DEF Complete
        <5> QED BY <4>6, <5>1, <5>2, <5>3, <5>4, <5>5
      <4>7. ASSUME NEW k \in Reqs, FinishLoad(k) \/ Lose(k) \/ Answer(k) \/ Stored(k)
            PROVE  FALSE
        BY <4>2, <4>5, <4>7 DEF FinishLoad, Lose, Answer, Stored
      <4>8. ASSUME NEW k \in Reqs, Write(k) PROVE FALSE
        BY <4>2, <4>5, <4>8 DEF Write
      <4>9. req' # req
        BY <3>3
      <4> QED
        BY <1>3, <3>3, <4>3, <4>4, <4>6, <4>7, <4>8, <4>9 DEF Next, World, vars
    <3> QED BY <3>1, <3>2, <3>3
  <2> QED BY <2>1, <2>2 DEF Checked, AllSaved
<1> QED BY <1>2, <1>3

\* Onboarding is completed only with every checkpoint saved, however
\* OnboardingService.save's check and its write interleave with checkpoints.
THEOREM CompletedMeansAll == Spec => []CompleteMeansAll
<1>1. Init => Checked
  BY DEF Init, Checked, NoReq
<1>2. Checked => CompleteMeansAll
  BY DEF Checked, AllSaved, CompleteMeansAll
<1> QED BY <1>1, <1>2, CheckedStep, AlwaysCurrent, PTL DEF Spec
-----------------------------------------------------------------------------
(* What search finds.                                                      *)

\* A set of numbers has a least one.
LEMMA LeastNat ==
  ASSUME NEW T \in SUBSET Nat, T # {}
  PROVE  \E x \in T : \A y \in T : x <= y
<1> DEFINE R == OpToRel(<, Nat)
<1>1. \A a, b \in Nat : a < b => <<a, b>> \in R
  BY DEF OpToRel
<1>2. IsWellFoundedOn(R, Nat)
  BY NatLessThanWellFounded
<1> HIDE DEF R
<1>3. PICK x \in T : \A y \in T : ~ (<<y, x>> \in R)
  BY <1>2, WFMin
<1>4. ASSUME NEW y \in T PROVE x <= y
  <2>1. x \in Nat /\ y \in Nat /\ ~ (<<y, x>> \in R)
    BY <1>3
  <2>2. ~ (y < x)
    BY <1>1, <2>1
  <2> QED BY <2>1, <2>2
<1> QED BY <1>4

\* What a customer or an owner writes, as far as search looks at it.
Query(q) == q \subseteq Words /\ q # {} /\ IsFiniteSet(q)

LEMMA TermsFacts ==
  ASSUME NEW q, Query(q)
  PROVE  /\ Terms(q) \subseteq Normal(q) /\ Terms(q) # {} /\ IsFiniteSet(Terms(q))
         /\ \A w \in Terms(q) : w \in Words /\ Plain[w] = w
<1> DEFINE f == [w \in q |-> Plain[w]]
<1>1. f \in Surjection(q, Normal(q))
  BY DEF Surjection, Normal
<1> HIDE DEF f
<1>2. IsFiniteSet(Normal(q))
  BY <1>1, FS_Surjection DEF Query
<1>3. Normal(q) # {} /\ \A w \in Normal(q) : w \in Words /\ Plain[w] = w
  BY PlainAssumption DEF Normal, Query
<1>4. Terms(q) \subseteq Normal(q) /\ Terms(q) # {}
  BY <1>3 DEF Terms
<1> QED BY <1>2, <1>3, <1>4, FS_Subset

\* A score is a number that does not exceed ten for each term, and three.
LEMMA ScoreFacts ==
  ASSUME NEW q, Query(q), NEW s
  PROVE  /\ Score(s, q) \in Nat
         /\ Score(s, q) <= 3 + 10 * Cardinality(Terms(q))
         /\ Cardinality(Terms(q)) \in Nat
         /\ SourceTopics[s.type] \cap TopicsOf(q) # {} => Score(s, q) > 0
         /\ Terms(q) \cap Normal(s.title) # {} => Score(s, q) > 0
         /\ Terms(q) \cap Normal(s.content) # {} => Score(s, q) > 0
<1> DEFINE a == IF SourceTopics[s.type] \cap TopicsOf(q) # {} THEN 3 ELSE 0
           T == Terms(q)
           b == T \cap Normal(s.title)
           c == T \cap Normal(s.content)
<1>1. IsFiniteSet(T)
  BY TermsFacts
<1> HIDE DEF T
<1>2. /\ Cardinality(T) \in Nat
      /\ IsFiniteSet(b) /\ Cardinality(b) \in Nat /\ Cardinality(b) <= Cardinality(T)
      /\ IsFiniteSet(c) /\ Cardinality(c) \in Nat /\ Cardinality(c) <= Cardinality(T)
  BY <1>1, FS_Intersection, FS_CardinalityType
<1>3. /\ b # {} => Cardinality(b) > 0
      /\ c # {} => Cardinality(c) > 0
  <2> HIDE DEF b, c
  <2> QED BY <1>2, FS_EmptySet
<1>4. a \in {0, 3} /\ (SourceTopics[s.type] \cap TopicsOf(q) # {} => a = 3)
  OBVIOUS
<1>5. Score(s, q) = (a + (8 * Cardinality(b))) + (2 * Cardinality(c))
  BY DEF Score, T
<1>6. /\ b # {} <=> Terms(q) \cap Normal(s.title) # {}
      /\ c # {} <=> Terms(q) \cap Normal(s.content) # {}
  BY DEF T
<1> DEFINE B == Cardinality(b)
           C == Cardinality(c)
           N == Cardinality(T)
           S == Score(s, q)
<1>7. /\ B \in Nat /\ C \in Nat /\ N \in Nat /\ B <= N /\ C <= N
      /\ a \in {0, 3} /\ S = (a + (8 * B)) + (2 * C)
  BY <1>2, <1>4, <1>5
<1>8. (b # {} => B > 0) /\ (c # {} => C > 0)
  BY <1>3
<1>9. N = Cardinality(Terms(q)) /\ S = Score(s, q)
  BY DEF T
<1> HIDE DEF a, b, c, B, C, N, S
<1>10. S \in Nat /\ S <= 3 + 10 * N /\ (a = 3 \/ B > 0 \/ C > 0 => S > 0)
  BY <1>7
<1> QED BY <1>4, <1>6, <1>7, <1>8, <1>9, <1>10

\* Whenever some source has a score, the best of them is among those given to
\* the model: there is one that no other goes before.
LEMMA BestIsRanked ==
  ASSUME NEW q, Query(q), NEW sources, \A s \in sources : s.id \in Nat,
         NEW s0 \in sources, Score(s0, q) > 0, NEW limit \in Nat \ {0}
  PROVE  Ranked(sources, q, limit) # {}
<1> DEFINE scored == {s \in sources : Score(s, q) > 0}
           Before(s, t) == \/ Score(s, q) > Score(t, q)
                           \/ Score(s, q) = Score(t, q) /\ s.id < t.id
           bound == 3 + 10 * Cardinality(Terms(q))
           gaps == {n \in Nat : \E s \in scored : n = bound - Score(s, q)}
<1>1. bound \in Nat
  BY ScoreFacts
<1>2. \A s \in scored : Score(s, q) \in Nat /\ Score(s, q) <= bound
  BY ScoreFacts
<1> HIDE DEF bound
<1>3. \A s \in scored : bound - Score(s, q) \in gaps
  BY <1>1, <1>2
<1>4. PICK gap \in gaps : \A n \in gaps : gap <= n
  <2>1. s0 \in scored
    OBVIOUS
  <2>2. gaps \in SUBSET Nat /\ gaps # {}
    BY <1>3, <2>1
  <2> HIDE DEF gaps
  <2> QED BY <2>2, LeastNat
<1>5. PICK b \in scored : gap = bound - Score(b, q)
  OBVIOUS
<1>6. \A s \in scored : Score(s, q) <= Score(b, q)
  BY <1>1, <1>2, <1>3, <1>4, <1>5
<1> DEFINE ids == {n \in Nat : \E s \in scored : n = s.id /\ Score(s, q) = Score(b, q)}
<1>7. PICK id \in ids : \A n \in ids : id <= n
  <2>1. ids \in SUBSET Nat /\ b.id \in ids
    OBVIOUS
  <2>2. ids # {}
    BY <2>1
  <2> HIDE DEF ids
  <2> QED BY <2>1, <2>2, LeastNat
<1>8. PICK t \in scored : id = t.id /\ Score(t, q) = Score(b, q)
  OBVIOUS
<1>9. ASSUME NEW s \in scored, Before(s, t) PROVE FALSE
  <2>1. /\ Score(s, q) \in Nat /\ Score(b, q) \in Nat /\ Score(s, q) <= Score(b, q)
        /\ s.id \in Nat /\ t.id \in Nat
    BY <1>2, <1>6
  <2>2. Score(s, q) = Score(b, q) /\ s.id < t.id
    BY <1>8, <1>9, <2>1
  <2>3. s.id \in ids
    BY <2>1, <2>2
  <2> QED BY <1>7, <1>8, <2>1, <2>2, <2>3
<1>10. {s \in scored : Before(s, t)} = {}
  BY <1>9
<1>11. Cardinality({s \in scored : Before(s, t)}) = 0
  BY <1>10, FS_EmptySet
<1>12. t \in Ranked(sources, q, limit)
  BY <1>11 DEF Ranked
<1> QED BY <1>12

\* The sources are numbered, and typed.
SourcesTyped ==
  \A s \in Sources : s.id \in Nat /\ s.type \in DOMAIN Broad

LEMMA EntriesTyped ==
  ASSUME faqs \in Seq(Entries)
  PROVE  SourcesTyped
<1>1. ASSUME NEW s \in Catalog PROVE s.id \in Nat /\ s.type \in DOMAIN Broad
  BY LearningAssumption
<1>2. ASSUME NEW i \in DOMAIN faqs PROVE Entry(i).id \in Nat /\ Entry(i).type \in DOMAIN Broad
  BY DEF Entry, Broad
<1> QED BY <1>1, <1>2 DEF SourcesTyped, Sources

LEMMA QuestionsAsked ==
  /\ \A q \in Questions : Query(q)
  /\ \A w \in Words : Query({w})
<1>1. ASSUME NEW q \in Questions PROVE Query(q)
  BY LearningAssumption DEF Query, Texts
<1>2. ASSUME NEW w \in Words PROVE Query({w})
  BY FS_Singleton DEF Query
<1> QED BY <1>1, <1>2

\* A row that was selected by what its source shows has a score.
LEMMA SelectedScores ==
  ASSUME NEW q, Query(q), NEW s, Selected(s, q),
         s.searched \subseteq s.title \cup s.content
  PROVE  Score(s, q) > 0
<1>1. CASE TopicsOf(q) \cap Broad[s.type] # {}
  <2>1. SourceTopics[s.type] \cap TopicsOf(q) # {}
    BY <1>1 DEF SourceTopics, Broad
  <2> QED BY <2>1, ScoreFacts
<1>2. CASE Terms(q) \cap s.searched # {}
  <2>1. PICK w \in Terms(q) : w \in s.searched
    BY <1>2
  <2>2. Plain[w] = w
    BY TermsFacts
  <2>3. w \in Normal(s.title) \/ w \in Normal(s.content)
    BY <2>1, <2>2 DEF Normal
  <2>4. Terms(q) \cap Normal(s.title) # {} \/ Terms(q) \cap Normal(s.content) # {}
    BY <2>1, <2>3
  <2> QED BY <2>4, ScoreFacts
<1> QED BY <1>1, <1>2 DEF Selected

\* Search and ranking agree on what is relevant: no row selected by words that
\* its source shows, or by topic, is dropped as worthless.
THEOREM RankingAgrees == LearningSpec => []SelectedIsRanked
<1>1. SelectedIsRanked
  BY QuestionsAsked, SelectedScores DEF SelectedIsRanked
<1> QED BY <1>1, PTL
-----------------------------------------------------------------------------
(* What the owner taught.                                                  *)

Statuses == {"NONE", "OPEN", "RESOLVED"}

\* A question that was resolved names an entry, and entries are never removed.
Learned ==
  /\ faqs \in Seq(Entries)
  /\ ask \in [Asks -> [at : {"idle", "record", "generate"}, question : Questions \cup {{}}]]
  /\ list \in [Keys -> [status : Statuses, example : Questions \cup {{}}, faq : Nat]]
  /\ \A k \in Keys : list[k].status = "RESOLVED" => list[k].faq \in DOMAIN faqs

LEMMA LearnedInit == LearningInit => Learned
  BY DEF LearningInit, Learned, Statuses, NotAsked, NoAsk

\* One more entry, and what a resolved question names stays there.
LEMMA Appended ==
  ASSUME Learned, NEW q \in Questions, NEW answer \in Answers, NEW active \in BOOLEAN,
         faqs' = Append(faqs, [question |-> q, answer |-> answer, active |-> active])
  PROVE  /\ faqs' \in Seq(Entries)
         /\ DOMAIN faqs \subseteq DOMAIN faqs'
         /\ \A i \in DOMAIN faqs : faqs'[i] = faqs[i]
         /\ Len(faqs') \in DOMAIN faqs' /\ Len(faqs') \in Nat
<1> DEFINE entry == [question |-> q, answer |-> answer, active |-> active]
<1>1. entry \in Entries
  BY DEF Entries
<1> HIDE DEF entry
<1>2. faqs \in Seq(Entries) /\ faqs' = Append(faqs, entry)
  BY DEF Learned, entry
<1> QED BY <1>1, <1>2

LEMMA LearnedStep == Learned /\ [LearningNext]_learningVars => Learned'
<1> SUFFICES ASSUME Learned, [LearningNext]_learningVars PROVE Learned'
  OBVIOUS
<1>1. ASSUME NEW a \in Asks, NEW q \in Questions, Ask(a, q) PROVE Learned'
  <2> DEFINE at == IF Search(Sources, q, Limit) = {} THEN "record" ELSE "generate"
  <2>1. at \in {"idle", "record", "generate"}
    OBVIOUS
  <2>2. ask' = [ask EXCEPT ![a] = [at |-> at, question |-> q]] /\ UNCHANGED <<faqs, list>>
    BY <1>1 DEF Ask
  <2> HIDE DEF at
  <2> QED BY <2>1, <2>2 DEF Learned
<1>2. ASSUME NEW a \in Asks, Generate(a) PROVE Learned'
  BY <1>2 DEF Generate, Learned, NoAsk
<1>3. ASSUME NEW a \in Asks, Record(a) PROVE Learned'
  <2>1. /\ UNCHANGED faqs /\ ask' = [ask EXCEPT ![a] = NoAsk]
        /\ list' = [list EXCEPT ![Normal(ask[a].question)] =
                      [status |-> "OPEN", example |-> ask[a].question, faq |-> 0]]
    BY <1>3 DEF Record
  <2>2. ask[a].question \in Questions \cup {{}}
    BY DEF Learned
  <2>3. ask' \in [Asks -> [at : {"idle", "record", "generate"}, question : Questions \cup {{}}]]
    BY <2>1 DEF Learned, NoAsk
  <2>4. list' \in [Keys -> [status : Statuses, example : Questions \cup {{}}, faq : Nat]]
    BY <2>1, <2>2 DEF Learned, Statuses
  <2>5. ASSUME NEW k \in Keys, list'[k].status = "RESOLVED" PROVE list'[k].faq \in DOMAIN faqs
    BY <2>1, <2>5 DEF Learned
  <2> QED BY <2>1, <2>3, <2>4, <2>5 DEF Learned
<1>4. ASSUME NEW a \in Asks, DropAsk(a) PROVE Learned'
  BY <1>4 DEF DropAsk, Learned, NoAsk
<1>5. ASSUME NEW q \in Questions, NEW answer \in Answers, NEW active \in BOOLEAN,
             CreateFaq(q, answer, active)
      PROVE Learned'
  BY <1>5, Appended DEF CreateFaq, Learned
<1>6. ASSUME NEW k \in Keys, NEW q \in Questions, NEW answer \in Answers, Teach(k, q, answer)
      PROVE Learned'
  <2>1. /\ faqs' = Append(faqs, [question |-> q, answer |-> answer, active |-> TRUE])
        /\ list' = [list EXCEPT ![k].status = "RESOLVED", ![k].faq = Len(faqs')]
        /\ UNCHANGED ask
    BY <1>6 DEF Teach
  <2>2. /\ faqs' \in Seq(Entries) /\ DOMAIN faqs \subseteq DOMAIN faqs'
        /\ Len(faqs') \in DOMAIN faqs' /\ Len(faqs') \in Nat
    BY <2>1, Appended
  <2> DEFINE row == [list[k] EXCEPT !.status = "RESOLVED", !.faq = Len(faqs')]
  <2>3. list' = [list EXCEPT ![k] = row]
    BY <2>1
  <2>4. /\ row \in [status : Statuses, example : Questions \cup {{}}, faq : Nat]
        /\ row.faq = Len(faqs')
    <3>1. list[k] \in [status : Statuses, example : Questions \cup {{}}, faq : Nat]
      BY DEF Learned
    <3> QED BY <2>2, <3>1 DEF Statuses
  <2> HIDE DEF row
  <2>5. /\ list' \in [Keys -> [status : Statuses, example : Questions \cup {{}}, faq : Nat]]
        /\ list'[k] = row /\ \A j \in Keys \ {k} : list'[j] = list[j]
    BY <2>3, <2>4 DEF Learned
  <2>6. ASSUME NEW j \in Keys, list'[j].status = "RESOLVED" PROVE list'[j].faq \in DOMAIN faqs'
    <3>1. CASE j = k
      BY <2>2, <2>4, <2>5, <3>1
    <3>2. CASE j # k
      <4>1. list[j].faq \in DOMAIN faqs /\ list'[j] = list[j]
        BY <2>5, <2>6, <3>2 DEF Learned
      <4> QED BY <2>2, <4>1
    <3> QED BY <3>1, <3>2
  <2> QED BY <2>1, <2>2, <2>5, <2>6 DEF Learned
<1>7. ASSUME NEW e \in EditCalls, FinishEdit(e) PROVE Learned'
  <2>1. PICK entry \in Entries : faqs' = [faqs EXCEPT ![edit[e].faq] = entry]
    BY <1>7 DEF FinishEdit
  <2>2. faqs \in [1..Len(faqs) -> Entries] /\ Len(faqs) \in Nat
    BY DEF Learned
  <2>3. faqs' \in [1..Len(faqs) -> Entries] /\ DOMAIN faqs' = DOMAIN faqs
    BY <2>1, <2>2
  <2>4. faqs' \in Seq(Entries)
    BY <2>2, <2>3
  <2> QED BY <1>7, <2>3, <2>4 DEF FinishEdit, Learned
<1>8. ASSUME NEW e \in EditCalls, DropEdit(e) PROVE Learned'
  BY <1>8 DEF DropEdit, Learned
<1>9. ASSUME NEW e \in EditCalls, NEW i \in DOMAIN faqs, NEW fields \in Given,
             BeginEdit(e, i, fields)
      PROVE Learned'
  BY <1>9 DEF BeginEdit, Learned
<1>10. CASE UNCHANGED learningVars
  BY <1>10 DEF learningVars, Learned
<1> QED BY <1>1, <1>2, <1>3, <1>4, <1>5, <1>6, <1>7, <1>8, <1>9, <1>10 DEF LearningNext

LEMMA AlwaysLearned == LearningSpec => []Learned
  BY LearnedInit, LearnedStep, PTL DEF LearningSpec

\* Once its answer was taught, a question worded without accents is found again,
\* for any words, sources and rankings: what recordUnanswered and searchFaqs
\* take for the same question is the same.
THEOREM TeachingHelps == LearningSpec => []TaughtIsAnswered
<1>1. Learned => TaughtIsAnswered
  <2> SUFFICES ASSUME Learned, NEW q \in Questions, Taught(Normal(q)),
                      NEW wording, wording = faqs[list[Normal(q)].faq].question,
                      Normal(wording) = wording
               PROVE  Search(Sources, q, Limit) # {}
    BY DEF TaughtIsAnswered
  <2> DEFINE i == list[Normal(q)].faq
             found == {s \in Sources : Selected(s, q)}
  <2>1. Normal(q) \in Keys /\ Query(q)
    BY QuestionsAsked DEF Keys
  <2>2. i \in DOMAIN faqs /\ faqs[i].active /\ wording = Normal(q)
    BY <2>1 DEF Taught, Learned
  <2>3. Entry(i) \in Sources
    BY <2>2 DEF Sources
  <2>4. /\ Entry(i).searched = wording \cup faqs[i].answer
        /\ Entry(i).title = wording /\ Entry(i).content = faqs[i].answer
    BY DEF Entry
  <2>5. PICK w \in Terms(q) : w \in wording
    BY <2>1, <2>2, TermsFacts
  <2>6. Selected(Entry(i), q)
    BY <2>4, <2>5 DEF Selected
  <2>7. Score(Entry(i), q) > 0
    BY <2>1, <2>4, <2>6, SelectedScores
  <2>8. \A s \in found : s.id \in Nat
    BY EntriesTyped DEF Learned, SourcesTyped
  <2>9. Entry(i) \in found
    BY <2>3, <2>6
  <2> HIDE DEF found
  <2>10. Ranked(found, q, Limit) # {}
    BY <2>1, <2>7, <2>8, <2>9, BestIsRanked, LearningAssumption
  <2> QED BY <2>10 DEF Search, found
<1> QED BY <1>1, AlwaysLearned, PTL

\* No step changes a field of an entry but an edit that was asked to, or that
\* read it as it leaves it: updateFaq's read, its write and other edits may
\* come in any order.
THEOREM EditsKeep == LearningSpec => EditsKeepTheRest
<1> DEFINE Kept ==
      \A i \in DOMAIN faqs, f \in EntryFields :
        faqs'[i][f] # faqs[i][f] =>
          \E e \in EditCalls :
            /\ edit[e].at = "write" /\ edit[e].faq = i
            /\ f \in edit[e].asked \/ edit[e].read[f] = faqs'[i][f]
<1>1. ASSUME Learned, LearningNext PROVE Kept
  <2>1. ASSUME UNCHANGED faqs PROVE Kept
    BY <2>1
  <2>2. ASSUME NEW q \in Questions, NEW answer \in Answers, NEW active \in BOOLEAN,
               faqs' = Append(faqs, [question |-> q, answer |-> answer, active |-> active])
        PROVE  Kept
    BY <1>1, <2>2, Appended
  <2>3. ASSUME NEW e \in EditCalls, FinishEdit(e) PROVE Kept
    <3>1. PICK entry \in Entries :
            /\ \A f \in DOMAIN entry \ edit[e].asked : entry[f] = edit[e].read[f]
            /\ faqs' = [faqs EXCEPT ![edit[e].faq] = entry]
      BY <2>3 DEF FinishEdit
    <3>2. DOMAIN entry = EntryFields /\ edit[e].at = "write"
      BY <2>3 DEF Entries, EntryFields, FinishEdit
    <3>3. ASSUME NEW i \in DOMAIN faqs, NEW f \in EntryFields, faqs'[i][f] # faqs[i][f]
          PROVE  /\ edit[e].faq = i
                 /\ f \in edit[e].asked \/ edit[e].read[f] = faqs'[i][f]
      <4>1. i = edit[e].faq /\ faqs'[i] = entry
        BY <3>1, <3>3
      <4> QED BY <3>1, <3>2, <4>1
    <3> QED BY <3>2, <3>3
  <2> HIDE DEF Kept
  <2> QED BY <1>1, <2>1, <2>2, <2>3
          DEF LearningNext, Ask, Generate, Record, DropAsk, CreateFaq, Teach, DropEdit, BeginEdit
<1>2. Learned /\ [LearningNext]_learningVars => [Kept]_learningVars
  BY <1>1
<1> QED BY <1>2, AlwaysLearned, PTL DEF LearningSpec, EditsKeepTheRest
=============================================================================
