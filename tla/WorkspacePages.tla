--------------------------- MODULE WorkspacePages ---------------------------
(***************************************************************************)
(* The tenant's workspace pages over the tenant's rows.  A page loads the  *)
(* rows it shows with one request each, keeps a copy in the browser, lets  *)
(* the owner edit the copies of the rows it has a form for, and saves a    *)
(* form by sending the whole copy back.  Several tabs, and several people, *)
(* do this at once; requests and answers overtake each other.  Onboarding  *)
(* is such a page, with checkpoints instead of forms.                      *)
(***************************************************************************)
EXTENDS Integers, FiniteSets

CONSTANTS Tabs,      \* browser tabs in which the tenant's pages are open
          Reqs,      \* bound: requests in flight
          Pages,     \* bound: pages the instance opens
          Tracked,   \* bound: rows whose content the instance follows
          Fields,    \* fields of a form's row
          Steps,     \* bound: onboarding checkpoints
          None, NotRead,
          MaxWrites  \* bound: saves that reach the rows

VARIABLES db,      \* the rows
          tab,     \* the page each tab shows and its copies
          req,     \* requests in flight
          clock,   \* number of saves so far
          since    \* history: the write that gave each field its value
vars == <<db, tab, req, clock, since>>

-----------------------------------------------------------------------------
(* The pages.                                                              *)

\* A page loads what it shows, has forms for the rows it edits, and buttons
\* that change others, each followed by a load.
OnboardingPage ==
  [shows |-> {"onboarding", "subscription", "billing", "plans", "integrations",
              "services", "staff", "hours"},
   edits |-> {}, acts |-> {}]

\* saveAi, saveMessaging, saveBooking, savePrivacy; whatsappAction.
SettingsPage ==
  [shows |-> {"integrations", "ai", "messaging", "privacy", "booking"},
   edits |-> {"ai", "messaging", "privacy", "booking"}, acts |-> {"integrations"}]

\* saveTemplate, saveLifecycle, savePolicy; createRule, toggleRule.
AutomationPage ==
  [shows |-> {"rules", "audit", "templates", "lifecycle", "messaging"},
   edits |-> {"templates", "lifecycle", "messaging"}, acts |-> {"rules"}]

\* createCampaign, planCampaign, createSurvey.
MarketingPage ==
  [shows |-> {"campaigns", "surveys", "tags", "bookings"},
   edits |-> {}, acts |-> {"campaigns", "surveys"}]

\* saveFaq, on one entry; createFaq, teach.  Part of the settings' AI tab, it
\* loads on its own.
KnowledgePage ==
  [shows |-> {"faqs", "faq", "unanswered"}, edits |-> {"faq"},
   acts |-> {"faqs", "unanswered"}]

AllPages ==
  [Onboarding |-> OnboardingPage, Settings |-> SettingsPage,
   Automation |-> AutomationPage, Marketing |-> MarketingPage,
   Knowledge |-> KnowledgePage]
Shows(p) == AllPages[p].shows
Edits(p) == AllPages[p].edits
Acts(p) == AllPages[p].acts

\* A template and a FAQ are loaded again after a save; the other forms take
\* the row the save answers with.
Reloads == {"templates", "faq"}

\* What a checkpoint confirms; the others only send what was typed.
Confirms == [WHATSAPP |-> "integrations", SERVICES |-> "services",
             STAFF |-> "staff", HOURS |-> "hours"]

Forms == Tracked \cap UNION {Edits(p) : p \in Pages}
Rows(p) == Shows(p) \cap Tracked

ASSUME PagesAssumption ==
  /\ Steps \subseteq {"BUSINESS_PROFILE", "VERTICAL"} \cup DOMAIN Confirms
  /\ Pages \subseteq DOMAIN AllPages
  /\ Tracked \subseteq UNION {Shows(p) : p \in Pages}
  /\ None \notin Tabs /\ MaxWrites \in Nat

NoReq == [at |-> "idle"]
Unloaded == [r \in Tracked |-> NotRead]
Closed == [page |-> None, copy |-> Unloaded, loading |-> FALSE, saving |-> FALSE,
           seen |-> [r \in Forms |-> 0], newest |-> [r \in Forms |-> 0]]

Init ==
  /\ db = [r \in Tracked |->
             IF r = "onboarding" THEN [steps |-> {}, completed |-> FALSE]
             ELSE IF r \in Forms THEN [f \in Fields |-> 0] ELSE TRUE]
  /\ tab = [t \in Tabs |-> Closed]
  /\ req = [k \in Reqs |-> NoReq]
  /\ clock = 0
  /\ since = [r \in Forms |-> [f \in Fields |-> 0]]

-----------------------------------------------------------------------------
(* Loading.                                                                *)

NewLoad(t) == [at |-> "reading", tab |-> t, got |-> Unloaded,
               when |-> [r \in Forms |-> 0]]

\* Opening a page starts its load; the answers to the page shown before go
\* nowhere, what it had sent is still carried out.
Unwritten == {"save", "step", "check", "complete"}
Open(t, p, k) ==
  /\ tab[t].page # p /\ req[k] = NoReq
  /\ tab' = [tab EXCEPT ![t] = [Closed EXCEPT !.page = p, !.loading = TRUE]]
  /\ req' = [j \in Reqs |->
               IF j = k THEN NewLoad(t)
               ELSE IF req[j] = NoReq \/ req[j].tab # t THEN req[j]
               ELSE IF req[j].at \in Unwritten THEN [req[j] EXCEPT !.tab = None]
               ELSE NoReq]
  /\ UNCHANGED <<db, clock, since>>

\* The refresh button, which waits for the load under way.
Refresh(t, k) ==
  /\ tab[t].page # None /\ ~tab[t].loading /\ req[k] = NoReq
  /\ tab' = [tab EXCEPT ![t].loading = TRUE]
  /\ req' = [req EXCEPT ![k] = NewLoad(t)]
  /\ UNCHANGED <<db, clock, since>>

\* One of the requests of Promise.all is served.  The hours of the staff are
\* asked for when the staff is known.
Serve(k, r) ==
  /\ req[k].at = "reading"
  /\ r \in Rows(tab[req[k].tab].page) /\ req[k].got[r] = NotRead
  /\ r = "hours" /\ "staff" \in Tracked => req[k].got["staff"] # NotRead
  /\ req' = [req EXCEPT ![k].got[r] = db[r],
                           ![k].when = [x \in Forms |-> IF x = r THEN clock ELSE @[x]]]
  /\ UNCHANGED <<db, tab, clock, since>>

\* The copy of a row is replaced by an answer that was read at some time.
LargerOf(a, b) == IF a > b THEN a ELSE b
ShowSaved(page, r, row, when) ==
  [page EXCEPT !.copy[r] = row, !.seen[r] = when,
               !.newest[r] = LargerOf(@, when)]

\* All answers are there: every copy is replaced, and what was typed into a
\* form since then is gone.
FirstOnly(page) == {r \in Rows(page.page) : page.copy[r] = NotRead}  \* mutant:
                        \* a form keeps the copy it was first filled with
Replaced(page) == Rows(page.page)
Loaded(page, load) ==
  LET Heard(r) == r \in Rows(page.page)
  IN [page EXCEPT
        !.copy = [r \in Tracked |-> IF r \in Replaced(page) THEN load.got[r] ELSE @[r]],
        !.seen = [r \in Forms |-> IF Heard(r) THEN load.when[r] ELSE @[r]],
        !.newest = [r \in Forms |-> IF Heard(r) THEN LargerOf(@[r], load.when[r])
                                               ELSE @[r]],
        !.loading = FALSE]
FinishLoad(k) ==
  LET t == req[k].tab
  IN /\ req[k].at = "reading"
     /\ \A r \in Rows(tab[t].page) : req[k].got[r] # NotRead
     /\ tab' = [tab EXCEPT ![t] = Loaded(@, req[k])]
     /\ req' = [req EXCEPT ![k] = NoReq]
     /\ UNCHANGED <<db, clock, since>>

\* A request of the page fails, or its answer is lost; the page shows an
\* error and keeps what it has.
Lose(k) ==
  LET t == req[k].tab
  IN /\ req[k] # NoReq
     /\ tab' = IF t = None THEN tab
               ELSE [tab EXCEPT ![t].loading = IF req[k].at = "reading" THEN FALSE ELSE @,
                                ![t].saving = IF req[k].at = "reading" THEN @ ELSE FALSE]
     /\ req' = [req EXCEPT ![k] = NoReq]
     /\ UNCHANGED <<db, clock, since>>

-----------------------------------------------------------------------------
(* Forms.                                                                  *)

\* saveAi, saveMessaging, savePolicy, saveBooking, savePrivacy, saveLifecycle,
\* saveTemplate, saveFaq: the whole copy is sent, with the fields the owner
\* has changed since the copy was shown.
Save(t, r, touched, k) ==
  /\ tab[t].page # None /\ req[k] = NoReq
  /\ r \in Edits(tab[t].page) \cap Tracked /\ tab[t].copy[r] # NotRead
  /\ req' = [req EXCEPT ![k] =
       [at |-> "save", tab |-> t, row |-> r, copy |-> tab[t].copy[r],
        touched |-> touched, newest |-> tab[t].newest[r],
        overtaken |-> tab[t].seen[r] < tab[t].newest[r]]]
  /\ UNCHANGED <<db, tab, clock, since>>

\* The server stores the row it was sent.
Write(k) ==
  LET r == req[k].row
      new == [f \in Fields |-> IF f \in req[k].touched THEN clock + 1
                               ELSE req[k].copy[f]]
  IN /\ req[k].at = "save" /\ clock < MaxWrites
     /\ clock' = clock + 1
     /\ db' = [db EXCEPT ![r] = new]
     /\ since' = [since EXCEPT ![r] = [f \in Fields |->
                    IF new[f] # db[r][f] THEN clock + 1 ELSE @[f]]]
     /\ req' = [req EXCEPT ![k] =
          IF @.tab = None THEN NoReq
          ELSE [at |-> "saved", tab |-> @.tab, row |-> r, new |-> new,
                when |-> clock + 1]]
     /\ UNCHANGED tab

\* The other buttons.
Flip(r) == /\ clock < MaxWrites /\ clock' = clock + 1
           /\ db' = [db EXCEPT ![r] = ~@]
Act(t, r, k) ==
  /\ tab[t].page # None /\ req[k] = NoReq
  /\ r \in Acts(tab[t].page) \cap Tracked /\ tab[t].copy[r] # NotRead
  /\ req' = [req EXCEPT ![k] = [at |-> "acted", tab |-> t]]
  /\ Flip(r)
  /\ UNCHANGED <<tab, since>>

\* The answer to a save becomes the copy, or the page loads again.
Answer(k) ==
  LET t == req[k].tab  r == req[k].row
      reload == req[k].at = "acted" \/ r \in Reloads
  IN /\ req[k].at \in {"saved", "acted"}
     /\ IF reload
        THEN /\ req' = [req EXCEPT ![k] = NewLoad(t)]
             /\ tab' = [tab EXCEPT ![t].loading = TRUE]
        ELSE /\ req' = [req EXCEPT ![k] = NoReq]
             /\ tab' = [tab EXCEPT ![t] =
                  ShowSaved(@, r, req[k].new, req[k].when)]
     /\ UNCHANGED <<db, clock, since>>

-----------------------------------------------------------------------------
(* Onboarding.                                                             *)

Shown(t) == tab[t].copy["onboarding"]
OnPage(t) == /\ "onboarding" \in Tracked
             /\ tab[t].page = "Onboarding" /\ Shown(t) # NotRead /\ ~tab[t].saving

\* canSave: a confirming checkpoint needs what the page last loaded.
CanSave(t, s) ==
  s \in DOMAIN Confirms /\ Confirms[s] \in Tracked => tab[t].copy[Confirms[s]] = TRUE

SaveStep(t, s, k) ==
  /\ OnPage(t) /\ CanSave(t, s) /\ req[k] = NoReq
  /\ tab' = [tab EXCEPT ![t].saving = TRUE]
  /\ req' = [req EXCEPT ![k] = [at |-> "step", tab |-> t, step |-> s]]
  /\ UNCHANGED <<db, clock, since>>

\* The Complete button is there when the page shows every checkpoint saved.
Complete(t, k) ==
  /\ OnPage(t) /\ Steps \subseteq Shown(t).steps /\ ~Shown(t).completed
  /\ req[k] = NoReq
  /\ tab' = [tab EXCEPT ![t].saving = TRUE]
  /\ req' = [req EXCEPT ![k] = [at |-> "check", tab |-> t]]
  /\ UNCHANGED <<db, clock, since>>

\* OnboardingService.save, COMPLETE: the checkpoints are read and compared.
CheckComplete(k) ==
  /\ req[k].at = "check" /\ Steps \subseteq db["onboarding"].steps
  /\ req' = [req EXCEPT ![k].at = "complete"]
  /\ UNCHANGED <<db, tab, clock, since>>

\* saveOnboarding: the checkpoint is merged into the data, completed is set
\* to what the call says.
MergedSteps(old, new) == old \cup new
LastStep(old, new) == new                   \* mutant: data = excluded.data
DataAfter(old, new) == MergedSteps(old, new)
StoreOnboarding(k, new, completed) ==
  LET row == [steps |-> DataAfter(db["onboarding"].steps, new), completed |-> completed]
  IN /\ clock < MaxWrites /\ clock' = clock + 1
     /\ db' = [db EXCEPT !["onboarding"] = row]
     /\ req' = [req EXCEPT ![k] =
          IF @.tab = None THEN NoReq
          ELSE [at |-> "stored", tab |-> @.tab, new |-> row]]
     /\ UNCHANGED <<tab, since>>
WriteStep(k) == req[k].at = "step" /\ StoreOnboarding(k, {req[k].step}, FALSE)
WriteComplete(k) == req[k].at = "complete" /\ StoreOnboarding(k, {}, TRUE)

Stored(k) ==
  LET t == req[k].tab
  IN /\ req[k].at = "stored"
     /\ req' = [req EXCEPT ![k] = NoReq]
     /\ tab' = [tab EXCEPT ![t].copy["onboarding"] = req[k].new,
                                ![t].saving = FALSE]
     /\ UNCHANGED <<db, clock, since>>

\* WhatsApp connects and disconnects, services and staff come and go.
World(r) ==
  /\ Flip(r)
  /\ UNCHANGED <<tab, req, since>>

Next ==
  \/ \E t \in Tabs, k \in Reqs :
       \/ \E p \in Pages : Open(t, p, k)
       \/ Refresh(t, k)
       \/ \E r \in Tracked : Act(t, r, k)
       \/ \E r \in Forms, touched \in SUBSET Fields : Save(t, r, touched, k)
       \/ \E s \in Steps : SaveStep(t, s, k)
       \/ Complete(t, k)
  \/ \E k \in Reqs :
       \/ \E r \in Tracked : Serve(k, r)
       \/ FinishLoad(k) \/ Lose(k) \/ Write(k) \/ Answer(k)
       \/ CheckComplete(k) \/ WriteStep(k) \/ WriteComplete(k) \/ Stored(k)
  \/ \E r \in Tracked \cap {"integrations", "services", "staff", "hours"} : World(r)

Spec == Init /\ [][Next]_vars

-----------------------------------------------------------------------------
(* Properties.                                                             *)

\* Onboarding is completed only with every checkpoint saved, however the
\* check of the checkpoints and the write that completes interleave with
\* checkpoints saved from other tabs.
CompleteMeansAll ==
  "onboarding" \in Tracked /\ db["onboarding"].completed
    => Steps \subseteq db["onboarding"].steps

\* A save sends the whole row, so it may bring back an old value of a field
\* nobody touched.  It never does so for a change the page had already been
\* shown: the value it replaces is newer than every answer about the row the
\* page had when Save was pressed, unless an older answer had overtaken a
\* newer one.
OverwritesOnlyUnseen ==
  [][\A k \in Reqs :
       req[k].at = "save" /\ clock' > clock /\ req'[k] # req[k] /\ ~req[k].overtaken =>
         \A f \in Fields \ req[k].touched :
           db'[req[k].row][f] # db[req[k].row][f] =>
             since[req[k].row][f] > req[k].newest]_vars
=============================================================================
