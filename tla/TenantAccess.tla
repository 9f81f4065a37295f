---------------------------- MODULE TenantAccess ----------------------------
(***************************************************************************)
(* Who may act for which tenant.  A browser signs in through Google, the   *)
(* callback finds or creates the user and its tenant in one transaction    *)
(* and opens a session whose cookie every tab of the browser shares.  A    *)
(* tab keeps the tenant it was loaded with; each of its requests names     *)
(* that tenant and is authorized against the session the cookie names by   *)
(* then.  The request followed to its end is the consumption of a quota,   *)
(* which reads the plan and the usage before it adds to the usage.         *)
(***************************************************************************)
EXTENDS Integers, FiniteSets

CONSTANTS Flows,       \* bound: sign-ins the browser starts
          Tabs,        \* its tabs
          Identities,  \* Google accounts: [subject, email]
          Legacy,      \* users of before Google sign-in: [id, subject, email]
          None,
          Plans, PlanLimit,  \* plan |-> its quota, None: not in the plan
          MaxChanges   \* bound: changes of a subscription by the owner

ASSUME AccessAssumption ==
  /\ None \notin Flows \cup Plans
  /\ \A i \in Identities : i.subject # None
  /\ \A u \in Legacy : /\ u = [id |-> u.id, subject |-> None, email |-> u.email]
                       /\ u.id \notin Flows \cup {None}
  /\ \A u, v \in Legacy : u.id = v.id => u = v
  /\ IsFiniteSet(Tabs) /\ Tabs # {}
  /\ PlanLimit \in [Plans -> Nat \cup {None}]

VARIABLES users,     \* committed rows of users
          members,   \* rows of tenant_memberships: [user, tenant]
          sessions,  \* auth_sessions: flow |-> its user and tenant
          cookie,    \* the browser's session cookie: a flow or None
          state,     \* its oauth state cookie: a flow or None
          flow,      \* the sign-ins, up to the end of their callback
          tab,       \* the tenant each tab was loaded with
          call,      \* the request each tab has in flight
          plan,      \* tenant_subscriptions: tenant |-> active plan or None
          usage,     \* tenant_usage_counters
          changes,
          charged,   \* history: [user, tenant] of each consumption
          peak       \* history: the largest quota a tenant was granted

accounts == <<users, members>>
browser == <<cookie, state>>
quotas == <<plan, usage, changes, charged, peak>>
vars == <<accounts, sessions, browser, flow, tab, call, quotas>>

Tenants == Flows                 \* a tenant is named by the sign-in creating it
NoUser == [id |-> None, subject |-> None, email |-> None]
NoSession == [user |-> None, tenant |-> None]
Idle == [at |-> "idle", tenant |-> None, user |-> None, limit |-> 0]
NewFlow == [at |-> "new", who |-> NoUser, row |-> NoUser, tenant |-> None]

Init ==
  /\ users = Legacy
  /\ members = {}
  /\ sessions = [f \in Flows |-> NoSession]
  /\ cookie = None /\ state = None
  /\ flow = [f \in Flows |-> NewFlow]
  /\ tab = [t \in Tabs |-> None]
  /\ call = [t \in Tabs |-> Idle]
  /\ plan = [x \in Tenants |-> None]
  /\ usage = [x \in Tenants |-> 0]
  /\ changes = 0 /\ charged = {}
  /\ peak = [x \in Tenants |-> 0]

-----------------------------------------------------------------------------
(* Signing in.                                                             *)

FlowAt(f, at, next) == /\ flow[f].at = at
                       /\ flow' = [flow EXCEPT ![f] = next]

\* The start route sets the state cookie, over that of another sign-in.
Start(f) ==
  /\ FlowAt(f, "new", [flow[f] EXCEPT !.at = "google"])
  /\ state' = f
  /\ UNCHANGED <<accounts, sessions, cookie, tab, call, quotas>>

\* Every answer of the callback clears the state cookie.
Fail(f) == /\ flow' = [flow EXCEPT ![f].at = "failed"]
           /\ state' = None
           /\ UNCHANGED cookie

\* The callback: the state must be the cookie's.  Google's answer, or an
\* unverified email, may end it here; otherwise it tells who signed in.
Callback(f, who) ==
  /\ flow[f].at = "google"
  /\ \/ /\ state = f
        /\ flow' = [flow EXCEPT ![f].at = "find", ![f].who = who]
        /\ UNCHANGED browser
     \/ Fail(f)
  /\ UNCHANGED <<accounts, sessions, tab, call, quotas>>

\* The rows a sign-in's transaction has locked or inserted.
InTransaction == {"upsert", "read", "commit"}
Busy(f, row) == \E g \in Flows \ {f} :
                  flow[g].at \in InTransaction /\ flow[g].row.id = row.id

SameKey(row, who) == row.subject = who.subject \/ row.email = who.email

\* ORDER BY google_subject=$1 DESC: the rows without a subject come first,
\* then the row of this subject.
Rank(row, who) == CASE row.subject = None -> 0
                    [] row.subject = who.subject -> 1
                    [] OTHER -> 2
Candidates(who) ==
  LET rows == {u \in users : SameKey(u, who)}
  IN {u \in rows : \A v \in rows : Rank(u, who) <= Rank(v, who)}

\* identity_conflict: the row belongs to another Google account.
NeverForeign(row, who) == FALSE       \* mutant: the email alone decides
Foreign(row, who) == row.subject # None /\ row.subject # who.subject

\* BEGIN and SELECT ... FOR UPDATE: waits for a row another sign-in holds.
Find(f) ==
  LET who == flow[f].who  rows == Candidates(who)
  IN /\ flow[f].at = "find"
     /\ \A u \in rows : ~Busy(f, u)
     /\ \/ \E u \in rows :
             IF Foreign(u, who) THEN Fail(f)
             ELSE /\ flow' = [flow EXCEPT ![f].at = "upsert", ![f].row = u]
                  /\ UNCHANGED browser
        \/ /\ rows = {}
           /\ flow' = [flow EXCEPT ![f].at = "upsert"]
           /\ UNCHANGED browser
     /\ UNCHANGED <<accounts, sessions, tab, call, quotas>>

\* A unique index refuses the row, and a transaction that is about to commit
\* an equal key makes this one wait for it.
TakenEmail(row) ==                    \* mutant: no index on google_subject
  \E u \in users : u.id # row.id /\ u.email = row.email
Taken(row) == \E u \in users : u.id # row.id /\ SameKey(u, row)
Awaited(f, row) == \E g \in Flows \ {f} : /\ flow[g].at \in {"read", "commit"}
                                          /\ SameKey(flow[g].row, row)

\* UPDATE of the row found, or INSERT of a new one.
Upsert(f) ==
  LET old == flow[f].row  who == flow[f].who
      row == [id |-> IF old = NoUser THEN f ELSE old.id,
              subject |-> who.subject, email |-> who.email]
  IN /\ flow[f].at = "upsert"
     /\ ~Awaited(f, row)
     /\ IF Taken(row) THEN Fail(f)
        ELSE /\ flow' = [flow EXCEPT ![f].at = "read", ![f].row = row]
             /\ UNCHANGED browser
     /\ UNCHANGED <<accounts, sessions, tab, call, quotas>>

\* The oldest membership of the user, or a new tenant of its own.
ReadMembership(f) ==
  LET own == {m.tenant : m \in {m \in members : m.user = flow[f].row.id}}
  IN /\ \E x \in IF own = {} THEN {f} ELSE own :
          FlowAt(f, "read", [flow[f] EXCEPT !.at = "commit", !.tenant = x])
     /\ UNCHANGED <<accounts, sessions, browser, tab, call, quotas>>

Commit(f) ==
  LET row == flow[f].row
  IN /\ FlowAt(f, "commit", [flow[f] EXCEPT !.at = "provisioned"])
     /\ users' = {u \in users : u.id # row.id} \cup {row}
     /\ members' = members \cup {[user |-> row.id, tenant |-> flow[f].tenant]}
     /\ UNCHANGED <<sessions, browser, tab, call, quotas>>

\* createSession, and the answer that sets the session cookie.
OpenSession(f) ==
  /\ FlowAt(f, "provisioned", [flow[f] EXCEPT !.at = "done"])
  /\ sessions' = [sessions EXCEPT ![f] = [user |-> flow[f].row.id,
                                          tenant |-> flow[f].tenant]]
  /\ cookie' = f /\ state' = None
  /\ UNCHANGED <<accounts, tab, call, quotas>>

\* A query of the callback throws; its transaction rolls back.
Throw(f) ==
  /\ flow[f].at \in InTransaction \cup {"find", "provisioned"}
  /\ Fail(f)
  /\ UNCHANGED <<accounts, sessions, tab, call, quotas>>

-----------------------------------------------------------------------------
(* Sessions and tabs.                                                      *)

Resolved == IF cookie = None THEN NoSession ELSE sessions[cookie]

\* loadAuthentication: the tab keeps the tenant of the session it finds.
Load(t) ==
  /\ call[t].at = "idle"
  /\ tab' = [tab EXCEPT ![t] = Resolved.tenant]
  /\ UNCHANGED <<accounts, sessions, browser, flow, call, quotas>>

Logout(t) ==
  /\ tab[t] # None
  /\ sessions' = [s \in Flows |-> IF s = cookie THEN NoSession ELSE sessions[s]]
  /\ cookie' = None
  /\ tab' = [tab EXCEPT ![t] = None]
  /\ UNCHANGED <<accounts, state, flow, call, quotas>>

Expire(s) ==
  /\ sessions[s] # NoSession
  /\ sessions' = [sessions EXCEPT ![s] = NoSession]
  /\ UNCHANGED <<accounts, browser, flow, tab, call, quotas>>

-----------------------------------------------------------------------------
(* A request of a tab: POST .../tenants/:tenantId/entitlements/:key/consume. *)

CallAt(t, at, next) == /\ call[t].at = at
                       /\ call' = [call EXCEPT ![t] = next]

\* onRequest resolves the session, authorize compares its tenant with the
\* tenant of the path; 401 and 403 end the request.
AnySession(actor, tenant) == TRUE     \* mutant: signed in is enough
Authorized(actor, tenant) == actor.tenant = tenant
Send(t) ==
  LET actor == Resolved
  IN /\ tab[t] # None
     /\ actor # NoSession
     /\ Authorized(actor, tab[t])
     /\ CallAt(t, "idle", [Idle EXCEPT !.at = "assert", !.tenant = tab[t],
                                       !.user = actor.user])
     /\ UNCHANGED <<accounts, sessions, browser, flow, tab, quotas>>

\* EntitlementService.assert: the subscription and its plan.
AssertEntitlement(t) ==
  LET p == plan[call[t].tenant]
      granted == p # None /\ PlanLimit[p] # None
  IN /\ CallAt(t, "assert",
               IF granted THEN [call[t] EXCEPT !.at = "usage", !.limit = PlanLimit[p]]
               ELSE Idle)
     /\ UNCHANGED <<accounts, sessions, browser, flow, tab, quotas>>

\* The usage so far, before the plan's limit.
NotOverQuota(used, limit) == used <= limit  \* mutant: the unit is not counted
WithinQuota(used, limit) == used + 1 <= limit
ReadUsage(t) ==
  /\ CallAt(t, "usage", IF WithinQuota(usage[call[t].tenant], call[t].limit)
                        THEN [call[t] EXCEPT !.at = "add"] ELSE Idle)
  /\ UNCHANGED <<accounts, sessions, browser, flow, tab, quotas>>

\* incrementUsage adds to the counter whatever it is by now.
Increment(t) ==
  LET c == call[t]
  IN /\ CallAt(t, "add", Idle)
     /\ usage' = [usage EXCEPT ![c.tenant] = @ + 1]
     /\ charged' = charged \cup {[user |-> c.user, tenant |-> c.tenant]}
     /\ UNCHANGED <<accounts, sessions, browser, flow, tab, plan, changes, peak>>

\* The System Owner sets a subscription; None stands for a status that is
\* neither TRIAL nor ACTIVE, and for a plan out of use.
SetSubscription(x, p) ==
  /\ changes < MaxChanges /\ plan[x] # p
  /\ \E m \in members : m.tenant = x
  /\ changes' = changes + 1
  /\ plan' = [plan EXCEPT ![x] = p]
  /\ peak' = [peak EXCEPT ![x] =
                IF p # None /\ PlanLimit[p] # None /\ PlanLimit[p] > @
                THEN PlanLimit[p] ELSE @]
  /\ UNCHANGED <<accounts, sessions, browser, flow, tab, call, usage, charged>>

Next ==
  \/ \E f \in Flows :
       \/ Start(f) \/ Find(f) \/ Upsert(f) \/ ReadMembership(f) \/ Commit(f)
       \/ OpenSession(f) \/ Throw(f) \/ Expire(f)
       \/ \E who \in Identities : Callback(f, [id |-> None, subject |-> who.subject,
                                               email |-> who.email])
  \/ \E t \in Tabs : \/ Load(t) \/ Logout(t) \/ Send(t) \/ AssertEntitlement(t)
                     \/ ReadUsage(t) \/ Increment(t)
  \/ \E x \in Tenants, p \in Plans \cup {None} : SetSubscription(x, p)

Spec == Init /\ [][Next]_vars

-----------------------------------------------------------------------------
(* Properties.                                                             *)

\* Two first sign-ins of one person at once never leave it with two users,
\* nor one user with two tenants: provisionGoogleIdentity's row lock and the
\* unique indexes serialize them.
OneTenantPerPerson ==
  /\ \A u, v \in users : u.subject # None /\ u.subject = v.subject => u = v
  /\ \A m, n \in members : m.user = n.user => m = n

\* A session acts for the person Google named in its own sign-in, also when
\* an email moved from one Google account to another, or belonged to a user
\* of before Google sign-in.
SignedInAsSelf ==
  \A f \in Flows : sessions[f] # NoSession =>
    \E u \in users : u.id = sessions[f].user /\ u.subject = flow[f].who.subject

\* A consumption is charged to a tenant of the user who was signed in when
\* it was sent: a tab left open under another account charges nobody.
ChargedToOwnTenant == charged \subseteq members

\* The check and the increment are two statements, so the usage may pass the
\* quota; it never does by more than the requests that overlap.
QuotaNearlyKept ==
  \A x \in Tenants : usage[x] <= peak[x] + Cardinality(Tabs) - 1
=============================================================================
