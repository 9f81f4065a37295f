---------------------------- MODULE AccessProofs ----------------------------
(***************************************************************************)
(* Theorems about TenantAccess for any accounts, any number of sign-ins,   *)
(* tabs and tenants.  Three invariants, each resting on the ones before:   *)
(* AccountsInv, what a sign-in's transaction knows of the rows it locked   *)
(* (Progress) and how two transactions keep apart (Apart); ChargeInv, that *)
(* requests in flight act for members; QuotaInv, that the requests past    *)
(* the check of a quota and not yet counted are few.                       *)
(***************************************************************************)
EXTENDS TenantAccess, FiniteSetTheorems, TLAPS

Ids == Flows \cup {None} \cup {u.id : u \in Legacy}
Subjects == {None} \cup {i.subject : i \in Identities}
Emails == {None} \cup {i.email : i \in Identities} \cup {u.email : u \in Legacy}
UserRow == [id : Ids, subject : Subjects, email : Emails]
Settled == {"provisioned", "done", "failed"}
FlowState == [at : {"new", "google", "find", "upsert", "read", "commit"} \cup Settled,
              who : UserRow, row : UserRow, tenant : Flows \cup {None}]

TypedAccounts ==
  /\ users \subseteq UserRow
  /\ flow \in [Flows -> FlowState]
  /\ sessions \in [Flows -> [user : Ids, tenant : Flows \cup {None}]]
  /\ cookie \in Flows \cup {None}

UniqueUsers ==
  \A u, v \in users : u.id = v.id \/ (u.subject # None /\ u.subject = v.subject) => u = v
UniqueMembers == \A m, n \in members : m.user = n.user => m = n

\* A user named by a sign-in was inserted by it.
KnownIds ==
  \A u \in users : u.id # None /\ (u.id \in Flows => flow[u.id].at \in Settled)

\* At upsert: the row a transaction has locked, unless it found none.
Found(f) ==
  flow[f].row # NoUser => /\ flow[f].row \in users
                          /\ flow[f].row.subject \in {None, flow[f].who.subject}

\* At read and commit: the row it is about to write, new or in place of an
\* older one of the same person, whose keys nobody else has.
Written(f) ==
  LET row == flow[f].row
  IN /\ row.id # None /\ row.subject = flow[f].who.subject
     /\ row.id = f \/ \E u \in users : u.id = row.id
     /\ \A u \in users : IF u.id = row.id THEN u.subject \in {None, row.subject}
                         ELSE u.subject # row.subject

\* At commit: the tenant is the user's, or its first.
Joins(f) ==
  /\ flow[f].tenant \in Flows
  /\ \/ [user |-> flow[f].row.id, tenant |-> flow[f].tenant] \in members
     \/ \A m \in members : m.user # flow[f].row.id

\* After it: the user is stored, with the subject that signed in.
Provisioned(f) ==
  /\ \E u \in users : u.id = flow[f].row.id /\ u.subject = flow[f].who.subject
  /\ [user |-> flow[f].row.id, tenant |-> flow[f].tenant] \in members

Progress(f) ==
  /\ flow[f].at \in {"new", "google", "find"} => flow[f].row = NoUser
  /\ flow[f].at \in InTransaction \cup {"find", "provisioned", "done"} =>
       flow[f].who.subject # None
  /\ flow[f].at = "upsert" => Found(f)
  /\ flow[f].at \in {"read", "commit"} => Written(f)
  /\ flow[f].at = "commit" => Joins(f)
  /\ flow[f].at \in {"provisioned", "done"} => Provisioned(f)
  /\ sessions[f] # NoSession =>
       flow[f].at = "done" /\ sessions[f] = [user |-> flow[f].row.id, tenant |-> flow[f].tenant]

\* Two transactions work on different rows, and write different subjects.
Apart(f, g) ==
  /\ flow[f].at \in InTransaction /\ flow[g].at \in InTransaction =>
       flow[f].row = NoUser \/ flow[g].row = NoUser \/ flow[f].row.id # flow[g].row.id
  /\ flow[f].at \in {"read", "commit"} /\ flow[g].at \in {"read", "commit"} =>
       flow[f].row.subject # flow[g].row.subject

AccountsInv ==
  /\ TypedAccounts /\ UniqueUsers /\ UniqueMembers /\ KnownIds
  /\ \A f \in Flows : Progress(f)
  /\ \A f, g \in Flows : f # g => Apart(f, g)

LEMMA NoUserTyped == NoUser \in UserRow /\ NoUser.id = None /\ NoUser.subject = None
BY DEF NoUser, UserRow, Ids, Subjects, Emails

LEMMA InitAccounts == Init => AccountsInv
<1> SUFFICES ASSUME Init PROVE AccountsInv
  OBVIOUS
<1> USE AccessAssumption DEF Init
<1>1. NewFlow \in FlowState /\ NewFlow.at = "new" /\ NewFlow.row = NoUser
  BY NoUserTyped DEF NewFlow, FlowState
<1>2. \A f \in Flows : flow[f] = NewFlow
  OBVIOUS
<1>3. users \subseteq UserRow
  <2> SUFFICES ASSUME NEW u \in Legacy PROVE u \in UserRow
    OBVIOUS
  <2>1. u = [id |-> u.id, subject |-> None, email |-> u.email]
    OBVIOUS
  <2>2. u.id \in Ids /\ None \in Subjects /\ u.email \in Emails
    BY DEF Ids, Subjects, Emails
  <2>3. [id |-> u.id, subject |-> None, email |-> u.email] \in UserRow
    BY <2>2 DEF UserRow
  <2> QED BY <2>1, <2>3
<1>4. NoSession \in [user : Ids, tenant : Flows \cup {None}]
  BY DEF NoSession, Ids
<1>5. TypedAccounts
  BY <1>1, <1>3, <1>4 DEF TypedAccounts
<1>6. UniqueUsers /\ UniqueMembers /\ KnownIds
  BY DEF UniqueUsers, UniqueMembers, KnownIds
<1>7. \A f \in Flows : Progress(f)
  BY <1>1, <1>2 DEF Progress, InTransaction
<1>8. \A f, g \in Flows : Apart(f, g)
  BY <1>1, <1>2 DEF Apart, InTransaction
<1> QED BY <1>5, <1>6, <1>7, <1>8 DEF AccountsInv

-----------------------------------------------------------------------------
(* A sign-in moves: the others stay where they are.                        *)

LEMMA FlowMoves ==
  ASSUME TypedAccounts, NEW f \in Flows, NEW next \in FlowState,
         flow' = [flow EXCEPT ![f] = next]
  PROVE  /\ flow' \in [Flows -> FlowState] /\ flow'[f] = next
         /\ \A g \in Flows \ {f} : flow'[g] = flow[g]
BY DEF TypedAccounts

LEMMA StateAt ==
  ASSUME NEW x \in FlowState, NEW a,
         a \in {"new", "google", "find", "upsert", "read", "commit"} \cup Settled
  PROVE  LET y == [x EXCEPT !.at = a]
         IN y \in FlowState /\ y.at = a /\ y.who = x.who /\ y.row = x.row /\ y.tenant = x.tenant
BY DEF FlowState

\* Steps that leave the tables alone: only the sign-in itself is to be looked at.
LEMMA TablesKept ==
  ASSUME AccountsInv, NEW f \in Flows,
         UNCHANGED <<users, members, sessions>>, cookie' \in Flows \cup {None},
         flow' \in [Flows -> FlowState], \A g \in Flows \ {f} : flow'[g] = flow[g],
         flow[f].at \in Settled => flow'[f].at \in Settled,
         sessions[f] = NoSession \/ flow'[f] = flow[f],
         Progress(f)', \A g \in Flows \ {f} : Apart(f, g)' /\ Apart(g, f)'
  PROVE  AccountsInv'
<1>1. TypedAccounts' /\ UniqueUsers' /\ UniqueMembers' /\ KnownIds'
  BY DEF AccountsInv, TypedAccounts, UniqueUsers, UniqueMembers, KnownIds
<1>2. \A g \in Flows \ {f} : Progress(g)'
  BY DEF AccountsInv, Progress, Found, Written, Joins, Provisioned
<1>3. \A g, h \in Flows \ {f} : g # h => Apart(g, h)'
  BY DEF AccountsInv, Apart
<1> QED BY <1>1, <1>2, <1>3 DEF AccountsInv

\* A sign-in that fails, whatever it was doing before its session is open.
LEMMA FailKeeps ==
  ASSUME AccountsInv, NEW f \in Flows, flow[f].at # "done", Fail(f),
         UNCHANGED <<users, members, sessions>>
  PROVE  AccountsInv'
<1>0. flow[f] \in FlowState /\ Progress(f) /\ cookie \in Flows \cup {None} /\ TypedAccounts
  BY DEF AccountsInv, TypedAccounts
<1> DEFINE next == [flow[f] EXCEPT !.at = "failed"]
<1>1. next \in FlowState /\ next.at = "failed"
  BY <1>0, StateAt DEF Settled
<1>2. flow' = [flow EXCEPT ![f] = next] /\ cookie' = cookie
  BY DEF Fail
<1> HIDE DEF next
<1>3. /\ flow' \in [Flows -> FlowState] /\ flow'[f] = next
      /\ \A g \in Flows \ {f} : flow'[g] = flow[g]
  BY <1>0, <1>1, <1>2, FlowMoves
<1>4. sessions[f] = NoSession
  BY <1>0 DEF Progress
<1>5. Progress(f)' /\ \A g \in Flows \ {f} : Apart(f, g)' /\ Apart(g, f)'
  BY <1>1, <1>3, <1>4 DEF Progress, Apart, InTransaction, NoSession
<1> QED BY <1>0, <1>1, <1>2, <1>3, <1>4, <1>5, TablesKept DEF Settled

\* What a step may read off the invariant for the sign-in that takes it.
LEMMA OfFlow ==
  ASSUME AccountsInv, NEW f \in Flows
  PROVE  /\ TypedAccounts /\ flow[f] \in FlowState /\ Progress(f)
         /\ flow[f].at # "done" => sessions[f] = NoSession
BY DEF AccountsInv, TypedAccounts, Progress

LEMMA StartKeeps ==
  ASSUME AccountsInv, NEW f \in Flows, Start(f)
  PROVE  AccountsInv'
<1> DEFINE next == [flow[f] EXCEPT !.at = "google"]
<1>1. /\ flow[f].at = "new" /\ flow' = [flow EXCEPT ![f] = next]
      /\ UNCHANGED <<users, members, sessions, cookie>>
  BY DEF Start, FlowAt, accounts
<1>2. next \in FlowState /\ next.at = "google" /\ next.row = flow[f].row
  BY OfFlow, StateAt
<1> HIDE DEF next
<1>3. /\ flow' \in [Flows -> FlowState] /\ flow'[f] = next
      /\ \A g \in Flows \ {f} : flow'[g] = flow[g]
  BY <1>1, <1>2, OfFlow, FlowMoves
<1>4. Progress(f)' /\ \A g \in Flows \ {f} : Apart(f, g)' /\ Apart(g, f)'
  BY <1>1, <1>2, <1>3, OfFlow DEF Progress, Apart, InTransaction
<1>5. sessions[f] = NoSession /\ cookie' \in Flows \cup {None}
  BY <1>1, OfFlow DEF TypedAccounts
<1> QED BY <1>1, <1>3, <1>4, <1>5, TablesKept DEF Settled

LEMMA CallbackKeeps ==
  ASSUME AccountsInv, NEW f \in Flows, NEW i \in Identities,
         Callback(f, [id |-> None, subject |-> i.subject, email |-> i.email])
  PROVE  AccountsInv'
<1> DEFINE w == [id |-> None, subject |-> i.subject, email |-> i.email]
<1>0. flow[f].at = "google" /\ UNCHANGED <<users, members, sessions>>
  BY DEF Callback, accounts
<1>1. CASE Fail(f)
  BY <1>0, <1>1, FailKeeps
<1>2. CASE ~Fail(f)
  <2> DEFINE half == [flow[f] EXCEPT !.at = "find"]
  <2> DEFINE next == [half EXCEPT !.who = w]
  <2>1. flow' = [flow EXCEPT ![f] = next] /\ cookie' = cookie
    BY <1>2, OfFlow DEF Callback, browser, TypedAccounts
  <2>2. w \in UserRow /\ w.subject # None
    BY AccessAssumption DEF UserRow, Ids, Subjects, Emails
  <2>3. half \in FlowState /\ half.at = "find" /\ half.row = flow[f].row
    BY OfFlow, StateAt
  <2> HIDE DEF half, w
  <2>4. next \in FlowState /\ next.at = "find" /\ next.row = flow[f].row /\ next.who = w
    BY <2>2, <2>3 DEF FlowState
  <2> HIDE DEF next
  <2>5. /\ flow' \in [Flows -> FlowState] /\ flow'[f] = next
        /\ \A g \in Flows \ {f} : flow'[g] = flow[g]
    BY <2>1, <2>4, OfFlow, FlowMoves
  <2>6. Progress(f)' /\ \A g \in Flows \ {f} : Apart(f, g)' /\ Apart(g, f)'
    BY <1>0, <2>2, <2>4, <2>5, OfFlow DEF Progress, Apart, InTransaction
  <2>7. sessions[f] = NoSession /\ cookie' \in Flows \cup {None}
    BY <1>0, <2>1, OfFlow DEF TypedAccounts
  <2> QED BY <1>0, <2>5, <2>6, <2>7, TablesKept DEF Settled
<1> QED BY <1>1, <1>2

\* The row lock: no other transaction works on the row that was found, and
\* its subject is none or the person's.
LEMMA FindKeeps ==
  ASSUME AccountsInv, NEW f \in Flows, Find(f)
  PROVE  AccountsInv'
<1> DEFINE rows == Candidates(flow[f].who)
<1>0. /\ flow[f].at = "find" /\ UNCHANGED <<users, members, sessions>>
      /\ \A u \in rows : ~Busy(f, u)
  BY DEF Find, accounts
<1>1. CASE Fail(f)
  BY <1>0, <1>1, FailKeeps
<1>2. CASE ~Fail(f)
  <2>1. PICK row : /\ flow' = [flow EXCEPT ![f].at = "upsert", ![f].row = row] /\ cookie' = cookie
                   /\ row = NoUser \/ (row \in rows /\ ~Foreign(row, flow[f].who))
    <3>1. CASE \E u \in rows : ~Foreign(u, flow[f].who) /\ UNCHANGED browser
                 /\ flow' = [flow EXCEPT ![f].at = "upsert", ![f].row = u]
      BY <3>1 DEF browser
    <3>2. CASE flow' = [flow EXCEPT ![f].at = "upsert"] /\ UNCHANGED browser
      <4>1. flow[f].row = NoUser
        BY <1>0, OfFlow DEF Progress
      <4>2. [flow[f] EXCEPT !.at = "upsert"].row = NoUser
        BY <4>1, OfFlow, StateAt
      <4>3. [[flow[f] EXCEPT !.at = "upsert"] EXCEPT !.row = NoUser] = [flow[f] EXCEPT !.at = "upsert"]
        BY <4>2, OfFlow, StateAt DEF FlowState
      <4>4. flow' = [flow EXCEPT ![f].at = "upsert", ![f].row = NoUser]
        BY <3>2, <4>3, OfFlow DEF TypedAccounts
      <4> QED BY <3>2, <4>4 DEF browser
    <3> QED BY <1>2, <3>1, <3>2 DEF Find
  <2> DEFINE half == [flow[f] EXCEPT !.at = "upsert"]
  <2> DEFINE next == [half EXCEPT !.row = row]
  <2>2. row # NoUser => /\ row \in users /\ row.subject \in {None, flow[f].who.subject}
                        /\ row.id # None /\ ~Busy(f, row)
    BY <1>0, <2>1 DEF Candidates, Foreign, AccountsInv, KnownIds
  <2>3. row \in UserRow
    BY <2>1, <2>2, OfFlow, NoUserTyped DEF TypedAccounts
  <2>4. half \in FlowState /\ half.at = "upsert" /\ half.who = flow[f].who
    BY OfFlow, StateAt
  <2>5. flow' = [flow EXCEPT ![f] = next]
    BY <2>1, OfFlow DEF TypedAccounts
  <2> HIDE DEF half
  <2>6. next \in FlowState /\ next.at = "upsert" /\ next.row = row /\ next.who = flow[f].who
    BY <2>3, <2>4 DEF FlowState
  <2> HIDE DEF next
  <2>7. /\ flow' \in [Flows -> FlowState] /\ flow'[f] = next
        /\ \A g \in Flows \ {f} : flow'[g] = flow[g]
    BY <2>5, <2>6, OfFlow, FlowMoves
  <2>8. Progress(f)'
    BY <1>0, <2>2, <2>6, <2>7, OfFlow DEF Progress, InTransaction, Found
  <2>9. \A g \in Flows \ {f} : Apart(f, g)' /\ Apart(g, f)'
    <3> TAKE g \in Flows \ {f}
    <3>1. flow[g].at \in InTransaction /\ row # NoUser => flow[g].row.id # row.id
      BY <2>2 DEF Busy
    <3> QED BY <3>1, <2>6, <2>7, <2>2, NoUserTyped DEF Apart, InTransaction
  <2>10. sessions[f] = NoSession /\ cookie' \in Flows \cup {None}
    BY <1>0, <2>1, OfFlow DEF TypedAccounts
  <2> QED BY <1>0, <2>7, <2>8, <2>9, <2>10, TablesKept DEF Settled
<1> QED BY <1>1, <1>2

\* The unique index, and the wait for a transaction that writes an equal key:
\* the subject about to be written is nobody else's.
LEMMA UpsertKeeps ==
  ASSUME AccountsInv, NEW f \in Flows, Upsert(f)
  PROVE  AccountsInv'
<1> DEFINE old == flow[f].row
<1> DEFINE who == flow[f].who
<1> DEFINE row == [id |-> IF old = NoUser THEN f ELSE old.id,
                   subject |-> who.subject, email |-> who.email]
<1>0. /\ flow[f].at = "upsert" /\ UNCHANGED <<users, members, sessions>>
      /\ ~Awaited(f, row)
  BY DEF Upsert, accounts
<1>1. CASE Fail(f)
  BY <1>0, <1>1, FailKeeps
<1>2. CASE ~Fail(f)
  <2>1. /\ ~Taken(row) /\ cookie' = cookie
        /\ flow' = [flow EXCEPT ![f].at = "read", ![f].row = row]
    BY <1>2 DEF Upsert, browser
  <2>2. who \in UserRow /\ old \in UserRow /\ who.subject # None /\ Found(f)
    BY <1>0, OfFlow DEF FlowState, Progress, InTransaction
  <2>3. row.subject = who.subject /\ row.id = IF old = NoUser THEN f ELSE old.id
    OBVIOUS
  <2>4. row \in UserRow
    BY <2>2 DEF UserRow, Ids
  <2>5. row.id # None /\ row # NoUser
    BY <2>2, <2>3, NoUserTyped, AccessAssumption DEF Found, AccountsInv, KnownIds
  <2>6. \A u \in users : u.id # row.id => u.subject # row.subject
    BY <2>1 DEF Taken, SameKey
  <2>7. \A u \in users : u.id = row.id => u.subject \in {None, who.subject}
    <3> SUFFICES ASSUME NEW u \in users, u.id = row.id PROVE u.subject \in {None, who.subject}
      OBVIOUS
    <3>1. CASE old = NoUser
      BY <1>0, <2>3, <3>1 DEF AccountsInv, KnownIds, Settled
    <3>2. CASE old # NoUser
      <4>1. old \in users /\ u.id = old.id /\ old.subject \in {None, who.subject}
        BY <2>2, <2>3, <3>2 DEF Found
      <4>2. u = old
        BY <4>1 DEF AccountsInv, UniqueUsers
      <4> QED BY <4>1, <4>2
    <3> QED BY <3>1, <3>2
  <2>8. row.id = f \/ \E u \in users : u.id = row.id
    BY <2>2, <2>3 DEF Found
  <2> DEFINE half == [flow[f] EXCEPT !.at = "read"]
  <2> DEFINE next == [half EXCEPT !.row = row]
  <2>9. half \in FlowState /\ half.at = "read" /\ half.who = who
    BY OfFlow, StateAt
  <2>10. flow' = [flow EXCEPT ![f] = next]
    BY <2>1, OfFlow DEF TypedAccounts
  <2> HIDE DEF half, row
  <2>11. next \in FlowState /\ next.at = "read" /\ next.row = row /\ next.who = who
    BY <2>4, <2>9 DEF FlowState
  <2> HIDE DEF next
  <2>12. /\ flow' \in [Flows -> FlowState] /\ flow'[f] = next
         /\ \A g \in Flows \ {f} : flow'[g] = flow[g]
    BY <2>10, <2>11, OfFlow, FlowMoves
  <2>13. Written(f)'
    BY <1>0, <2>3, <2>5, <2>6, <2>7, <2>8, <2>11, <2>12 DEF Written
  <2>14. Progress(f)'
    BY <1>0, <2>2, <2>11, <2>12, <2>13, OfFlow DEF Progress, InTransaction
  <2>15. \A g \in Flows \ {f} : Apart(f, g)' /\ Apart(g, f)'
    <3> TAKE g \in Flows \ {f}
    <3>1. flow[g].at \in {"read", "commit"} => flow[g].row.subject # row.subject
      BY <1>0 DEF Awaited, SameKey, row
    <3>2. flow[g].at \in InTransaction => flow[g].row = NoUser \/ flow[g].row.id # row.id
      <4> SUFFICES ASSUME flow[g].at \in InTransaction, flow[g].row # NoUser
                   PROVE  flow[g].row.id # row.id
        OBVIOUS
      <4>1. CASE old = NoUser
        <5>1. row.id = f
          BY <2>3, <4>1
        <5>2. \A u \in users : u.id # f
          BY <1>0 DEF AccountsInv, KnownIds, Settled
        <5>p. Progress(g)
          BY DEF AccountsInv
        <5>3. CASE flow[g].at = "upsert"
          <6>1. Found(g)
            BY <5>p, <5>3 DEF Progress
          <6>2. flow[g].row \in users
            BY <6>1 DEF Found
          <6> QED BY <5>1, <5>2, <6>2
        <5>4. CASE flow[g].at \in {"read", "commit"}
          <6>1. Written(g)
            BY <5>p, <5>4 DEF Progress
          <6>2. flow[g].row.id = g \/ \E u \in users : u.id = flow[g].row.id
            BY <6>1 DEF Written
          <6> QED BY <5>1, <5>2, <6>2
        <5> QED BY <5>3, <5>4 DEF InTransaction
      <4>2. CASE old # NoUser
        <5>1. Apart(f, g) /\ row.id = old.id
          BY <2>3, <4>2 DEF AccountsInv
        <5> QED BY <1>0, <5>1, <4>2 DEF Apart, InTransaction
      <4> QED BY <4>1, <4>2
    <3> QED BY <3>1, <3>2, <2>11, <2>12 DEF Apart
  <2>16. sessions[f] = NoSession /\ cookie' \in Flows \cup {None}
    BY <1>0, <2>1, OfFlow DEF TypedAccounts
  <2> QED BY <1>0, <2>12, <2>14, <2>15, <2>16, TablesKept DEF Settled
<1> QED BY <1>1, <1>2

LEMMA ReadMembershipKeeps ==
  ASSUME AccountsInv, NEW f \in Flows, members \subseteq [user : Ids, tenant : Flows],
         ReadMembership(f)
  PROVE  AccountsInv'
<1> DEFINE own == {m.tenant : m \in {m \in members : m.user = flow[f].row.id}}
<1>1. PICK x \in IF own = {} THEN {f} ELSE own :
        /\ flow[f].at = "read"
        /\ flow' = [flow EXCEPT ![f] = [flow[f] EXCEPT !.at = "commit", !.tenant = x]]
  <2>1. ReadMembership(f)
    OBVIOUS
  <2>2. \E x \in IF own = {} THEN {f} ELSE own :
          FlowAt(f, "read", [flow[f] EXCEPT !.at = "commit", !.tenant = x])
    BY <2>1, Zenon DEF ReadMembership
  <2> HIDE DEF own
  <2> QED BY <2>2, Zenon DEF FlowAt
<1>u. cookie' = cookie /\ UNCHANGED <<users, members, sessions>>
  BY DEF ReadMembership, accounts, browser
<1>a. flow[f].at = "read"
  BY <1>1
<1>2. /\ x \in Flows
      /\ \/ [user |-> flow[f].row.id, tenant |-> x] \in members
         \/ \A m \in members : m.user # flow[f].row.id
  <2>1. CASE own = {}
    BY <1>1, <2>1
  <2>2. CASE own # {}
    <3>1. PICK m \in members : m.user = flow[f].row.id /\ m.tenant = x
      BY <1>1, <2>2
    <3>2. m = [user |-> flow[f].row.id, tenant |-> x] /\ x \in Flows
      BY <3>1
    <3> QED BY <3>1, <3>2
  <2> QED BY <2>1, <2>2
<1> DEFINE half == [flow[f] EXCEPT !.at = "commit"]
<1> DEFINE next == [half EXCEPT !.tenant = x]
<1>3. half \in FlowState /\ half.at = "commit" /\ half.who = flow[f].who /\ half.row = flow[f].row
  BY OfFlow, StateAt
<1>4. flow' = [flow EXCEPT ![f] = next]
  BY <1>1
<1> HIDE DEF half, own
<1>5. /\ next \in FlowState /\ next.at = "commit" /\ next.row = flow[f].row
      /\ next.who = flow[f].who /\ next.tenant = x
  BY <1>2, <1>3 DEF FlowState
<1> HIDE DEF next
<1>6. /\ flow' \in [Flows -> FlowState] /\ flow'[f] = next
      /\ \A g \in Flows \ {f} : flow'[g] = flow[g]
  BY <1>4, <1>5, OfFlow, FlowMoves
<1>7. Progress(f)'
  <2>1. Written(f) /\ flow[f].who.subject # None
    BY <1>a, OfFlow DEF Progress, InTransaction
  <2>2. Written(f)'
    BY <2>1, <1>u, <1>5, <1>6 DEF Written
  <2>3. Joins(f)'
    BY <1>u, <1>2, <1>5, <1>6 DEF Joins
  <2>4. sessions'[f] = NoSession
    BY <1>a, <1>u, OfFlow
  <2> QED BY <2>1, <2>2, <2>3, <2>4, <1>5, <1>6 DEF Progress, InTransaction
<1>8. \A g \in Flows \ {f} : Apart(f, g)' /\ Apart(g, f)'
  BY <1>a, <1>u, <1>5, <1>6 DEF AccountsInv, Apart, InTransaction
<1>9. sessions[f] = NoSession /\ cookie' \in Flows \cup {None}
  BY <1>a, <1>u, OfFlow DEF TypedAccounts
<1> QED BY <1>a, <1>u, <1>6, <1>7, <1>8, <1>9, TablesKept DEF Settled

\* The commit: users and memberships change, and whatever another transaction
\* knows of its own row stays true, for it is another row of another person.
LEMMA CommitKeeps ==
  ASSUME AccountsInv, NEW f \in Flows, members \subseteq [user : Ids, tenant : Flows], Commit(f)
  PROVE  AccountsInv' /\ members \subseteq members' /\ members' \subseteq [user : Ids, tenant : Flows]
<1> DEFINE row == flow[f].row
<1> DEFINE joined == [user |-> row.id, tenant |-> flow[f].tenant]
<1> DEFINE next == [flow[f] EXCEPT !.at = "provisioned"]
<1>1. /\ flow[f].at = "commit" /\ flow' = [flow EXCEPT ![f] = next]
      /\ users' = {u \in users : u.id # row.id} \cup {row}
      /\ members' = members \cup {joined}
      /\ UNCHANGED <<sessions, cookie>>
  BY DEF Commit, FlowAt, browser
<1>2. /\ next \in FlowState /\ next.at = "provisioned" /\ next.row = row
      /\ next.who = flow[f].who /\ next.tenant = flow[f].tenant
  BY OfFlow, StateAt DEF Settled
<1>3. /\ row \in UserRow /\ row.id \in Ids /\ flow[f].tenant \in Flows
      /\ Written(f) /\ Joins(f) /\ flow[f].who.subject # None
  BY <1>1, OfFlow DEF FlowState, UserRow, Progress, Joins, InTransaction
<1> HIDE DEF next
<1>4. /\ flow' \in [Flows -> FlowState] /\ flow'[f] = next
      /\ \A g \in Flows \ {f} : flow'[g] = flow[g]
  BY <1>1, <1>2, OfFlow, FlowMoves
<1>5. joined \in [user : Ids, tenant : Flows] /\ joined.user = row.id
  BY <1>3
<1>6. TypedAccounts'
  BY <1>1, <1>3, <1>4, OfFlow DEF TypedAccounts
<1>7. row.subject # None /\ row.id # None /\ row.subject = flow[f].who.subject
  BY <1>3 DEF Written
<1>8. UniqueUsers'
  <2> SUFFICES ASSUME NEW u \in users', NEW v \in users',
                      u.id = v.id \/ (u.subject # None /\ u.subject = v.subject)
               PROVE  u = v
    BY DEF UniqueUsers
  <2>1. \A w \in users' : w = row \/ (w \in users /\ w.id # row.id /\ w.subject # row.subject)
    BY <1>1, <1>3 DEF Written
  <2> HIDE DEF row
  <2> QED BY <2>1 DEF AccountsInv, UniqueUsers
<1>9. UniqueMembers'
  <2>1. joined \in members \/ \A m \in members : m.user # joined.user
    BY <1>3, <1>5 DEF Joins
  <2> HIDE DEF joined
  <2> QED BY <1>1, <2>1 DEF AccountsInv, UniqueMembers
<1>10. KnownIds'
  <2>1. row.id \in Flows => flow'[row.id].at \in Settled
    <3>1. CASE row.id = f
      BY <3>1, <1>2, <1>4 DEF Settled
    <3>2. CASE row.id # f
      BY <3>2, <1>3, <1>4 DEF Written, AccountsInv, KnownIds
    <3> QED BY <3>1, <3>2
  <2>2. \A u \in users : u.id \in Flows => flow'[u.id].at \in Settled
    BY <1>2, <1>4 DEF AccountsInv, KnownIds, Settled
  <2> HIDE DEF row
  <2> QED BY <1>1, <1>7, <2>1, <2>2 DEF AccountsInv, KnownIds
<1>11. Progress(f)'
  <2>1. row \in users' /\ joined \in members'
    BY <1>1
  <2>2. Provisioned(f)'
    BY <1>2, <1>4, <1>7, <2>1 DEF Provisioned
  <2>3. sessions'[f] = NoSession
    BY <1>1, OfFlow
  <2> QED BY <1>2, <1>3, <1>4, <2>2, <2>3, OfFlow DEF Progress, InTransaction, NoSession
<1>12. \A g \in Flows \ {f} : Progress(g)'
  <2> TAKE g \in Flows \ {f}
  <2>0. flow'[g] = flow[g] /\ sessions'[g] = sessions[g] /\ Progress(g) /\ Apart(f, g)
        /\ flow[f].at \in InTransaction
    BY <1>1, <1>4 DEF AccountsInv, InTransaction
  <2>1. row # NoUser
    BY <1>7, NoUserTyped
  <2>2. flow[g].at = "upsert" => Found(g)'
    BY <1>1, <2>0, <2>1 DEF Progress, Found, Apart, InTransaction
  <2>3. flow[g].at \in {"read", "commit"} => Written(g)'
    <3> SUFFICES ASSUME flow[g].at \in {"read", "commit"} PROVE Written(g)'
      OBVIOUS
    <3>0. Written(g)
      BY <2>0 DEF Progress
    <3>1. flow[g].row # NoUser
      BY <3>0, NoUserTyped DEF Written
    <3>2. flow[g].row.id # row.id /\ flow[g].row.subject # row.subject
      BY <2>0, <2>1, <3>1, <1>1 DEF Apart, InTransaction
    <3>3. \A u \in users' : u = row \/ u \in users
      BY <1>1
    <3>4. \A u \in users : u.id = flow[g].row.id => u \in users'
      BY <1>1, <3>2
    <3> HIDE DEF row
    <3> QED BY <2>0, <3>0, <3>2, <3>3, <3>4 DEF Written
  <2>4. flow[g].at = "commit" => Joins(g)'
    <3> SUFFICES ASSUME flow[g].at = "commit" PROVE Joins(g)'
      OBVIOUS
    <3>1. Joins(g) /\ Written(g)
      BY <2>0 DEF Progress
    <3>2. flow[g].row # NoUser
      BY <3>1, NoUserTyped DEF Written
    <3>3. flow[g].row.id # joined.user
      BY <2>0, <2>1, <3>2, <1>1, <1>5 DEF Apart, InTransaction
    <3> HIDE DEF joined
    <3> QED BY <1>1, <2>0, <3>1, <3>3 DEF Joins
  <2>5. flow[g].at \in {"provisioned", "done"} => Provisioned(g)'
    <3> SUFFICES ASSUME flow[g].at \in {"provisioned", "done"} PROVE Provisioned(g)'
      OBVIOUS
    <3>1. Provisioned(g) /\ flow[g].who.subject # None
      BY <2>0 DEF Progress
    <3>2. PICK u \in users : u.id = flow[g].row.id /\ u.subject = flow[g].who.subject
      BY <3>1 DEF Provisioned
    <3>3. CASE u.id = row.id
      <4>1. row \in users' /\ row.subject = u.subject
        BY <1>1, <1>3, <3>1, <3>2, <3>3 DEF Written
      <4>2. \E w \in users' : w.id = flow[g].row.id /\ w.subject = flow[g].who.subject
        BY <4>1, <3>2, <3>3
      <4>3. [user |-> flow[g].row.id, tenant |-> flow[g].tenant] \in members'
        BY <3>1, <1>1 DEF Provisioned
      <4> QED BY <4>2, <4>3, <2>0 DEF Provisioned
    <3>4. CASE u.id # row.id
      <4>1. u \in users'
        BY <1>1, <3>4
      <4> QED BY <4>1, <3>1, <3>2, <2>0, <1>1 DEF Provisioned
    <3> QED BY <3>3, <3>4
  <2> QED BY <2>0, <2>2, <2>3, <2>4, <2>5 DEF Progress
<1>13. \A g, h \in Flows : g # h => Apart(g, h)'
  <2> TAKE g, h \in Flows
  <2> HAVE g # h
  <2>1. Apart(g, h)
    BY DEF AccountsInv
  <2>2. CASE g = f \/ h = f
    BY <2>2, <1>2, <1>4 DEF Apart, InTransaction
  <2>3. CASE g # f /\ h # f
    BY <2>1, <2>3, <1>4 DEF Apart
  <2> QED BY <2>2, <2>3
<1>14. members \subseteq members' /\ members' \subseteq [user : Ids, tenant : Flows]
  BY <1>1, <1>5
<1> QED BY <1>6, <1>8, <1>9, <1>10, <1>11, <1>12, <1>13, <1>14 DEF AccountsInv

\* The session opened is that of the user provisioned.
LEMMA OpenSessionKeeps ==
  ASSUME AccountsInv, NEW f \in Flows, members \subseteq [user : Ids, tenant : Flows], OpenSession(f)
  PROVE  AccountsInv'
<1> DEFINE next == [flow[f] EXCEPT !.at = "done"]
<1> DEFINE opened == [user |-> flow[f].row.id, tenant |-> flow[f].tenant]
<1>1. /\ flow[f].at = "provisioned" /\ flow' = [flow EXCEPT ![f] = next]
      /\ sessions' = [sessions EXCEPT ![f] = opened]
      /\ UNCHANGED <<users, members>> /\ cookie' = f
  BY DEF OpenSession, FlowAt, accounts
<1>2. /\ next \in FlowState /\ next.at = "done" /\ next.row = flow[f].row
      /\ next.who = flow[f].who /\ next.tenant = flow[f].tenant
  BY OfFlow, StateAt DEF Settled
<1>3. Provisioned(f) /\ flow[f].who.subject # None /\ opened \in members
  BY <1>1, OfFlow DEF Progress, Provisioned
<1> HIDE DEF next
<1>4. /\ flow' \in [Flows -> FlowState] /\ flow'[f] = next
      /\ \A g \in Flows \ {f} : flow'[g] = flow[g]
  BY <1>1, <1>2, OfFlow, FlowMoves
<1>5. opened \in [user : Ids, tenant : Flows \cup {None}]
  BY <1>3
<1> HIDE DEF opened
<1>6. /\ sessions' \in [Flows -> [user : Ids, tenant : Flows \cup {None}]]
      /\ sessions'[f] = opened /\ \A g \in Flows \ {f} : sessions'[g] = sessions[g]
  BY <1>1, <1>5, OfFlow DEF TypedAccounts
<1>7. TypedAccounts' /\ UniqueUsers' /\ UniqueMembers'
  BY <1>1, <1>4, <1>6 DEF AccountsInv, TypedAccounts, UniqueUsers, UniqueMembers
<1>8. KnownIds'
  BY <1>1, <1>2, <1>4 DEF AccountsInv, KnownIds, Settled
<1>9. Progress(f)'
  <2>1. Provisioned(f)'
    BY <1>1, <1>2, <1>3, <1>4 DEF Provisioned
  <2>2. sessions'[f] = [user |-> flow'[f].row.id, tenant |-> flow'[f].tenant]
    BY <1>2, <1>4, <1>6 DEF opened
  <2> QED BY <2>1, <2>2, <1>2, <1>3, <1>4 DEF Progress, InTransaction
<1>10. \A g \in Flows \ {f} : Progress(g)'
  BY <1>1, <1>4, <1>6 DEF AccountsInv, Progress, Found, Written, Joins, Provisioned
<1>11. \A g, h \in Flows : g # h => Apart(g, h)'
  <2> TAKE g, h \in Flows
  <2> HAVE g # h
  <2>1. CASE g = f \/ h = f
    BY <2>1, <1>2, <1>4 DEF Apart, InTransaction
  <2>2. CASE g # f /\ h # f
    BY <2>2, <1>4 DEF AccountsInv, Apart
  <2> QED BY <2>1, <2>2
<1> QED BY <1>7, <1>8, <1>9, <1>10, <1>11 DEF AccountsInv

\* A transaction that throws rolls back; nothing it wrote was visible.
LEMMA ThrowKeeps ==
  ASSUME AccountsInv, NEW f \in Flows, Throw(f)
  PROVE  AccountsInv'
BY FailKeeps DEF Throw, InTransaction, accounts

\* Sessions that end: the sign-ins and the tables stay.
LEMMA SessionsEnd ==
  ASSUME AccountsInv, UNCHANGED <<users, members, flow>>,
         sessions' \in [Flows -> [user : Ids, tenant : Flows \cup {None}]],
         \A f \in Flows : sessions'[f] \in {sessions[f], NoSession},
         cookie' \in Flows \cup {None}
  PROVE  AccountsInv'
<1>1. TypedAccounts' /\ UniqueUsers' /\ UniqueMembers' /\ KnownIds'
  BY DEF AccountsInv, TypedAccounts, UniqueUsers, UniqueMembers, KnownIds
<1>2. \A f \in Flows : Progress(f)'
  BY DEF AccountsInv, Progress, Found, Written, Joins, Provisioned
<1>3. \A f, g \in Flows : f # g => Apart(f, g)'
  BY DEF AccountsInv, Apart
<1> QED BY <1>1, <1>2, <1>3 DEF AccountsInv

LEMMA LogoutKeeps ==
  ASSUME AccountsInv, NEW t \in Tabs, Logout(t)
  PROVE  AccountsInv'
<1>1. NoSession \in [user : Ids, tenant : Flows \cup {None}]
  BY DEF NoSession, Ids
<1> QED BY <1>1, SessionsEnd DEF Logout, accounts, AccountsInv, TypedAccounts

LEMMA ExpireKeeps ==
  ASSUME AccountsInv, NEW f \in Flows, Expire(f)
  PROVE  AccountsInv'
<1>1. NoSession \in [user : Ids, tenant : Flows \cup {None}]
  BY DEF NoSession, Ids
<1> QED BY <1>1, SessionsEnd DEF Expire, accounts, browser, AccountsInv, TypedAccounts

LEMMA OthersKeep ==
  ASSUME AccountsInv, UNCHANGED <<accounts, sessions, browser, flow>>
  PROVE  AccountsInv'
BY SessionsEnd DEF accounts, browser, AccountsInv, TypedAccounts

-----------------------------------------------------------------------------
(* Requests.                                                               *)

Memberships == [user : Ids, tenant : Flows]
CallState == [at : {"idle", "assert", "usage", "add"}, tenant : Flows \cup {None},
              user : Ids, limit : Nat]

\* A request in flight acts for a member of the tenant it names.
ForMember(t) ==
  call[t].at # "idle" => [user |-> call[t].user, tenant |-> call[t].tenant] \in members

ChargeInv ==
  /\ members \subseteq Memberships
  /\ tab \in [Tabs -> Flows \cup {None}]
  /\ call \in [Tabs -> CallState]
  /\ \A t \in Tabs : ForMember(t)
  /\ charged \subseteq members

\* The requests past the check of the quota of x and not counted yet.
Adding(x) == {t \in Tabs : call[t].at = "add" /\ call[t].tenant = x}

\* The limit a request compares with was granted to its tenant.
Granted(t) == call[t].at \in {"usage", "add"} => call[t].limit <= peak[call[t].tenant]
Headroom(x) == usage[x] + Cardinality(Adding(x)) <= peak[x] + Cardinality(Tabs) - 1

QuotaInv ==
  /\ plan \in [Flows -> Plans \cup {None}]
  /\ usage \in [Flows -> Nat] /\ peak \in [Flows -> Nat]
  /\ \A x \in Flows : plan[x] # None /\ PlanLimit[plan[x]] # None =>
                        PlanLimit[plan[x]] <= peak[x]
  /\ \A t \in Tabs : Granted(t)
  /\ \A x \in Flows : Headroom(x)

Inv == AccountsInv /\ ChargeInv /\ QuotaInv

LEMMA FewAdding ==
  ASSUME NEW S, S \subseteq Tabs
  PROVE  IsFiniteSet(S) /\ Cardinality(S) \in Nat /\ Cardinality(S) <= Cardinality(Tabs)
         /\ Cardinality(Tabs) \in Nat
BY FS_Subset, FS_CardinalityType, AccessAssumption

LEMMA IdleTyped == Idle \in CallState /\ Idle.at = "idle"
BY DEF Idle, CallState, Ids

LEMMA InitRequests == Init => ChargeInv /\ QuotaInv
<1> SUFFICES ASSUME Init PROVE ChargeInv /\ QuotaInv
  OBVIOUS
<1>1. ChargeInv
  BY IdleTyped DEF Init, ChargeInv, ForMember
<1>2. \A t \in Tabs : Granted(t)
  BY IdleTyped DEF Init, Granted
<1>3. ASSUME NEW x \in Flows PROVE Headroom(x)
  <2>1. Adding(x) = {}
    BY IdleTyped DEF Init, Adding
  <2>2. Cardinality(Adding(x)) = 0
    BY <2>1, FS_EmptySet
  <2>3. Cardinality(Tabs) \in Nat /\ Cardinality(Tabs) # 0
    BY FS_EmptySet, FS_CardinalityType, AccessAssumption
  <2>4. usage[x] = 0 /\ peak[x] = 0
    BY DEF Init, Tenants
  <2> QED BY <2>2, <2>3, <2>4 DEF Headroom
<1> QED BY <1>1, <1>2, <1>3 DEF Init, QuotaInv, Tenants

\* A request moves: what is left to see is that its new state is justified.
LEMMA CallMoves ==
  ASSUME ChargeInv, NEW t \in Tabs, NEW next \in CallState,
         call' = [call EXCEPT ![t] = next], UNCHANGED <<members, tab>>,
         next.at # "idle" => [user |-> next.user, tenant |-> next.tenant] \in members,
         charged' \subseteq members
  PROVE  ChargeInv' /\ call'[t] = next /\ \A s \in Tabs \ {t} : call'[s] = call[s]
<1>1. /\ call' \in [Tabs -> CallState] /\ call'[t] = next
      /\ \A s \in Tabs \ {t} : call'[s] = call[s]
  BY DEF ChargeInv
<1>2. \A s \in Tabs : ForMember(s)'
  BY <1>1 DEF ChargeInv, ForMember
<1> QED BY <1>1, <1>2 DEF ChargeInv

\* A request that is not about to be counted leaves the headroom alone.
LEMMA HeadroomKept ==
  ASSUME ChargeInv, QuotaInv, NEW t \in Tabs, call'[t].at # "add",
         \A s \in Tabs \ {t} : call'[s] = call[s],
         UNCHANGED <<plan, usage, peak>>, Granted(t)'
  PROVE  QuotaInv'
<1>1. \A s \in Tabs : Granted(s)'
  BY DEF QuotaInv, Granted
<1>2. ASSUME NEW x \in Flows PROVE Headroom(x)'
  <2>1. Adding(x)' \subseteq Adding(x) /\ Adding(x) \subseteq Tabs
    BY DEF Adding
  <2>2. IsFiniteSet(Adding(x))
    BY <2>1, FewAdding
  <2>3. Cardinality(Adding(x)') <= Cardinality(Adding(x))
    BY <2>1, <2>2, FS_Subset
  <2>4. Cardinality(Adding(x)') \in Nat /\ Cardinality(Adding(x)) \in Nat /\ Cardinality(Tabs) \in Nat
    <3>1. Adding(x)' \subseteq Tabs
      BY <2>1
    <3> QED BY <2>1, <3>1, FewAdding
  <2>5. Headroom(x) /\ usage'[x] = usage[x] /\ peak'[x] = peak[x]
        /\ usage[x] \in Nat /\ peak[x] \in Nat
    BY DEF QuotaInv
  <2> QED BY <2>3, <2>4, <2>5 DEF Headroom
<1> QED BY <1>1, <1>2 DEF QuotaInv

LEMMA SendKeeps ==
  ASSUME Inv, NEW t \in Tabs, Send(t)
  PROVE  ChargeInv' /\ QuotaInv'
<1> DEFINE next == [Idle EXCEPT !.at = "assert", !.tenant = tab[t], !.user = Resolved.user]
<1>1. /\ tab[t] # None /\ Resolved # NoSession /\ Resolved.tenant = tab[t]
      /\ call' = [call EXCEPT ![t] = next]
      /\ UNCHANGED <<members, tab, plan, usage, peak, charged>>
  BY DEF Send, Authorized, CallAt, accounts, quotas
<1>2. cookie \in Flows /\ Resolved = sessions[cookie] /\ Progress(cookie)
  BY <1>1 DEF Resolved, Inv, AccountsInv, TypedAccounts
<1>3. Resolved \in [user : Ids, tenant : Flows \cup {None}]
  BY <1>2 DEF Inv, AccountsInv, TypedAccounts
<1>4. [user |-> Resolved.user, tenant |-> tab[t]] \in members
  <2>1. /\ Resolved = [user |-> flow[cookie].row.id, tenant |-> flow[cookie].tenant]
        /\ Provisioned(cookie)
    BY <1>1, <1>2 DEF Progress
  <2>2. [user |-> Resolved.user, tenant |-> Resolved.tenant] \in members
    BY <2>1 DEF Provisioned
  <2> QED BY <1>1, <2>2
<1>5. tab[t] \in Flows \cup {None} /\ Resolved.user \in Ids
  BY <1>3 DEF Inv, ChargeInv
<1>6. next \in CallState /\ next.at = "assert" /\ next.tenant = tab[t] /\ next.user = Resolved.user
  BY <1>5 DEF CallState, Idle
<1> HIDE DEF next
<1>7. ChargeInv' /\ call'[t] = next /\ \A s \in Tabs \ {t} : call'[s] = call[s]
  <2>1. charged' \subseteq members /\ ChargeInv
    BY <1>1 DEF Inv, ChargeInv
  <2> QED BY <1>1, <1>4, <1>6, <2>1, CallMoves
<1>8. QuotaInv'
  BY <1>1, <1>6, <1>7, HeadroomKept DEF Inv, Granted
<1> QED BY <1>7, <1>8

LEMMA AssertKeeps ==
  ASSUME Inv, NEW t \in Tabs, AssertEntitlement(t)
  PROVE  ChargeInv' /\ QuotaInv'
<1> DEFINE p == plan[call[t].tenant]
<1> DEFINE granted == p # None /\ PlanLimit[p] # None
<1> DEFINE next == IF granted THEN [call[t] EXCEPT !.at = "usage", !.limit = PlanLimit[p]] ELSE Idle
<1>1. /\ call[t].at = "assert" /\ call' = [call EXCEPT ![t] = next]
      /\ UNCHANGED <<members, tab, plan, usage, peak, charged>>
  BY DEF AssertEntitlement, CallAt, accounts, quotas
<1>2. call[t] \in CallState /\ [user |-> call[t].user, tenant |-> call[t].tenant] \in members
      /\ call[t].tenant \in Flows
  BY <1>1 DEF Inv, ChargeInv, ForMember, Memberships
<1>3. granted => PlanLimit[p] \in Nat /\ PlanLimit[p] <= peak[call[t].tenant]
  <2>1. p \in Plans \cup {None}
    BY <1>2 DEF Inv, QuotaInv
  <2> QED BY <1>2, <2>1, AccessAssumption DEF Inv, QuotaInv
<1>4. /\ next \in CallState /\ next.at \in {"idle", "usage"}
      /\ next.at = "usage" => /\ next.user = call[t].user /\ next.tenant = call[t].tenant
                              /\ next.limit <= peak[next.tenant]
  <2>1. CASE granted
    BY <2>1, <1>2, <1>3 DEF CallState
  <2>2. CASE ~granted
    BY <2>2, IdleTyped
  <2> QED BY <2>1, <2>2
<1> HIDE DEF next
<1>5. ChargeInv' /\ call'[t] = next /\ \A s \in Tabs \ {t} : call'[s] = call[s]
  <2>1. charged' \subseteq members /\ ChargeInv
    BY <1>1 DEF Inv, ChargeInv
  <2> QED BY <1>1, <1>2, <1>4, <2>1, CallMoves
<1>6. QuotaInv'
  BY <1>1, <1>4, <1>5, HeadroomKept DEF Inv, Granted
<1> QED BY <1>5, <1>6

\* Past the check the usage read was below the limit; whatever the other
\* tabs are adding, they are no more than the tabs there are.
LEMMA ReadUsageKeeps ==
  ASSUME Inv, NEW t \in Tabs, ReadUsage(t)
  PROVE  ChargeInv' /\ QuotaInv'
<1> DEFINE within == WithinQuota(usage[call[t].tenant], call[t].limit)
<1> DEFINE next == IF within THEN [call[t] EXCEPT !.at = "add"] ELSE Idle
<1>1. /\ call[t].at = "usage" /\ call' = [call EXCEPT ![t] = next]
      /\ UNCHANGED <<members, tab, plan, usage, peak, charged>>
  BY DEF ReadUsage, CallAt, accounts, quotas
<1>2. /\ call[t] \in CallState /\ [user |-> call[t].user, tenant |-> call[t].tenant] \in members
      /\ call[t].tenant \in Flows /\ Granted(t)
  BY <1>1 DEF Inv, ChargeInv, QuotaInv, ForMember, Memberships
<1>3. /\ next \in CallState /\ next.at \in {"idle", "add"}
      /\ next.at = "add" => /\ within /\ next.user = call[t].user
                            /\ next.tenant = call[t].tenant /\ next.limit = call[t].limit
  <2>1. CASE within
    BY <2>1, <1>2 DEF CallState
  <2>2. CASE ~within
    BY <2>2, IdleTyped
  <2> QED BY <2>1, <2>2
<1> HIDE DEF next
<1>4. ChargeInv' /\ call'[t] = next /\ \A s \in Tabs \ {t} : call'[s] = call[s]
  <2>1. charged' \subseteq members /\ ChargeInv
    BY <1>1 DEF Inv, ChargeInv
  <2> QED BY <1>1, <1>2, <1>3, <2>1, CallMoves
<1>5. CASE next.at = "idle"
  BY <1>1, <1>4, <1>5, HeadroomKept DEF Inv, Granted
<1>6. CASE next.at = "add"
  <2>1. \A s \in Tabs : Granted(s)'
    BY <1>1, <1>2, <1>3, <1>4, <1>6 DEF Granted, Inv, QuotaInv
  <2>2. ASSUME NEW x \in Flows PROVE Headroom(x)'
    <3>0. usage[x] \in Nat /\ peak[x] \in Nat /\ Headroom(x)
          /\ usage'[x] = usage[x] /\ peak'[x] = peak[x]
      BY <1>1 DEF Inv, QuotaInv
    <3>1. CASE x = call[t].tenant
      <4>1. usage[x] + 1 <= peak[x]
        <5>1. usage[x] + 1 <= call[t].limit /\ call[t].limit <= peak[x]
          BY <1>1, <1>2, <1>3, <1>6, <3>1 DEF WithinQuota, Granted
        <5>2. call[t].limit \in Nat
          BY <1>2 DEF CallState
        <5> QED BY <5>1, <5>2, <3>0
      <4>2. Adding(x)' \subseteq Tabs
        BY DEF Adding
      <4>3. /\ Cardinality(Adding(x)') \in Nat /\ Cardinality(Tabs) \in Nat
            /\ Cardinality(Adding(x)') <= Cardinality(Tabs)
        BY <4>2, FewAdding
      <4> QED BY <3>0, <4>1, <4>3 DEF Headroom
    <3>2. CASE x # call[t].tenant
      <4>1. Adding(x)' = Adding(x)
        BY <1>1, <1>3, <1>4, <1>6, <3>2 DEF Adding
      <4> QED BY <3>0, <4>1 DEF Headroom
    <3> QED BY <3>1, <3>2
  <2> QED BY <1>1, <1>4, <2>1, <2>2 DEF Inv, QuotaInv
<1> QED BY <1>3, <1>4, <1>5, <1>6

\* The unit is counted: one more used, one fewer to come.
LEMMA IncrementKeeps ==
  ASSUME Inv, NEW t \in Tabs, Increment(t)
  PROVE  ChargeInv' /\ QuotaInv'
<1> DEFINE y == call[t].tenant
<1>1. /\ call[t].at = "add" /\ call' = [call EXCEPT ![t] = Idle]
      /\ usage' = [usage EXCEPT ![y] = @ + 1]
      /\ charged' = charged \cup {[user |-> call[t].user, tenant |-> y]}
      /\ UNCHANGED <<members, tab, plan, peak>>
  BY DEF Increment, CallAt, accounts
<1>2. [user |-> call[t].user, tenant |-> y] \in members /\ y \in Flows
  BY <1>1 DEF Inv, ChargeInv, ForMember, Memberships
<1>3. ChargeInv' /\ call'[t] = Idle /\ \A s \in Tabs \ {t} : call'[s] = call[s]
  <2>1. charged' \subseteq members /\ ChargeInv
    BY <1>1, <1>2 DEF Inv, ChargeInv
  <2> QED BY <1>1, <2>1, IdleTyped, CallMoves
<1>4. usage' \in [Flows -> Nat]
  BY <1>1, <1>2 DEF Inv, QuotaInv
<1>5. \A s \in Tabs : Granted(s)'
  BY <1>1, <1>3, IdleTyped DEF Granted, Inv, QuotaInv
<1>6. ASSUME NEW x \in Flows PROVE Headroom(x)'
  <2>0. usage[x] \in Nat /\ peak[x] \in Nat /\ Headroom(x) /\ peak'[x] = peak[x]
    BY <1>1 DEF Inv, QuotaInv
  <2>1. CASE x = y
    <3>1. Adding(x)' = Adding(x) \ {t} /\ t \in Adding(x) /\ Adding(x) \subseteq Tabs
      BY <1>1, <1>3, <2>1, IdleTyped DEF Adding
    <3>2. IsFiniteSet(Adding(x)) /\ Cardinality(Adding(x)) \in Nat /\ Cardinality(Tabs) \in Nat
      BY <3>1, FewAdding
    <3>3. Cardinality(Adding(x)') = Cardinality(Adding(x)) - 1
      BY <3>1, <3>2, FS_RemoveElement
    <3>4. usage'[x] = usage[x] + 1
      BY <1>1, <1>2, <2>1 DEF Inv, QuotaInv
    <3> QED BY <2>0, <3>2, <3>3, <3>4 DEF Headroom
  <2>2. CASE x # y
    <3>1. Adding(x)' = Adding(x) /\ usage'[x] = usage[x]
      BY <1>1, <1>2, <1>3, <2>2, IdleTyped DEF Adding, Inv, QuotaInv
    <3> QED BY <2>0, <3>1 DEF Headroom
  <2> QED BY <2>1, <2>2
<1> QED BY <1>1, <1>3, <1>4, <1>5, <1>6 DEF Inv, QuotaInv

\* A subscription set: the largest quota granted only grows.
LEMMA SetSubscriptionKeeps ==
  ASSUME Inv, NEW x \in Flows, NEW p \in Plans \cup {None}, SetSubscription(x, p)
  PROVE  ChargeInv' /\ QuotaInv'
<1> DEFINE most == IF p # None /\ PlanLimit[p] # None /\ PlanLimit[p] > peak[x]
                   THEN PlanLimit[p] ELSE peak[x]
<1>1. /\ plan' = [plan EXCEPT ![x] = p] /\ peak' = [peak EXCEPT ![x] = most]
      /\ UNCHANGED <<members, tab, call, usage, charged>>
  BY DEF SetSubscription, accounts, Inv, QuotaInv
<1>2. peak[x] \in Nat /\ (p # None /\ PlanLimit[p] # None => PlanLimit[p] \in Nat)
  BY AccessAssumption DEF Inv, QuotaInv
<1>3. most \in Nat /\ peak[x] <= most /\ (p # None /\ PlanLimit[p] # None => PlanLimit[p] <= most)
  BY <1>2
<1> HIDE DEF most
<1>4. ChargeInv'
  BY <1>1 DEF Inv, ChargeInv, ForMember
<1>5. /\ plan' \in [Flows -> Plans \cup {None}] /\ peak' \in [Flows -> Nat]
      /\ plan'[x] = p /\ peak'[x] = most
      /\ \A z \in Flows \ {x} : plan'[z] = plan[z] /\ peak'[z] = peak[z]
  BY <1>1, <1>3 DEF Inv, QuotaInv
<1>6. \A z \in Flows : peak[z] \in Nat /\ peak'[z] \in Nat /\ peak[z] <= peak'[z]
  BY <1>3, <1>5 DEF Inv, QuotaInv
<1>7. \A z \in Flows : plan'[z] # None /\ PlanLimit[plan'[z]] # None =>
                        PlanLimit[plan'[z]] <= peak'[z]
  BY <1>3, <1>5 DEF Inv, QuotaInv
<1>8. ASSUME NEW t \in Tabs PROVE Granted(t)'
  <2>1. SUFFICES ASSUME call[t].at \in {"usage", "add"} PROVE call[t].limit <= peak'[call[t].tenant]
    BY <1>1 DEF Granted
  <2>2. call[t].tenant \in Flows /\ call[t].limit \in Nat
    BY <2>1 DEF Inv, ChargeInv, ForMember, Memberships, CallState
  <2>3. call[t].limit <= peak[call[t].tenant]
    BY <2>1 DEF Inv, QuotaInv, Granted
  <2> QED BY <2>2, <2>3, <1>6
<1>9. ASSUME NEW z \in Flows PROVE Headroom(z)'
  <2>1. Adding(z)' = Adding(z) /\ Adding(z) \subseteq Tabs
    BY <1>1 DEF Adding
  <2>2. Cardinality(Adding(z)) \in Nat /\ Cardinality(Tabs) \in Nat
    BY <2>1, FewAdding
  <2>3. Headroom(z) /\ usage'[z] = usage[z] /\ usage[z] \in Nat
    BY <1>1 DEF Inv, QuotaInv
  <2> QED BY <1>6, <2>1, <2>2, <2>3 DEF Headroom
<1> QED BY <1>1, <1>4, <1>5, <1>7, <1>8, <1>9 DEF Inv, QuotaInv

\* Steps that no request takes: memberships are only added.
LEMMA RequestsKept ==
  ASSUME ChargeInv, QuotaInv, members \subseteq members', members' \subseteq Memberships,
         tab' \in [Tabs -> Flows \cup {None}], UNCHANGED <<call, quotas>>
  PROVE  ChargeInv' /\ QuotaInv'
<1>1. ChargeInv'
  BY DEF ChargeInv, ForMember, quotas
<1>2. (\A t \in Tabs : Granted(t)') /\ \A x \in Flows : Headroom(x)'
  BY DEF QuotaInv, Granted, Headroom, Adding, quotas
<1> QED BY <1>1, <1>2 DEF QuotaInv, quotas

-----------------------------------------------------------------------------
(* The theorems.                                                           *)

LEMMA SignInKeeps ==
  ASSUME Inv, NEW f \in Flows,
         \/ Start(f) \/ Find(f) \/ Upsert(f) \/ ReadMembership(f) \/ Commit(f)
         \/ OpenSession(f) \/ Throw(f) \/ Expire(f)
         \/ \E i \in Identities : Callback(f, [id |-> None, subject |-> i.subject,
                                                email |-> i.email])
  PROVE  Inv'
<1>0. AccountsInv /\ ChargeInv /\ QuotaInv /\ members \subseteq [user : Ids, tenant : Flows]
      /\ tab \in [Tabs -> Flows \cup {None}]
  BY DEF Inv, ChargeInv, Memberships
<1>1. AccountsInv'
  BY <1>0, StartKeeps, FindKeeps, UpsertKeeps, ReadMembershipKeeps, CommitKeeps,
     OpenSessionKeeps, ThrowKeeps, ExpireKeeps, CallbackKeeps
<1>2. members \subseteq members' /\ members' \subseteq Memberships
  <2>1. CASE Commit(f)
    BY <1>0, <2>1, CommitKeeps DEF Memberships
  <2>2. CASE ~Commit(f)
    BY <1>0, <2>2 DEF Memberships, Start, Find, Upsert, ReadMembership, OpenSession, Throw,
                      Expire, Callback, accounts
  <2> QED BY <2>1, <2>2
<1>3. UNCHANGED <<tab, call, quotas>>
  BY DEF Start, Find, Upsert, ReadMembership, Commit, OpenSession, Throw, Expire, Callback
<1>4. ChargeInv' /\ QuotaInv'
  BY <1>0, <1>2, <1>3, RequestsKept
<1> QED BY <1>1, <1>4 DEF Inv

LEMMA TabKeeps ==
  ASSUME Inv, NEW t \in Tabs,
         Load(t) \/ Logout(t) \/ Send(t) \/ AssertEntitlement(t) \/ ReadUsage(t) \/ Increment(t)
  PROVE  Inv'
<1>0. AccountsInv /\ ChargeInv /\ QuotaInv
  BY DEF Inv
<1>1. CASE Load(t)
  <2>1. Resolved.tenant \in Flows \cup {None}
    BY <1>0 DEF Resolved, NoSession, AccountsInv, TypedAccounts
  <2>2. /\ tab' \in [Tabs -> Flows \cup {None}] /\ UNCHANGED <<members, call, quotas>>
        /\ UNCHANGED <<accounts, sessions, browser, flow>>
    BY <1>0, <1>1, <2>1 DEF Load, ChargeInv, accounts
  <2>3. members \subseteq members' /\ members' \subseteq Memberships
    BY <1>0, <2>2 DEF ChargeInv
  <2> QED BY <1>0, <2>2, <2>3, RequestsKept, OthersKeep DEF Inv
<1>2. CASE Logout(t)
  <2>1. tab' \in [Tabs -> Flows \cup {None}] /\ UNCHANGED <<members, call, quotas>>
    BY <1>0, <1>2 DEF Logout, ChargeInv, accounts
  <2>2. members \subseteq members' /\ members' \subseteq Memberships
    BY <1>0, <2>1 DEF ChargeInv
  <2> QED BY <1>0, <1>2, <2>1, <2>2, RequestsKept, LogoutKeeps DEF Inv
<1>3. CASE Send(t)
  BY <1>0, <1>3, SendKeeps, OthersKeep DEF Inv, Send
<1>4. CASE AssertEntitlement(t)
  BY <1>0, <1>4, AssertKeeps, OthersKeep DEF Inv, AssertEntitlement
<1>5. CASE ReadUsage(t)
  BY <1>0, <1>5, ReadUsageKeeps, OthersKeep DEF Inv, ReadUsage
<1>6. CASE Increment(t)
  BY <1>0, <1>6, IncrementKeeps, OthersKeep DEF Inv, Increment
<1> QED BY <1>1, <1>2, <1>3, <1>4, <1>5, <1>6

\* The invariant of sign-ins, sessions, requests and quotas: what the
\* handlers of auth-routes.ts, auth-repository.ts and the entitlement
\* service know between two awaits stays true whatever the others do.
THEOREM AccessInvariance == Spec => []Inv
<1>1. Init => Inv
  BY InitAccounts, InitRequests DEF Inv
<1>2. Inv /\ [Next]_vars => Inv'
  <2> SUFFICES ASSUME Inv, [Next]_vars PROVE Inv'
    OBVIOUS
  <2>1. ASSUME NEW f \in Flows,
               \/ Start(f) \/ Find(f) \/ Upsert(f) \/ ReadMembership(f) \/ Commit(f)
               \/ OpenSession(f) \/ Throw(f) \/ Expire(f)
               \/ \E who \in Identities : Callback(f, [id |-> None, subject |-> who.subject,
                                                        email |-> who.email])
        PROVE  Inv'
    BY <2>1, SignInKeeps
  <2>2. ASSUME NEW t \in Tabs, \/ Load(t) \/ Logout(t) \/ Send(t) \/ AssertEntitlement(t)
                               \/ ReadUsage(t) \/ Increment(t)
        PROVE  Inv'
    BY <2>2, TabKeeps
  <2>3. ASSUME NEW x \in Tenants, NEW p \in Plans \cup {None}, SetSubscription(x, p)
        PROVE  Inv'
    BY <2>3, SetSubscriptionKeeps, OthersKeep DEF Inv, SetSubscription, Tenants
  <2>4. CASE UNCHANGED vars
    <3>1. UNCHANGED <<accounts, sessions, browser, flow>> /\ UNCHANGED <<members, tab, call, quotas>>
      BY <2>4 DEF vars, accounts
    <3>2. members \subseteq members' /\ members' \subseteq Memberships
          /\ tab' \in [Tabs -> Flows \cup {None}]
      BY <3>1 DEF Inv, ChargeInv
    <3> QED BY <3>1, <3>2, RequestsKept, OthersKeep DEF Inv
  <2> QED BY <2>1, <2>2, <2>3, <2>4 DEF Next
<1> QED BY <1>1, <1>2, PTL DEF Spec

\* However many sign-ins of one person run at once, it has one user and that
\* user one tenant.
THEOREM OneTenant == Spec => []OneTenantPerPerson
<1>1. Inv => OneTenantPerPerson
  BY DEF Inv, AccountsInv, UniqueUsers, UniqueMembers, OneTenantPerPerson
<1> QED BY <1>1, AccessInvariance, PTL

\* The user of an open session carries the subject Google named in that very
\* sign-in, also after later sign-ins moved its email.
THEOREM SignedIn == Spec => []SignedInAsSelf
<1>1. Inv => SignedInAsSelf
  <2> SUFFICES ASSUME Inv, NEW f \in Flows, sessions[f] # NoSession
               PROVE  \E u \in users : u.id = sessions[f].user /\ u.subject = flow[f].who.subject
    BY DEF SignedInAsSelf
  <2>1. Progress(f)
    BY DEF Inv, AccountsInv
  <2> QED BY <2>1 DEF Progress, Provisioned
<1> QED BY <1>1, AccessInvariance, PTL

\* A consumption is charged to a tenant its sender is a member of.
THEOREM Charged == Spec => []ChargedToOwnTenant
<1>1. Inv => ChargedToOwnTenant
  BY DEF Inv, ChargeInv, ChargedToOwnTenant
<1> QED BY <1>1, AccessInvariance, PTL

\* With n tabs a quota is passed by at most n - 1 units.
THEOREM QuotaBounded == Spec => []QuotaNearlyKept
<1>1. Inv => QuotaNearlyKept
  <2> SUFFICES ASSUME Inv, NEW x \in Flows
               PROVE  usage[x] <= peak[x] + Cardinality(Tabs) - 1
    BY DEF QuotaNearlyKept, Tenants
  <2>1. Adding(x) \subseteq Tabs
    BY DEF Adding
  <2>2. Cardinality(Adding(x)) \in Nat /\ Cardinality(Tabs) \in Nat
    BY <2>1, FewAdding
  <2>3. usage[x] \in Nat /\ peak[x] \in Nat /\ Headroom(x)
    BY DEF Inv, QuotaInv
  <2> QED BY <2>2, <2>3 DEF Headroom
<1> QED BY <1>1, AccessInvariance, PTL
=============================================================================
