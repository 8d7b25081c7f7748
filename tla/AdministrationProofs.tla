------------------------ MODULE AdministrationProofs ------------------------
(***************************************************************************)
(* The parts of administration, which do not meet. What holds of accounts  *)
(* for every set of users and requests and every policy: type correctness, *)
(* that a lock is earned when requests come one by one, and that a delete  *)
(* leaves an administrator. Of rulesets for every set of requests: type    *)
(* correctness, that the versions of a ruleset are numbered without a gap, *)
(* and that the pipeline applies the version that was activated last when  *)
(* activations are in turn. Of the backup schedule for every set of        *)
(* schedules and workers: type correctness, and that a period passes       *)
(* between two scheduled backups.                                          *)
(***************************************************************************)
EXTENDS Accounts, BackupSchedule, RuleVersions, FiniteSetTheorems, TLAPS

-----------------------------------------------------------------------------
(* Accounts: type correctness.                                             *)

Kind == {"failure", "success", "password", "update", "delete"}

\* A request in flight, and what it has read.
Call == [kind : Kind, actor : Users, target : Users, row : Account,
         body : SUBSET Changes, at : Nat]

CallsOK == \A r \in Requests : req[r] = Done \/ req[r] \in Call

TypeInv ==
    /\ user \in [Users -> Account]
    /\ wrong \in [Users -> Nat]
    /\ DOMAIN req = Requests /\ CallsOK
    /\ now \in Nat /\ setting \in Setting

LEMMA PendingTyped ==
  ASSUME TypeInv, NEW r \in Requests, ~Idle(r)
  PROVE  /\ req[r] \in Call
         /\ req[r].target \in Users /\ req[r].actor \in Users
         /\ req[r].row \in Account
  BY DEF TypeInv, CallsOK, Idle, Done, Call

LEMMA TypeInvGivesTypeOK == TypeInv => AccountsTypeOK
  <1> SUFFICES ASSUME TypeInv PROVE AccountsTypeOK
    OBVIOUS
  <1>1. \A r \in Requests : Idle(r) \/ req[r].row \in Account
    BY PendingTyped
  <1> QED
    BY <1>1 DEF TypeInv, AccountsTypeOK

\* An UPDATE of the columns that changed leaves a row of users.
LEMMA MergedTyped ==
  ASSUME NEW old \in Account, NEW was \in Account, NEW entry \in Account
  PROVE  [f \in DOMAIN old |-> IF entry[f] # was[f] THEN entry[f] ELSE old[f]]
            \in Account
  BY SMTT(60) DEF Account

\* What a commit leaves in the rows, column by column.
LEMMA Written ==
  ASSUME TypeInv, NEW r \in Requests, ~Idle(r), NEW entry \in Account,
         Write(r, entry)
  PROVE  /\ user' \in [Users -> Account]
         /\ \A u \in Users \ {req[r].target} : user'[u] = user[u]
         /\ ~user[req[r].target].live
              => user'[req[r].target] = user[req[r].target]
         /\ user[req[r].target].live =>
              \A f \in {"live", "role", "active", "failed", "locked"} :
                 user'[req[r].target][f] =
                    IF entry[f] # req[r].row[f] THEN entry[f]
                                              ELSE user[req[r].target][f]
  <1> DEFINE t == req[r].target
             was == req[r].row
             merged == [f \in DOMAIN user[t] |->
                          IF entry[f] # was[f] THEN entry[f] ELSE user[t][f]]
             new == IF user[t].live THEN merged ELSE user[t]
  <1>1. t \in Users /\ was \in Account /\ user \in [Users -> Account]
    BY PendingTyped DEF TypeInv
  <1>2. user[t] \in Account
    BY <1>1
  <1>3. merged \in Account
    BY <1>1, <1>2, MergedTyped
  <1>4. user' = [user EXCEPT ![t] = new]
    BY DEF Write
  <1>5. DOMAIN user[t] = {"live", "role", "active", "failed", "locked"}
    BY <1>2 DEF Account
  <1>6. user'[t] = new
    BY <1>1, <1>4
  <1>7. new \in Account
    BY <1>2, <1>3
  <1>8. user' \in [Users -> Account] /\ \A u \in Users \ {t} : user'[u] = user[u]
    BY <1>1, <1>4, <1>7
  <1>9. ASSUME user[t].live, NEW f \in {"live", "role", "active", "failed", "locked"}
        PROVE  user'[t][f] = IF entry[f] # was[f] THEN entry[f] ELSE user[t][f]
    BY <1>5, <1>6, <1>9
  <1> QED
    BY <1>6, <1>8, <1>9

\* A request that reads is well typed.
LEMMA ReadTyped ==
  ASSUME TypeInv, NEW r \in Requests, NEW kind \in Kind, NEW actor \in Users,
         NEW target \in Users, NEW body \in SUBSET Changes,
         Read(r, kind, actor, target, body)
  PROVE  /\ TypeInv'
         /\ setting'.inFlight = setting.inFlight
         /\ setting'.updates = setting.updates
  <1> DEFINE q == [kind |-> kind, actor |-> actor, target |-> target,
                   row |-> user[target], body |-> body, at |-> now]
  <1>1. q \in Call
    BY DEF TypeInv, Call
  <1>2. req' = [req EXCEPT ![r] = q]
    BY DEF Read
  <1>3. DOMAIN req' = Requests /\ CallsOK'
    BY <1>1, <1>2 DEF TypeInv, CallsOK
  <1>4. setting \in Setting /\ setting.calls > 0
    BY DEF TypeInv, Read
  <1>5. setting' = [setting EXCEPT !.calls = @ - 1]
    BY DEF Read
  <1>6. /\ setting' \in Setting
        /\ setting'.inFlight = setting.inFlight
        /\ setting'.updates = setting.updates
    BY <1>4, <1>5 DEF Setting
  <1> QED
    BY <1>3, <1>6 DEF TypeInv, Read

LEMMA EndTyped ==
  ASSUME TypeInv, NEW r \in Requests, End(r),
         user' \in [Users -> Account], wrong' \in [Users -> Nat]
  PROVE  TypeInv'
  BY DEF TypeInv, End, CallsOK

-----------------------------------------------------------------------------
(* Accounts: the invariant.                                                *)

\* With one request at a time, that request holds the row as it is.
Alone ==
    OneByOne =>
        /\ \A r, s \in Requests : ~Idle(r) /\ ~Idle(s) => r = s
        /\ \A r \in Requests : ~Idle(r) => req[r].row = user[req[r].target]

\* LockIsEarned, of the moments between the steps of a request too.
Counted ==
    OneByOne =>
        \A u \in Users : user[u].live =>
            /\ user[u].failed = wrong[u]
            /\ user[u].locked > 0 <=> wrong[u] >= MaxFailed

\* Whoever deletes another user is an administrator for as long as he exists.
Deleting ==
    OneByOne \/ NobodyLeaves =>
        \A r \in Requests : Pending(r, "delete") =>
            /\ req[r].actor # req[r].target
            /\ user[req[r].actor].live => req[r].actor \in ActiveAdmins

Asking == \A r \in Requests : Pending(r, "update") => req[r].body \in setting.updates

AccountsInv == TypeInv /\ Alone /\ Counted /\ Deleting /\ Asking

LEMMA InvInit == AccountsInit => AccountsInv
  <1> SUFFICES ASSUME AccountsInit PROVE AccountsInv
    OBVIOUS
  <1>1. \A r \in Requests : Idle(r) /\ req[r] = Done
    BY DEF AccountsInit, Idle, Done
  <1>2. TypeInv
    BY <1>1, SettingsAssumption
    DEF AccountsInit, TypeInv, CallsOK, Account, Role
  <1>3. Counted
    BY PolicyAssumption DEF AccountsInit, Counted
  <1>4. Alone /\ Deleting /\ Asking
    BY <1>1 DEF Alone, Deleting, Asking, Pending, Idle
  <1> QED
    BY <1>2, <1>3, <1>4 DEF AccountsInv

\* Only one request is in flight where only one may be.
LEMMA NobodyElse ==
  ASSUME OneByOne, NEW r \in Requests, NEW kind, NEW actor, NEW target, NEW body,
         Read(r, kind, actor, target, body)
  PROVE  \A s \in Requests : Idle(s)
  <1> DEFINE busy == {s \in Requests : ~Idle(s)}
  <1>1. Cardinality(busy) < 1
    BY DEF Read, OneByOne
  <1>2. IsFiniteSet(busy)
    BY RequestsAssumption, FS_Subset
  <1>3. Cardinality(busy) \in Nat
    BY <1>2, FS_CardinalityType
  <1>4. Cardinality(busy) = 0
    BY <1>1, <1>3
  <1>5. busy = {}
    BY <1>2, <1>4, FS_EmptySet
  <1> QED
    BY <1>5

\* A request that reads, whatever it asks for, keeps the invariant.
LEMMA ReadKeeps ==
  ASSUME AccountsInv, NEW r \in Requests, NEW kind \in Kind, NEW actor \in Users,
         NEW target \in Users, NEW body \in SUBSET Changes,
         Read(r, kind, actor, target, body),
         kind = "delete" => actor # target /\ actor \in ActiveAdmins,
         kind = "update" => body \in setting.updates
  PROVE  AccountsInv'
  <1> USE DEF AccountsInv
  <1>1. /\ TypeInv' /\ setting'.inFlight = setting.inFlight
        /\ setting'.updates = setting.updates
    BY ReadTyped
  <1>2. UNCHANGED <<user, wrong, now>> /\ Idle(r)
    BY DEF Read
  <1>3. /\ req'[r] = [kind |-> kind, actor |-> actor, target |-> target,
                      row |-> user[target], body |-> body, at |-> now]
        /\ \A s \in Requests \ {r} : req'[s] = req[s]
    BY DEF Read, TypeInv
  <1>4. (OneByOne' <=> OneByOne) /\ (NobodyLeaves' <=> NobodyLeaves)
    BY <1>1 DEF OneByOne, NobodyLeaves
  <1>5. Alone'
    <2> SUFFICES ASSUME OneByOne PROVE Alone'
      BY <1>4 DEF Alone
    <2>1. \A s \in Requests : Idle(s)
      BY NobodyElse
    <2> QED
      BY <1>2, <1>3, <2>1 DEF Alone, Idle
  <1>6. Counted'
    BY <1>2, <1>4 DEF Counted
  <1>7. Deleting'
    <2>1. ActiveAdmins' = ActiveAdmins
      BY <1>2 DEF ActiveAdmins, SignedIn, IsAdmin
    <2> QED
      BY <1>2, <1>3, <1>4, <2>1 DEF Deleting, Pending
  <1>8. Asking'
    BY <1>1, <1>3 DEF Asking, Pending
  <1> QED
    BY <1>1, <1>5, <1>6, <1>7, <1>8

\* When a request commits, the invariant is kept if the counters are right for the
\* user it was about and nobody lost his role or activity.
LEMMA EndKeeps ==
  ASSUME AccountsInv, NEW r \in Requests, ~Idle(r), End(r), TypeInv', Counted',
         NobodyLeaves =>
            \A u \in Users : u \in ActiveAdmins /\ user'[u].live => u \in ActiveAdmins',
         \A u \in Users : user'[u].live => user[u].live
  PROVE  AccountsInv'
  <1> USE DEF AccountsInv
  <1>1. UNCHANGED setting /\ (OneByOne' <=> OneByOne) /\ (NobodyLeaves' <=> NobodyLeaves)
    BY DEF End, OneByOne, NobodyLeaves
  <1>2. /\ req'[r] = Done /\ Idle(r)'
        /\ \A s \in Requests \ {r} : req'[s] = req[s]
    BY DEF End, TypeInv, Idle, Done
  <1>3. OneByOne => \A s \in Requests : Idle(s)'
    BY <1>2 DEF Alone, Idle
  <1>4. Alone'
    BY <1>1, <1>3 DEF Alone
  <1>5. Asking'
    BY <1>1, <1>2 DEF Asking, Pending, Done
  <1>6. Deleting'
    <2>1. ASSUME NEW s \in Requests, Pending(s, "delete")', NobodyLeaves
          PROVE  /\ req'[s].actor # req'[s].target
                 /\ user'[req'[s].actor].live => req'[s].actor \in ActiveAdmins'
      <3>1. s # r /\ req'[s] = req[s] /\ Pending(s, "delete") /\ ~Idle(s)
        BY <1>2, <2>1 DEF Pending, Done, Idle
      <3>2. req[s].actor \in Users
        BY <3>1, PendingTyped
      <3> QED
        BY <2>1, <3>1, <3>2 DEF Deleting
    <2> QED
      BY <1>1, <1>3, <2>1 DEF Deleting, Pending, Idle
  <1> QED
    BY <1>4, <1>5, <1>6

\* The commits that write a row, given what they write.
LEMMA WriteKeeps ==
  ASSUME AccountsInv, NEW r \in Requests, ~Idle(r), NEW entry \in Account,
         Write(r, entry), End(r), wrong' \in [Users -> Nat],
         \A u \in Users \ {req[r].target} : wrong'[u] = wrong[u],
         entry.live = req[r].row.live,
         OneByOne /\ user[req[r].target].live =>
            /\ entry.failed = wrong'[req[r].target]
            /\ entry.locked > 0 <=> wrong'[req[r].target] >= MaxFailed,
         NobodyLeaves => entry.role \in {req[r].row.role, "ADMIN"},
         NobodyLeaves => entry.active \in {req[r].row.active, TRUE}
  PROVE  AccountsInv'
  <1> USE DEF AccountsInv
  <1> DEFINE t == req[r].target
  <1>1. t \in Users /\ req[r].row \in Account
    BY PendingTyped
  <1>2. /\ user' \in [Users -> Account]
        /\ \A u \in Users \ {t} : user'[u] = user[u]
        /\ ~user[t].live => user'[t] = user[t]
    BY Written
  <1>3. ASSUME user[t].live, NEW f \in {"live", "role", "active", "failed", "locked"}
        PROVE  user'[t][f] = IF entry[f] # req[r].row[f] THEN entry[f] ELSE user[t][f]
    BY <1>3, Written
  <1>4. TypeInv'
    BY <1>2, EndTyped
  <1>5. user'[t].live = user[t].live
    BY <1>2, <1>3
  <1>6. Counted'
    <2> SUFFICES ASSUME OneByOne, NEW u \in Users, user'[u].live
                 PROVE  /\ user'[u].failed = wrong'[u]
                        /\ user'[u].locked > 0 <=> wrong'[u] >= MaxFailed
      BY DEF Counted, OneByOne, End
    <2>1. CASE u # t
      BY <1>2, <2>1 DEF Counted
    <2>2. CASE u = t
      <3>1. user[t].live /\ req[r].row = user[t]
        BY <1>5, <2>2 DEF Alone
      <3>2. user'[t].failed = entry.failed /\ user'[t].locked = entry.locked
        BY <1>3, <3>1
      <3> QED
        BY <2>2, <3>1, <3>2
    <2> QED
      BY <2>1, <2>2
  <1>7. ASSUME NobodyLeaves, NEW u \in ActiveAdmins, user'[u].live
        PROVE  u \in ActiveAdmins'
    <2>1. CASE u # t
      BY <1>2, <1>7, <2>1 DEF ActiveAdmins, SignedIn, IsAdmin
    <2>2. CASE u = t
      <3>1. user[t].live /\ user[t].active /\ user[t].role = "ADMIN"
        BY <1>7, <2>2 DEF ActiveAdmins, SignedIn, IsAdmin
      <3>2. user'[t].role = IF entry.role # req[r].row.role THEN entry.role
                                                          ELSE user[t].role
        BY <1>3, <3>1
      <3>3. user'[t].active = IF entry.active # req[r].row.active THEN entry.active
                                                                ELSE user[t].active
        BY <1>3, <3>1
      <3>4. user'[t].role = "ADMIN"
        BY <1>7, <3>1, <3>2
      <3>5. user'[t].active
        BY <1>7, <3>1, <3>3
      <3> QED
        BY <1>1, <1>7, <2>2, <3>4, <3>5 DEF ActiveAdmins, SignedIn, IsAdmin
    <2> QED
      BY <2>1, <2>2
  <1>8. \A u \in Users : user'[u].live => user[u].live
    BY <1>2, <1>5
  <1>9. ActiveAdmins \subseteq Users
    BY DEF ActiveAdmins
  <1> QED
    BY <1>4, <1>6, <1>7, <1>8, EndKeeps

\* The rows that each kind of request writes.
LEMMA LoginFailsWrites ==
  ASSUME TypeInv, NEW r \in Requests, LoginFails(r)
  PROVE  /\ ~Idle(r) /\ End(r)
         /\ wrong' = [wrong EXCEPT ![req[r].target] = @ + 1]
         /\ \E entry \in Account :
              /\ Write(r, entry)
              /\ entry.live = req[r].row.live /\ entry.role = req[r].row.role
              /\ entry.active = req[r].row.active /\ entry.failed = req[r].row.failed + 1
              /\ IF entry.failed >= MaxFailed THEN entry.locked > 0
                                              ELSE entry.locked = req[r].row.locked
  <1> DEFINE was == req[r].row
             n == was.failed + 1
             until == IF n >= MaxFailed THEN req[r].at + LockFor ELSE was.locked
             entry == [was EXCEPT !.failed = n, !.locked = until]
  <1>1. ~Idle(r)
    BY DEF LoginFails, Pending, Idle
  <1>2. was \in Account /\ req[r].at \in Nat
    BY <1>1, PendingTyped DEF Call
  <1>3. was.failed \in Nat /\ was.locked \in Nat
    BY <1>2 DEF Account
  <1>4. n \in Nat /\ until \in Nat /\ (n >= MaxFailed => until > 0)
    BY <1>2, <1>3, PolicyAssumption
  <1>5. Write(r, entry) /\ End(r)
    BY DEF LoginFails
  <1>6. n >= MaxFailed \/ until = was.locked
    OBVIOUS
  <1> HIDE DEF n, until
  <1>7. /\ entry \in Account /\ entry.live = was.live /\ entry.role = was.role
        /\ entry.active = was.active /\ entry.failed = n /\ entry.locked = until
    BY <1>2, <1>4 DEF Account
  <1> HIDE DEF entry
  <1>8. IF entry.failed >= MaxFailed THEN entry.locked > 0 ELSE entry.locked = was.locked
    BY <1>4, <1>6, <1>7
  <1> QED
    BY <1>1, <1>5, <1>7, <1>8 DEF LoginFails, n

LEMMA ClearWrites ==
  ASSUME TypeInv, NEW r \in Requests, Clear(r)
  PROVE  /\ ~Idle(r) /\ End(r)
         /\ wrong' = [wrong EXCEPT ![req[r].target] = 0]
         /\ \E entry \in Account :
              /\ Write(r, entry)
              /\ entry.live = req[r].row.live /\ entry.role = req[r].row.role
              /\ entry.active = req[r].row.active
              /\ entry.failed = 0 /\ entry.locked = 0
  <1> DEFINE was == req[r].row
             entry == [was EXCEPT !.failed = 0, !.locked = 0]
  <1>1. ~Idle(r)
    BY DEF Clear, Pending, Idle
  <1>2. was \in Account
    BY <1>1, PendingTyped
  <1>3. /\ entry \in Account /\ entry.live = was.live /\ entry.role = was.role
        /\ entry.active = was.active /\ entry.failed = 0 /\ entry.locked = 0
    BY <1>2 DEF Account
  <1>4. Write(r, entry) /\ End(r)
    BY DEF Clear
  <1> HIDE DEF entry
  <1> QED
    BY <1>1, <1>3, <1>4 DEF Clear

LEMMA UpdateWrites ==
  ASSUME TypeInv, NEW r \in Requests, UpdateUser(r)
  PROVE  LET was == req[r].row  q == req[r].body  unlock == "unlock" \in q IN
         /\ ~Idle(r) /\ Pending(r, "update") /\ End(r)
         /\ wrong' = [wrong EXCEPT ![req[r].target] = IF unlock THEN 0 ELSE @]
         /\ \E entry \in Account :
              /\ Write(r, entry)
              /\ entry.live = was.live
              /\ "demote" \notin q => entry.role \in {was.role, "ADMIN"}
              /\ "deactivate" \notin q => entry.active \in {was.active, TRUE}
              /\ entry.failed = (IF unlock THEN 0 ELSE was.failed)
              /\ entry.locked = (IF unlock THEN 0 ELSE was.locked)
  <1> DEFINE was == req[r].row
             q == req[r].body
             unlock == "unlock" \in q
             entry == [Renewed(was, q) EXCEPT !.failed = IF unlock THEN 0 ELSE @,
                                            !.locked = IF unlock THEN 0 ELSE @]
  <1>1. ~Idle(r) /\ Pending(r, "update")
    BY DEF UpdateUser, Pending, Idle
  <1>2. was \in Account
    BY <1>1, PendingTyped
  <1>3. /\ entry \in Account /\ entry.live = was.live
        /\ entry.role = IF "promote" \in q THEN "ADMIN"
                      ELSE IF "demote" \in q THEN "VIEWER" ELSE was.role
        /\ entry.active = ((was.active \/ "activate" \in q) /\ "deactivate" \notin q)
        /\ entry.failed = (IF unlock THEN 0 ELSE was.failed)
        /\ entry.locked = IF unlock THEN 0 ELSE was.locked
    BY <1>2 DEF Account, Renewed, Role
  <1>4. Write(r, entry) /\ End(r)
    BY DEF UpdateUser
  <1>5. was.active \in BOOLEAN
    BY <1>2 DEF Account
  <1> HIDE DEF entry
  <1>6. "demote" \notin q => entry.role \in {was.role, "ADMIN"}
    BY <1>3
  <1>7. "deactivate" \notin q => entry.active \in {was.active, TRUE}
    BY <1>3, <1>5
  <1> QED
    BY <1>1, <1>3, <1>4, <1>6, <1>7 DEF UpdateUser

LEMMA LoginFailsKeeps ==
  ASSUME AccountsInv, NEW r \in Requests, LoginFails(r)
  PROVE  AccountsInv'
  <1> DEFINE was == req[r].row
             t == req[r].target
  <1>1. /\ ~Idle(r) /\ End(r)
        /\ wrong' = [wrong EXCEPT ![t] = @ + 1]
    BY LoginFailsWrites DEF AccountsInv
  <1>2. PICK entry \in Account :
              /\ Write(r, entry)
              /\ entry.live = was.live /\ entry.role = was.role
              /\ entry.active = was.active /\ entry.failed = was.failed + 1
              /\ IF entry.failed >= MaxFailed THEN entry.locked > 0
                                              ELSE entry.locked = was.locked
    BY LoginFailsWrites DEF AccountsInv
  <1>3. t \in Users /\ was \in Account /\ wrong \in [Users -> Nat]
    BY <1>1, PendingTyped DEF AccountsInv, TypeInv
  <1>4. /\ wrong' \in [Users -> Nat] /\ wrong'[t] = wrong[t] + 1
        /\ \A u \in Users \ {t} : wrong'[u] = wrong[u]
    BY <1>1, <1>3
  <1>5. ASSUME OneByOne, user[t].live
        PROVE  /\ entry.failed = wrong'[t]
               /\ entry.locked > 0 <=> wrong'[t] >= MaxFailed
    <2>1. was.failed = wrong[t] /\ (was.locked > 0 <=> wrong[t] >= MaxFailed)
      BY <1>1, <1>3, <1>5 DEF AccountsInv, Alone, Counted
    <2>2. wrong[t] \in Nat /\ was.locked \in Nat
      BY <1>3 DEF Account
    <2> QED
      BY <1>2, <1>4, <2>1, <2>2, PolicyAssumption
  <1> QED
    BY <1>1, <1>2, <1>4, <1>5, WriteKeeps

LEMMA ClearKeeps ==
  ASSUME AccountsInv, NEW r \in Requests, Clear(r)
  PROVE  AccountsInv'
  <1> DEFINE was == req[r].row
             t == req[r].target
  <1>1. /\ ~Idle(r) /\ End(r)
        /\ wrong' = [wrong EXCEPT ![t] = 0]
    BY ClearWrites DEF AccountsInv
  <1>2. PICK entry \in Account :
              /\ Write(r, entry)
              /\ entry.live = was.live /\ entry.role = was.role
              /\ entry.active = was.active /\ entry.failed = 0 /\ entry.locked = 0
    BY ClearWrites DEF AccountsInv
  <1>3. t \in Users /\ wrong \in [Users -> Nat]
    BY <1>1, PendingTyped DEF AccountsInv, TypeInv
  <1>4. /\ wrong' \in [Users -> Nat] /\ wrong'[t] = 0
        /\ \A u \in Users \ {t} : wrong'[u] = wrong[u]
    BY <1>1, <1>3
  <1>5. entry.failed = wrong'[t] /\ (entry.locked > 0 <=> wrong'[t] >= MaxFailed)
    BY <1>2, <1>4, PolicyAssumption
  <1> QED
    BY <1>1, <1>2, <1>4, <1>5, WriteKeeps

LEMMA UpdateKeeps ==
  ASSUME AccountsInv, NEW r \in Requests, UpdateUser(r)
  PROVE  AccountsInv'
  <1> DEFINE was == req[r].row
             t == req[r].target
             q == req[r].body
             unlock == "unlock" \in q
  <1>1. /\ ~Idle(r) /\ Pending(r, "update") /\ End(r)
        /\ wrong' = [wrong EXCEPT ![t] = IF unlock THEN 0 ELSE @]
    BY UpdateWrites DEF AccountsInv
  <1>2. PICK entry \in Account :
              /\ Write(r, entry)
              /\ entry.live = was.live
              /\ "demote" \notin q => entry.role \in {was.role, "ADMIN"}
              /\ "deactivate" \notin q => entry.active \in {was.active, TRUE}
              /\ entry.failed = (IF unlock THEN 0 ELSE was.failed)
              /\ entry.locked = (IF unlock THEN 0 ELSE was.locked)
    BY UpdateWrites DEF AccountsInv
  <1>3. t \in Users /\ was \in Account /\ wrong \in [Users -> Nat]
    BY <1>1, PendingTyped DEF AccountsInv, TypeInv
  <1>4. /\ wrong' \in [Users -> Nat]
        /\ wrong'[t] = IF unlock THEN 0 ELSE wrong[t]
        /\ \A u \in Users \ {t} : wrong'[u] = wrong[u]
    BY <1>1, <1>3
  <1>5. ASSUME OneByOne, user[t].live
        PROVE  /\ entry.failed = wrong'[t]
               /\ entry.locked > 0 <=> wrong'[t] >= MaxFailed
    <2>1. was.failed = wrong[t] /\ (was.locked > 0 <=> wrong[t] >= MaxFailed)
      BY <1>1, <1>3, <1>5 DEF AccountsInv, Alone, Counted
    <2> QED
      BY <1>2, <1>4, <2>1, PolicyAssumption
  <1>6. NobodyLeaves => "demote" \notin q /\ "deactivate" \notin q
    BY <1>1 DEF AccountsInv, Asking, NobodyLeaves
  <1> QED
    BY <1>1, <1>2, <1>4, <1>5, <1>6, WriteKeeps

\* A delete takes one row and leaves the other rows alone.
LEMMA Deleted ==
  ASSUME AccountsInv, NEW r \in Requests, DeleteUser(r)
  PROVE  /\ ~Idle(r) /\ Pending(r, "delete") /\ req[r].target \in Users
         /\ user' \in [Users -> Account]
         /\ \A u \in Users \ {req[r].target} : user'[u] = user[u]
         /\ user'[req[r].target] =
              [user[req[r].target] EXCEPT
                  !.live = @ /\ (req[r].target \in Referenced
                                   \/ ~user[req[r].actor].live)]
  <1> DEFINE t == req[r].target
             stays == t \in Referenced \/ ~user[req[r].actor].live
             entry == [user[t] EXCEPT !.live = user[t].live /\ stays]
  <1>1. ~Idle(r) /\ Pending(r, "delete")
    BY DEF DeleteUser, Pending, Idle
  <1>2. t \in Users /\ req[r].actor \in Users /\ user \in [Users -> Account]
    BY <1>1, PendingTyped DEF AccountsInv, TypeInv
  <1>3. user[t] \in Account /\ user[t].live \in BOOLEAN
    BY <1>2 DEF Account
  <1>4. (user[t].live /\ stays) \in BOOLEAN
    OBVIOUS
  <1>5. entry \in Account
    BY <1>3, <1>4 DEF Account
  <1>6. user' = [user EXCEPT ![t] = entry]
    BY <1>2 DEF DeleteUser
  <1> HIDE DEF entry
  <1>7. user'[t] = entry /\ user' \in [Users -> Account]
        /\ \A u \in Users \ {t} : user'[u] = user[u]
    BY <1>2, <1>5, <1>6
  <1> QED
    BY <1>1, <1>2, <1>7 DEF entry

LEMMA DeleteKeeps ==
  ASSUME AccountsInv, NEW r \in Requests, DeleteUser(r)
  PROVE  AccountsInv'
  <1> DEFINE t == req[r].target
  <1>1. /\ ~Idle(r) /\ t \in Users /\ user' \in [Users -> Account]
        /\ \A u \in Users \ {t} : user'[u] = user[u]
    BY Deleted
  <1>2. /\ user'[t].failed = user[t].failed /\ user'[t].locked = user[t].locked
        /\ user'[t].role = user[t].role /\ user'[t].active = user[t].active
        /\ user'[t].live => user[t].live
    <2>1. user[t] \in Account
      BY <1>1 DEF AccountsInv, TypeInv
    <2> QED
      BY ZenonT(60), <2>1, Deleted DEF Account
  <1>3. UNCHANGED wrong /\ End(r)
    BY DEF DeleteUser
  <1>4. TypeInv'
    BY <1>1, <1>3, EndTyped DEF AccountsInv, TypeInv
  <1>5. Counted'
    <2> SUFFICES ASSUME OneByOne, NEW u \in Users, user'[u].live
                 PROVE  /\ user'[u].failed = wrong'[u]
                        /\ user'[u].locked > 0 <=> wrong'[u] >= MaxFailed
      BY <1>3 DEF Counted, OneByOne, End
    <2>1. /\ user[u].live /\ user'[u].failed = user[u].failed
          /\ user'[u].locked = user[u].locked
      BY <1>1, <1>2
    <2> QED
      BY <1>3, <2>1 DEF AccountsInv, Counted
  <1>6. \A u \in Users : user'[u].live => user[u].live
    BY <1>1, <1>2
  <1>7. \A u \in Users : u \in ActiveAdmins /\ user'[u].live => u \in ActiveAdmins'
    BY <1>1, <1>2 DEF ActiveAdmins, SignedIn, IsAdmin
  <1> QED
    BY <1>1, <1>3, <1>4, <1>5, <1>6, <1>7, EndKeeps

-----------------------------------------------------------------------------
(* Accounts: every step keeps the invariant.                               *)

LEMMA InvStep == AccountsInv /\ [AccountsNext]_accountVars => AccountsInv'
  <1> SUFFICES ASSUME AccountsInv, [AccountsNext]_accountVars PROVE AccountsInv'
    OBVIOUS
  <1> USE DEF Kind
  <1>1. ASSUME NEW r \in Requests, NEW u \in Users, NEW good \in BOOLEAN,
               Login(r, u, good)
        PROVE  AccountsInv'
    <2>1. PICK kind \in {"success", "failure"} : Read(r, kind, u, u, {})
      BY <1>1 DEF Login
    <2> QED
      BY <2>1, ReadKeeps
  <1>2. ASSUME NEW r \in Requests, NEW u \in Users, ChangePassword(r, u)
        PROVE  AccountsInv'
    BY <1>2, ReadKeeps DEF ChangePassword
  <1>3. ASSUME NEW r \in Requests, NEW u \in Users, NEW t \in Users,
               AskDelete(r, u, t)
        PROVE  AccountsInv'
    BY <1>3, ReadKeeps DEF AskDelete
  <1>4. ASSUME NEW r \in Requests, NEW u \in Users, NEW t \in Users,
               NEW q \in setting.updates, AskUpdate(r, u, t, q)
        PROVE  AccountsInv'
    <2>1. q \in SUBSET Changes
      BY DEF AccountsInv, TypeInv, Setting
    <2> QED
      BY <1>4, <2>1, ReadKeeps DEF AskUpdate
  <1>5. ASSUME NEW r \in Requests,
               LoginFails(r) \/ Clear(r) \/ UpdateUser(r) \/ DeleteUser(r)
        PROVE  AccountsInv'
    BY <1>5, LoginFailsKeeps, ClearKeeps, UpdateKeeps, DeleteKeeps
  <1>6. CASE Tick \/ UNCHANGED accountVars
    <2>1. UNCHANGED <<user, wrong, req, setting>> /\ now' \in Nat
      BY <1>6 DEF Tick, accountVars, AccountsInv, TypeInv
    <2> QED
      BY <2>1
      DEF AccountsInv, TypeInv, CallsOK, Alone, Counted, Deleting, Asking, OneByOne,
          NobodyLeaves, Idle, Pending, ActiveAdmins, SignedIn, IsAdmin
  <1> QED
    BY <1>1, <1>2, <1>3, <1>4, <1>5, <1>6 DEF AccountsNext

LEMMA InvAlways == AccountsSpec => []AccountsInv
  <1> QED
    BY InvInit, InvStep, PTL DEF AccountsSpec

\* Every reachable state is well typed.
THEOREM AccountsTypeCorrect == AccountsSpec => []AccountsTypeOK
  <1>1. AccountsInv => AccountsTypeOK
    BY TypeInvGivesTypeOK DEF AccountsInv
  <1> QED
    BY <1>1, InvAlways, PTL

\* Requests one by one: the failure counter is exact and an account is locked by
\* as many wrong passwords as the policy allows, whatever the order of logins,
\* password changes, unlocks, updates and expiries (login, update_user).
THEOREM LockEarned == AccountsSpec => []LockIsEarned
  <1>1. AccountsInv => LockIsEarned
    BY DEF AccountsInv, Counted, LockIsEarned
  <1> QED
    BY <1>1, InvAlways, PTL

\* A delete that takes somebody leaves the administrator who asked for it.
LEMMA DeleterStays ==
  ASSUME AccountsInv, [AccountsNext]_accountVars, OneByOne \/ NobodyLeaves,
         NEW u \in Users, user[u].live, ~user'[u].live
  PROVE  ActiveAdmins' # {}
  <1>1. PICK r \in Requests : DeleteUser(r)
    <2>1. ASSUME NEW r \in Requests, NEW entry \in Account, ~Idle(r), Write(r, entry),
                 entry.live = req[r].row.live
          PROVE  FALSE
      BY <2>1, Written DEF AccountsInv
    <2>2. ASSUME NEW r \in Requests, LoginFails(r) PROVE FALSE
      BY <2>1, <2>2, LoginFailsWrites DEF AccountsInv
    <2>3. ASSUME NEW r \in Requests, Clear(r) PROVE FALSE
      BY <2>1, <2>3, ClearWrites DEF AccountsInv
    <2>4. ASSUME NEW r \in Requests, UpdateUser(r) PROVE FALSE
      BY <2>1, <2>4, UpdateWrites DEF AccountsInv
    <2>5. user' # user
      OBVIOUS
    <2> QED
      BY ZenonT(60), <2>2, <2>3, <2>4, <2>5
      DEF AccountsNext, accountVars, Login, ChangePassword, AskDelete, AskUpdate, Read,
          Tick
  <1> DEFINE a == req[r].actor
             t == req[r].target
  <1>2. Pending(r, "delete") /\ ~Idle(r) /\ a \in Users
    BY <1>1, Deleted, PendingTyped DEF AccountsInv
  <1>3. u = t /\ user[a].live
    <2>1. user[t] \in Account
      BY <1>1, Deleted DEF AccountsInv, TypeInv
    <2> QED
      BY <1>1, <2>1, Deleted DEF Account
  <1>4. a # t /\ a \in ActiveAdmins
    BY <1>2, <1>3 DEF AccountsInv, Deleting
  <1>5. user'[a] = user[a]
    BY <1>1, <1>2, <1>4, Deleted
  <1> QED
    BY <1>2, <1>4, <1>5 DEF ActiveAdmins, SignedIn, IsAdmin

\* delete_user never takes the last active administrator, for any number of users
\* and of deletes that cross, as long as nobody is demoted meanwhile: the one who
\* deletes stays, since no user deletes himself and the audit row needs its actor.
THEOREM DeletesKeepAdmin == AccountsSpec => DeleteKeepsAdmin
  <1>1. AccountsInv /\ [AccountsNext]_accountVars
          => [(/\ OneByOne \/ NobodyLeaves
               /\ \E u \in Users : user[u].live /\ ~user'[u].live)
                  => ActiveAdmins' # {}]_accountVars
    BY DeleterStays
  <1> QED
    BY <1>1, InvAlways, PTL DEF AccountsSpec, DeleteKeepsAdmin

-----------------------------------------------------------------------------
(* Rule versions: the invariant.                                           *)

RulesetRow == [there : BOOLEAN, active : BOOLEAN, current : Nat]
CreateCall == [kind : {"create"}, set : Rulesets, no : 1 .. MaxVersion]
ImportCall ==
    [kind : {"import"}, set : Rulesets, no : 1 .. MaxVersion, latest : BOOLEAN]
ActivateCall ==
    [kind : {"activate"}, set : Rulesets, no : 1 .. MaxVersion, seen : SUBSET Row,
     current : Nat]
RuleCall == {NoRequest} \cup CreateCall \cup ImportCall \cup ActivateCall

RulesTypeInv ==
    /\ ruleset \in [Rulesets -> RulesetRow]
    /\ version \subseteq Row
    /\ call \in [Callers -> RuleCall]
    /\ stamp \in Nat
    /\ allowance \in [inTurn : BOOLEAN, activations : Nat, updates : Nat]

\* The number a creation is about to insert was the next when it was asked for.
ComesNext(q) ==
    /\ ruleset[q.set].there
    /\ q.no = 1 \/ q.no - 1 \in Numbers(q.set)

\* Rows of a ruleset have the numbers 1, 2, ..., each once; a number that a creation
\* is about to insert is one of them or the next.
Numbered ==
    /\ \A v, w \in version : v.set = w.set /\ v.no = w.no => v = w
    /\ \A s \in Rulesets : \E n \in Nat : Numbers(s) = 1 .. n
    /\ \A v \in version : ruleset[v.set].there
    /\ \A r \in Callers : Asked(r, "create") => ComesNext(call[r])
    /\ \A r \in Callers : Asked(r, "import") => ruleset[call[r].set].there

\* Times of publication are given once, and an active version has one.
Published ==
    /\ \A v \in version : v.published <= stamp /\ (v.active => v.published # 0)
    /\ chosen = {} \/ \E k \in Rulesets \X Nat : chosen = {k}

\* In turn: the current version is the only active one of its ruleset, what is in
\* use was chosen last, and what an activation has read is still so.
SeenActive(q, v) == \E x \in q.seen : x.no = v.no /\ x.active
UpToDate(q) ==
    /\ q.no \in Numbers(q.set)
    /\ q.current = ruleset[q.set].current
    /\ \A v \in Of(q.set) : SeenActive(q, v) <=> v.active
    /\ \A x \in q.seen : x.no \in Numbers(q.set)

Decided ==
    /\ \A v \in version : v.active <=> v.no = ruleset[v.set].current
    /\ \A s \in Rulesets :
         ruleset[s].current # 0 => ruleset[s].current \in Numbers(s)
    /\ InUse = chosen
    /\ \A r, o \in Callers : Asked(r, "activate") /\ Asked(o, "activate") => r = o
    /\ \A r \in Callers : Asked(r, "activate") => UpToDate(call[r])

RulesInv ==
    RulesTypeInv /\ Numbered /\ Published /\ (allowance.inTurn => Decided)

-----------------------------------------------------------------------------
(* Rule versions: lemmas.                                                  *)

\* The greatest of 0 .. n is n.
LEMMA MaxOfNumbers ==
  ASSUME NEW n \in Nat
  PROVE  Max((1 .. n) \cup {0}) = n
  <1>1. /\ n \in (1 .. n) \cup {0}
        /\ \A y \in (1 .. n) \cup {0} : n >= y
    OBVIOUS
  <1>2. \A x \in (1 .. n) \cup {0} : (\A y \in (1 .. n) \cup {0} : x >= y) => x = n
    BY <1>1
  <1> QED
    BY <1>1, <1>2 DEF Max

\* A set of rows with the numbers 1 .. n, each once, has n members.
LEMMA CountNumbered ==
  ASSUME NEW S, NEW n \in Nat, {v.no : v \in S} = 1 .. n,
         \A v, w \in S : v.no = w.no => v = w
  PROVE  Cardinality(S) = n
  <1> DEFINE f == [i \in 1 .. n |-> CHOOSE v \in S : v.no = i]
  <1>1. \A i \in 1 .. n : f[i] \in S /\ f[i].no = i
    OBVIOUS
  <1>2. \A v \in S : v.no \in 1 .. n /\ f[v.no] = v
    <2> TAKE v \in S
    <2>1. v.no \in 1 .. n
      OBVIOUS
    <2> QED
      BY <1>1, <2>1
  <1>3. f \in [1 .. n -> S]
    BY <1>1
  <1>4. f \in Injection(1 .. n, S)
    BY <1>1, <1>3 DEF Injection, IsInjective
  <1>5. f \in Surjection(1 .. n, S)
    BY <1>2, <1>3 DEF Surjection
  <1>6. f \in Bijection(1 .. n, S)
    BY <1>4, <1>5 DEF Bijection
  <1>7. ExistsBijection(1 .. n, S)
    BY <1>6 DEF ExistsBijection
  <1> QED
    BY <1>7, FS_CountingElements

LEMMA NumbersCounted ==
  ASSUME RulesTypeInv, Numbered, NEW s \in Rulesets
  PROVE  Numbers(s) = 1 .. Cardinality(Of(s)) /\ Cardinality(Of(s)) \in Nat
  <1>1. PICK n \in Nat : Numbers(s) = 1 .. n
    BY DEF Numbered
  <1>2. \A v, w \in Of(s) : v.no = w.no => v = w
    BY DEF Numbered, Of
  <1>3. Cardinality(Of(s)) = n
    BY <1>1, <1>2, CountNumbered DEF Numbers
  <1> QED
    BY <1>1, <1>3

\* The kinds of requests are apart.
LEMMA CallKinds ==
  ASSUME RulesTypeInv, NEW r \in Callers
  PROVE  /\ Asked(r, "create") => call[r] \in CreateCall
         /\ Asked(r, "import") => call[r] \in ImportCall
         /\ Asked(r, "activate") => call[r] \in ActivateCall
  <1>1. call[r] \in RuleCall
    BY DEF RulesTypeInv
  <1> QED
    BY <1>1 DEF RuleCall, NoRequest, CreateCall, ImportCall, ActivateCall, Asked

\* Requests that are answered or asked, seen from the others.
LEMMA AnswerRun ==
  ASSUME RulesTypeInv, NEW r \in Callers, Answer(r)
  PROVE  /\ call' \in [Callers -> RuleCall]
         /\ \A o \in Callers : o # r => call'[o] = call[o]
         /\ \A kind \in {"create", "import", "activate"} : ~Asked(r, kind)'
  BY DEF RulesTypeInv, Answer, RuleCall, NoRequest, Asked

LEMMA AskRun ==
  ASSUME RulesTypeInv, NEW r \in Callers, NEW q \in RuleCall, Ask(r, q)
  PROVE  /\ call' \in [Callers -> RuleCall]
         /\ \A o \in Callers : o # r => call'[o] = call[o]
         /\ call'[r] = q
  BY DEF RulesTypeInv, Ask

\* What is in use depends on the active versions only.
LEMMA SameInUse ==
  ASSUME \A v \in version' : v.active => v \in version,
         \A v \in version : v.active => v \in version'
  PROVE  InUse' = InUse
  <1> DEFINE Last(S) == {w \in S : w.active /\ \A x \in S : x.active => x.published <= w.published}
  <1>1. Last(version') = Last(version)
    OBVIOUS
  <1>2. InUse = {Key(v) : v \in Last(version)} /\ InUse' = {Key(v) : v \in Last(version')}
    BY DEF InUse, Key
  <1> QED
    BY <1>1, <1>2

\* The version that is published last, and active, is what is in use.
LEMMA LastInUse ==
  ASSUME NEW v \in version', v.active,
         \A x \in version' : x.active /\ x # v =>
            ~(v.published <= x.published) /\ x.published <= v.published,
         v.published <= v.published
  PROVE  InUse' = {Key(v)}
  <1> DEFINE Last == {w \in version' : w.active /\
                \A x \in version' : x.active => x.published <= w.published}
  <1>1. v \in Last
    OBVIOUS
  <1>2. \A w \in Last : w = v
    OBVIOUS
  <1>3. Last = {v}
    BY <1>1, <1>2
  <1>4. InUse' = {Key(w) : w \in Last}
    BY DEF InUse, Key
  <1> QED
    BY <1>3, <1>4

-----------------------------------------------------------------------------
(* Rule versions: initial states.                                          *)

LEMMA RulesInitially == RulesInit => RulesInv
  <1> SUFFICES ASSUME RulesInit PROVE RulesInv
    OBVIOUS
  <1>1. RulesTypeInv
    <2>1. \A s \in Rulesets : [NewRuleset EXCEPT !.there = (s = FirstRuleset)]
                                 \in RulesetRow
      BY DEF NewRuleset, RulesetRow
    <2>2. ruleset \in [Rulesets -> RulesetRow]
      BY <2>1 DEF RulesInit
    <2> QED
      BY <2>2, RuleSettingsAssumption DEF RulesInit, RulesTypeInv, RuleCall
  <1>2. \A s \in Rulesets : Of(s) = {} /\ Numbers(s) = {} /\ ruleset[s].current = 0
    BY DEF RulesInit, Of, Numbers, NewRuleset
  <1>3. \A r \in Callers : call[r].kind = "none"
    BY DEF RulesInit, NoRequest
  <1>4. Numbered
    <2>1. \A s \in Rulesets : Numbers(s) = 1 .. 0
      BY <1>2
    <2> QED
      BY <1>3, <2>1 DEF RulesInit, Numbered, Asked
  <1>5. Published
    BY DEF RulesInit, Published
  <1>6. Decided
    <2>1. InUse = {}
      BY DEF RulesInit, InUse
    <2> QED
      BY <1>2, <1>3, <2>1 DEF RulesInit, Decided, Asked
  <1> QED
    BY <1>1, <1>4, <1>5, <1>6 DEF RulesInv

-----------------------------------------------------------------------------
(* Rule versions: steps.                                                   *)

\* A ruleset that is not there has no versions.
LEMMA NewHasNone ==
  ASSUME RulesTypeInv, Numbered, NEW s \in Rulesets, ~ruleset[s].there
  PROVE  Of(s) = {} /\ Numbers(s) = {}
  BY DEF RulesTypeInv, Numbered, Of, Numbers

\* The rows of one ruleset are made anew, or those that are there are switched
\* on or off: neither is seen by what is decided about versions.
LEMMA RulesetStep ==
  ASSUME RulesInv, NEW s \in Rulesets,
         UNCHANGED <<version, stamp, chosen>>, allowance'.inTurn = allowance.inTurn,
         allowance' \in [inTurn : BOOLEAN, activations : Nat, updates : Nat],
         call' \in [Callers -> RuleCall],
         ruleset' \in [Rulesets -> RulesetRow],
         \A o \in Rulesets \ {s} : ruleset'[o] = ruleset[o],
         ruleset'[s].there,
         \/ ruleset[s].there /\ ruleset'[s].current = ruleset[s].current
         \/ ~ruleset[s].there /\ ruleset'[s].current = 0,
         \A r \in Callers :
            call'[r] = call[r] \/ (call'[r].kind = "import" /\ call'[r].set = s)
  PROVE  RulesInv'
  <1>1. \A o \in Rulesets : Of(o)' = Of(o) /\ Numbers(o)' = Numbers(o)
    BY DEF Of, Numbers
  <1>2. InUse' = InUse
    BY DEF InUse, Key
  <1>3. \A r \in Callers : /\ Asked(r, "create")' => Asked(r, "create") /\ call'[r] = call[r]
                           /\ Asked(r, "activate")' => Asked(r, "activate") /\ call'[r] = call[r]
    BY DEF Asked
  <1>4. ~ruleset[s].there => Of(s) = {} /\ Numbers(s) = {}
    BY NewHasNone DEF RulesInv
  <1>5. RulesTypeInv'
    BY DEF RulesTypeInv, RulesInv
  <1>6. Numbered'
    <2>1. \A v \in version : ruleset'[v.set].there
      BY DEF RulesInv, RulesTypeInv, Numbered, Row
    <2>2. ASSUME NEW r \in Callers, Asked(r, "create")'
          PROVE  ComesNext(call[r])'
      <3>1. Asked(r, "create") /\ call'[r] = call[r] /\ call[r].set \in Rulesets
        BY <1>3, <2>2, CallKinds DEF CreateCall, RulesInv
      <3>2. ComesNext(call[r])
        BY <3>1 DEF RulesInv, Numbered
      <3> QED
        BY <1>1, <3>1, <3>2 DEF ComesNext
    <2>3. ASSUME NEW r \in Callers, Asked(r, "import")'
          PROVE  ruleset'[call'[r].set].there
      <3>1. CASE call'[r] = call[r]
        <4>1. Asked(r, "import") /\ call[r].set \in Rulesets
          BY <2>3, <3>1, CallKinds DEF Asked, ImportCall, RulesInv
        <4>2. ruleset[call[r].set].there
          BY <4>1 DEF RulesInv, Numbered
        <4> QED
          BY <3>1, <4>1, <4>2
      <3> QED
        BY <3>1
    <2> QED
      BY <1>1, <2>1, <2>2, <2>3 DEF RulesInv, Numbered
  <1>7. Published'
    BY DEF RulesInv, Published
  <1>8. ASSUME allowance'.inTurn PROVE Decided'
    <2>1. Decided
      BY <1>8 DEF RulesInv
    <2>2. \A v \in version : ruleset'[v.set].current = ruleset[v.set].current
      BY <1>4 DEF RulesInv, RulesTypeInv, Row, Of
    <2>3. \A v \in version : v.active <=> v.no = ruleset'[v.set].current
      BY <2>1, <2>2 DEF Decided
    <2>4. \A o \in Rulesets : ruleset'[o].current # 0 => ruleset'[o].current \in Numbers(o)
      BY <2>1, <1>4 DEF Decided
    <2>5. ASSUME NEW r \in Callers, Asked(r, "activate")' PROVE UpToDate(call[r])'
      <3>1. Asked(r, "activate") /\ call'[r] = call[r] /\ call[r].set \in Rulesets
        BY <1>3, <2>5, CallKinds DEF ActivateCall, RulesInv
      <3>2. UpToDate(call[r])
        BY <2>1, <3>1 DEF Decided
      <3>3. ruleset'[call[r].set].current = ruleset[call[r].set].current
        BY <1>4, <3>1, <3>2 DEF UpToDate
      <3> QED
        BY <1>1, <3>1, <3>2, <3>3 DEF UpToDate, SeenActive
    <2> QED
      BY <1>1, <1>2, <1>3, <2>1, <2>3, <2>4, <2>5 DEF Decided
  <1> QED
    BY <1>5, <1>6, <1>7, <1>8 DEF RulesInv

\* A request is asked or answered, and no row is written.
LEMMA CallStep ==
  ASSUME RulesInv, NEW r \in Callers,
         UNCHANGED <<ruleset, version, stamp, chosen, allowance>>,
         call' \in [Callers -> RuleCall],
         \A o \in Callers : o # r => call'[o] = call[o],
         Asked(r, "create")' => ComesNext(call'[r]),
         ~Asked(r, "import")',
         Asked(r, "activate")' /\ allowance.inTurn =>
           /\ \A o \in Callers : ~Asked(o, "activate")
           /\ UpToDate(call'[r])
  PROVE  RulesInv'
  <1>1. \A o \in Rulesets : Of(o)' = Of(o) /\ Numbers(o)' = Numbers(o)
    BY DEF Of, Numbers
  <1>2. InUse' = InUse
    BY DEF InUse, Key
  <1>3. RulesTypeInv'
    BY DEF RulesTypeInv, RulesInv
  <1>4. Numbered'
    <2>1. ASSUME NEW o \in Callers, Asked(o, "create")'
          PROVE  ComesNext(call[o])'
      <3>1. ComesNext(call'[o])
        BY <2>1 DEF Asked, RulesInv, Numbered
      <3>2. call'[o].set \in Rulesets
        BY <2>1 DEF Asked, RuleCall, NoRequest, CreateCall, ImportCall, ActivateCall
      <3> QED
        BY <1>1, <3>1, <3>2 DEF ComesNext
    <2>2. \A o \in Callers : Asked(o, "import")' => Asked(o, "import") /\ call'[o] = call[o]
      BY DEF Asked
    <2> QED
      BY <1>1, <2>1, <2>2 DEF RulesInv, Numbered
  <1>5. Published'
    BY DEF RulesInv, Published
  <1>6. ASSUME allowance'.inTurn PROVE Decided'
    <2>1. Decided /\ allowance.inTurn
      BY <1>6 DEF RulesInv
    <2>2. \A o \in Callers : Asked(o, "activate")' => UpToDate(call'[o])
      BY <2>1 DEF Decided, Asked
    <2>3. \A o \in Callers : Asked(o, "activate")' => call'[o].set \in Rulesets
      BY DEF Asked, RuleCall, NoRequest, CreateCall, ImportCall, ActivateCall
    <2>4. ASSUME NEW o \in Callers, Asked(o, "activate")' PROVE UpToDate(call[o])'
      BY <1>1, <2>2, <2>3, <2>4 DEF UpToDate, SeenActive
    <2>5. \A o, c \in Callers : Asked(o, "activate")' /\ Asked(c, "activate")' => o = c
      BY <2>1 DEF Decided, Asked
    <2> QED
      BY <1>1, <1>2, <2>1, <2>4, <2>5 DEF Decided
  <1> QED
    BY <1>3, <1>4, <1>5, <1>6 DEF RulesInv

\* Rows are added to a ruleset, with the numbers after its last; where activations
\* are in turn, the last of them may be active and the ruleset's first.
LEMMA NumbersGrow ==
  ASSUME RulesTypeInv, Numbered, NEW s \in Rulesets, NEW n \in Nat, NEW m \in Nat,
         Numbers(s) = 1 .. n, n <= m,
         NEW added \in SUBSET Row, version' = version \cup added,
         \A v \in added : v.set = s /\ v.no \in n + 1 .. m,
         \A i \in n + 1 .. m : \E v \in added : v.no = i,
         \A v, w \in added : v.no = w.no => v = w,
         ruleset[s].there, \A o \in Rulesets : ruleset'[o].there = ruleset[o].there,
         \A r \in Callers, kind \in {"create", "import"} :
            Asked(r, kind)' => Asked(r, kind) /\ call'[r] = call[r]
  PROVE  /\ Numbered'
         /\ \A o \in Rulesets : Numbers(o) \subseteq Numbers(o)'
         /\ \A o \in Rulesets \ {s} : Of(o)' = Of(o) /\ Numbers(o)' = Numbers(o)
  <1>1. \A o \in Rulesets \ {s} : Of(o)' = Of(o)
    BY DEF Of
  <1>2. \A o \in Rulesets \ {s} : Numbers(o)' = Numbers(o)
    BY <1>1 DEF Numbers
  <1>3. Of(s)' = Of(s) \cup added
    BY DEF Of
  <1>4. Numbers(s)' = Numbers(s) \cup {v.no : v \in added}
    BY <1>3 DEF Numbers
  <1>5. {v.no : v \in added} = n + 1 .. m
    OBVIOUS
  <1>6. Numbers(s)' = 1 .. m
    BY <1>4, <1>5
  <1>7. \A o \in Rulesets : Numbers(o) \subseteq Numbers(o)'
    BY <1>2, <1>4
  <1>8. \A v, w \in version' : v.set = w.set /\ v.no = w.no => v = w
    <2> TAKE v, w \in version'
    <2> HAVE v.set = w.set /\ v.no = w.no
    <2>1. CASE v \in version /\ w \in version
      BY <2>1 DEF Numbered
    <2>2. CASE v \in added /\ w \in added
      BY <2>2
    <2>3. \A x \in version : x.set = s => x.no \in 1 .. n
      BY DEF Of, Numbers
    <2> QED
      BY <2>1, <2>2, <2>3
  <1>9. \A v \in version' : ruleset'[v.set].there
    BY DEF Numbered, RulesTypeInv, Row
  <1>10. ASSUME NEW r \in Callers, Asked(r, "create")'
         PROVE  ComesNext(call[r])'
    <2>1. Asked(r, "create") /\ call'[r] = call[r] /\ call[r].set \in Rulesets
      BY <1>10, CallKinds DEF CreateCall
    <2>2. ComesNext(call[r])
      BY <2>1 DEF Numbered
    <2> QED
      BY <1>7, <2>1, <2>2 DEF ComesNext
  <1>11. \A o \in Rulesets : \E k \in Nat : Numbers(o)' = 1 .. k
    BY <1>2, <1>6 DEF Numbered
  <1>12. ASSUME NEW r \in Callers, Asked(r, "import")'
         PROVE  ruleset'[call'[r].set].there
    <2>1. Asked(r, "import") /\ call'[r] = call[r] /\ call[r].set \in Rulesets
      BY <1>12, CallKinds DEF ImportCall
    <2> QED
      BY <2>1 DEF Numbered
  <1> QED
    BY <1>1, <1>2, <1>7, <1>8, <1>9, <1>10, <1>11, <1>12 DEF Numbered

LEMMA CreateVersionStep ==
  ASSUME RulesInv, NEW r \in Callers, CreateVersion(r)
  PROVE  RulesInv'
  <1> DEFINE q == call[r]
  <1>1. /\ RulesTypeInv /\ Numbered /\ Published
        /\ q \in CreateCall /\ Asked(r, "create")
    BY CallKinds DEF RulesInv, CreateVersion
  <1>2. /\ call' \in [Callers -> RuleCall]
        /\ \A o \in Callers : o # r => call'[o] = call[o]
        /\ ~Asked(r, "create")' /\ ~Asked(r, "import")' /\ ~Asked(r, "activate")'
    BY <1>1, AnswerRun DEF CreateVersion
  <1>3. UNCHANGED <<ruleset, stamp, chosen, allowance>>
    BY DEF CreateVersion
  <1>4. CASE Taken(q.set, q.no)
    <2>1. version' = version
      BY <1>4 DEF CreateVersion
    <2> QED
      BY <1>2, <1>3, <2>1, CallStep
  <1>5. CASE ~Taken(q.set, q.no)
    <2> DEFINE new == Fresh(q.set, q.no)
    <2>1. version' = version \cup {new}
      BY <1>5 DEF CreateVersion
    <2>2. new \in Row /\ new.set = q.set /\ new.no = q.no /\ ~new.active /\ new.published = 0
      BY <1>1 DEF Fresh, Row, CreateCall
    <2>3. q.set \in Rulesets /\ q.no \in Nat /\ q.no >= 1
      BY <1>1 DEF CreateCall
    <2>4. PICK n \in Nat : Numbers(q.set) = 1 .. n
      BY <1>1, <2>3 DEF Numbered
    <2>5. q.no = n + 1
      <3>1. q.no = 1 \/ q.no - 1 \in 1 .. n
        BY <1>1, <2>4 DEF Numbered, ComesNext
      <3>2. q.no \notin 1 .. n
        BY <1>5, <2>4 DEF Taken
      <3> QED
        BY <2>3, <3>1, <3>2
    <2>6. ruleset[q.set].there
      BY <1>1 DEF Numbered, ComesNext
    <2> HIDE DEF new
    <2>7. \A o \in Callers, kind \in {"create", "import"} :
            Asked(o, kind)' => Asked(o, kind) /\ call'[o] = call[o]
      BY <1>2 DEF Asked
    <2>8. /\ Numbered'
          /\ \A o \in Rulesets : Numbers(o) \subseteq Numbers(o)'
      <3>1. PICK added \in SUBSET Row, m \in Nat, set \in Rulesets :
              added = {new} /\ m = n + 1 /\ set = q.set
        <4>1. {new} \in SUBSET Row /\ n + 1 \in Nat
          BY <2>2
        <4> QED
          BY <2>3, <4>1
      <3>2. /\ \A v \in added : v.set = set /\ v.no \in n + 1 .. m
            /\ \A i \in n + 1 .. m : \E v \in added : v.no = i
            /\ \A v, w \in added : v.no = w.no => v = w
            /\ n <= m
        BY <2>2, <2>5, <3>1
      <3>3. /\ Numbers(set) = 1 .. n /\ version' = version \cup added
            /\ ruleset[set].there
        BY <2>1, <2>4, <2>6, <3>1
      <3>4. \A o \in Rulesets : ruleset'[o].there = ruleset[o].there
        BY <1>3
      <3> QED
        BY <1>1, <2>7, <3>2, <3>3, <3>4, NumbersGrow
    <2>9. RulesTypeInv'
      BY <1>1, <1>2, <1>3, <2>1, <2>2 DEF RulesTypeInv
    <2>10. Published'
      BY <1>1, <1>3, <2>1, <2>2 DEF Published, RulesTypeInv
    <2>11. ASSUME allowance.inTurn PROVE Decided'
      <3>1. Decided
        BY <2>11 DEF RulesInv
      <3>2. InUse' = InUse
        BY <2>1, <2>2, SameInUse
      <3>3. q.no # ruleset[q.set].current
        BY <2>3, <2>4, <2>5, <3>1 DEF Decided
      <3>4. \A v \in version' : v.active <=> v.no = ruleset[v.set].current
        BY <2>1, <2>2, <3>1, <3>3 DEF Decided
      <3>5. ASSUME NEW o \in Callers, Asked(o, "activate")'
            PROVE  Asked(o, "activate") /\ UpToDate(call[o])'
        <4>1. o # r /\ call'[o] = call[o] /\ Asked(o, "activate")
          BY <1>2, <3>5 DEF Asked
        <4>2. UpToDate(call[o]) /\ call[o] \in ActivateCall
          BY <1>1, <3>1, <4>1, CallKinds DEF Decided
        <4>3. call[o].set \in Rulesets
          BY <4>2 DEF ActivateCall
        <4>4. \A v \in Of(call[o].set)' : SeenActive(call[o], v) <=> v.active
          <5>1. call[o].set = q.set => ~SeenActive(call[o], new)
            BY <2>2, <2>4, <2>5, <4>2 DEF UpToDate, SeenActive
          <5>2. ASSUME NEW v \in Of(call[o].set)'
                PROVE  SeenActive(call[o], v) <=> v.active
            <6>1. v.set = call[o].set /\ v \in version \cup {new}
              BY <2>1, <4>1 DEF Of
            <6>2. CASE v = new
              BY <2>2, <5>1, <6>1, <6>2
            <6>3. CASE v \in version
              <7>1. v \in Of(call[o].set)
                BY <6>1, <6>3 DEF Of
              <7> QED
                BY <4>2, <7>1 DEF UpToDate
            <6> QED
              BY <6>1, <6>2, <6>3
          <5> QED
            BY <5>2
        <4> QED
          BY <1>3, <2>8, <4>1, <4>2, <4>3, <4>4 DEF UpToDate, SeenActive
      <3> QED
        BY <1>3, <2>8, <3>1, <3>2, <3>4, <3>5 DEF Decided
    <2> QED
      BY <1>3, <2>8, <2>9, <2>10, <2>11 DEF RulesInv
  <1> QED
    BY <1>4, <1>5

\* The rows an import inserts.
Imported(q) ==
    LET made == {Fresh(q.set, i) : i \in 1 .. q.no}
        last == Fresh(q.set, q.no)
    IN  IF q.latest THEN (made \ {last}) \cup {Stamped(last)} ELSE made

LEMMA ImportedRows ==
  ASSUME RulesTypeInv, NEW q \in ImportCall
  PROVE  /\ Imported(q) \in SUBSET Row
         /\ \A v \in Imported(q) : v.set = q.set /\ v.no \in 1 .. q.no
         /\ \A i \in 1 .. q.no : \E v \in Imported(q) : v.no = i
         /\ \A v, w \in Imported(q) : v.no = w.no => v = w
         /\ \A v \in Imported(q) :
              IF q.latest /\ v.no = q.no THEN v.active /\ v.published = stamp + 1
                                         ELSE ~v.active /\ v.published = 0
  <1> DEFINE made == {Fresh(q.set, i) : i \in 1 .. q.no}
             last == Fresh(q.set, q.no)
  <1>1. q.set \in Rulesets /\ q.no \in 1 .. MaxVersion /\ q.latest \in BOOLEAN
    BY DEF ImportCall
  <1>2. MaxVersion \in Nat
    BY VersionAssumption
  <1>3. \A i \in 1 .. q.no :
          /\ Fresh(q.set, i) \in Row
          /\ Fresh(q.set, i).set = q.set /\ Fresh(q.set, i).no = i
          /\ ~Fresh(q.set, i).active /\ Fresh(q.set, i).published = 0
    BY <1>1, <1>2 DEF Fresh, Row
  <1>4. /\ Stamped(last) \in Row
        /\ Stamped(last).set = q.set /\ Stamped(last).no = q.no
        /\ Stamped(last).active /\ Stamped(last).published = stamp + 1
    <2>1. last \in Row /\ last.set = q.set /\ last.no = q.no
      BY <1>1, <1>2, <1>3
    <2> HIDE DEF last
    <2>2. PICK v \in Row : v = last
      BY <2>1
    <2>3. PICK time \in Nat : time = stamp + 1
      BY DEF RulesTypeInv
    <2>4. Stamped(v) = [v EXCEPT !.active = TRUE, !.published = time]
      BY <2>3 DEF Stamped
    <2>5. /\ Stamped(v) \in Row /\ Stamped(v).set = v.set /\ Stamped(v).no = v.no
          /\ Stamped(v).active = TRUE /\ Stamped(v).published = time
      BY <2>4 DEF Row
    <2> QED
      BY <2>1, <2>2, <2>3, <2>5
  <1>5. last \in made /\ last.no = q.no
    BY <1>1, <1>2, <1>3
  <1> HIDE DEF last
  <1>6. \A v \in made : v \in Row /\ v.set = q.set /\ v.no \in 1 .. q.no
                        /\ ~v.active /\ v.published = 0
    BY <1>3
  <1>7. \A i \in 1 .. q.no : Fresh(q.set, i) \in made /\ Fresh(q.set, i).no = i
    BY <1>3
  <1>8. \A v \in made : v = Fresh(q.set, v.no)
    BY <1>3
  <1> HIDE DEF made
  <1>9. CASE q.latest
    <2>1. Imported(q) = (made \ {last}) \cup {Stamped(last)}
      BY <1>9 DEF Imported, made, last
    <2>2. \A v \in made \ {last} : v.no # q.no
      BY <1>5, <1>8
    <2>3. \A i \in 1 .. q.no : i # q.no => Fresh(q.set, i) \in made \ {last}
      BY <1>5, <1>7
    <2>4. \A v \in Imported(q) : v \in Row /\ v.set = q.set /\ v.no \in 1 .. q.no
      BY <1>1, <1>2, <1>4, <1>6, <2>1
    <2>5. \A i \in 1 .. q.no : \E v \in Imported(q) : v.no = i
      BY <1>4, <1>7, <2>1, <2>3
    <2>6. \A v, w \in Imported(q) : v.no = w.no => v = w
      BY <1>4, <1>8, <2>1, <2>2
    <2> QED
      BY <1>4, <1>6, <1>9, <2>1, <2>2, <2>4, <2>5, <2>6
  <1>10. CASE ~q.latest
    <2>1. Imported(q) = made
      BY <1>10 DEF Imported, made
    <2> QED
      BY <1>6, <1>7, <1>8, <1>10, <2>1
  <1> QED
    BY <1>1, <1>9, <1>10

LEMMA ImportStep ==
  ASSUME RulesInv, NEW r \in Callers, Import(r)
  PROVE  RulesInv'
  <1>1. PICK q \in ImportCall : q = call[r]
    BY CallKinds DEF RulesInv, Import
  <1>2. RulesTypeInv /\ Numbered /\ Published /\ ruleset[q.set].there
    BY <1>1 DEF RulesInv, Numbered, Import
  <1>3. PICK set \in Rulesets, m \in 1 .. MaxVersion : set = q.set /\ m = q.no
    BY DEF ImportCall
  <1>4. m \in Nat /\ m >= 1 /\ MaxVersion \in Nat
    BY VersionAssumption
  <1>5. PICK added \in SUBSET Row : added = Imported(q)
    BY <1>2, ImportedRows
  <1>6. /\ \A v \in added : v.set = set /\ v.no \in 1 .. m
        /\ \A i \in 1 .. m : \E v \in added : v.no = i
        /\ \A v, w \in added : v.no = w.no => v = w
        /\ \A v \in added :
             IF q.latest /\ v.no = m THEN v.active /\ v.published = stamp + 1
                                     ELSE ~v.active /\ v.published = 0
    BY <1>2, <1>3, <1>5, ImportedRows
  <1>7. version' = version \cup added
    BY <1>1, <1>5 DEF Import, Imported
  <1>8. /\ call' \in [Callers -> RuleCall]
        /\ \A o \in Callers : o # r => call'[o] = call[o]
        /\ ~Asked(r, "create")' /\ ~Asked(r, "import")' /\ ~Asked(r, "activate")'
    BY <1>2, AnswerRun DEF Import
  <1>9. Numbers(set) = 1 .. 0
    <2>1. PICK n \in Nat : Numbers(set) = 1 .. n
      BY <1>2 DEF Numbered
    <2>2. 1 \notin Numbers(set)
      BY <1>1, <1>3, <1>4 DEF Import, Taken
    <2>3. n = 0
      BY <2>1, <2>2
    <2> QED
      BY <2>1, <2>3
  <1>10. UNCHANGED allowance
    BY DEF Import
  <1>11. /\ q.latest =>
              /\ ruleset' = [ruleset EXCEPT ![set].current = m]
              /\ stamp' = stamp + 1
              /\ chosen' = {Key(Fresh(set, m))}
         /\ ~q.latest => UNCHANGED <<ruleset, stamp, chosen>>
    BY <1>1, <1>3 DEF Import
  <1>12. Key(Fresh(set, m)) = <<set, m>>
    BY DEF Key, Fresh
  <1>13. ruleset \in [Rulesets -> RulesetRow] /\ stamp \in Nat
    BY <1>2 DEF RulesTypeInv
  <1>14. /\ ruleset' \in [Rulesets -> RulesetRow]
         /\ \A o \in Rulesets : ruleset'[o].there = ruleset[o].there
         /\ \A o \in Rulesets \ {set} : ruleset'[o] = ruleset[o]
         /\ ruleset'[set].current = IF q.latest THEN m ELSE ruleset[set].current
    BY <1>4, <1>11, <1>13 DEF RulesetRow
  <1>15. \A o \in Callers, kind \in {"create", "import"} :
            Asked(o, kind)' => Asked(o, kind) /\ call'[o] = call[o]
    BY <1>8 DEF Asked
  <1>16. /\ Numbered'
         /\ \A o \in Rulesets : Numbers(o) \subseteq Numbers(o)'
         /\ \A o \in Rulesets \ {set} : Of(o)' = Of(o) /\ Numbers(o)' = Numbers(o)
    <2>1. PICK n \in Nat : n = 0
      OBVIOUS
    <2>2. /\ m \in Nat /\ n <= m /\ Numbers(set) = 1 .. n /\ n + 1 .. m = 1 .. m
          /\ ruleset[set].there
      BY <1>2, <1>3, <1>4, <1>9, <2>1
    <2>3. /\ \A v \in added : v.set = set /\ v.no \in n + 1 .. m
          /\ \A i \in n + 1 .. m : \E v \in added : v.no = i
      BY <1>6, <2>2
    <2> QED
      BY <1>2, <1>6, <1>7, <1>14, <1>15, <2>2, <2>3, NumbersGrow
  <1>17. stamp' \in Nat /\ stamp <= stamp'
    BY <1>11, <1>13
  <1>18. RulesTypeInv'
    BY <1>2, <1>7, <1>8, <1>10, <1>14, <1>17 DEF RulesTypeInv
  <1>19. Published'
    <2>1. \A v \in version : v.published \in Nat /\ v.published <= stamp
      BY <1>2 DEF Published, RulesTypeInv, Row
    <2>2. ASSUME NEW v \in version'
          PROVE  v.published <= stamp' /\ (v.active => v.published # 0)
      <3>1. CASE v \in version
        BY <1>2, <1>11, <1>13, <1>17, <2>1, <3>1 DEF Published
      <3>2. CASE v \in added
        BY <1>6, <1>11, <1>13, <1>17, <3>2
      <3> QED
        BY <1>7, <3>1, <3>2
    <2>3. chosen' = {} \/ \E k \in Rulesets \X Nat : chosen' = {k}
      BY <1>2, <1>4, <1>11, <1>12 DEF Published
    <2> QED
      BY <2>2, <2>3 DEF Published
  <1>20. ASSUME allowance.inTurn PROVE Decided'
    <2>1. Decided
      BY <1>20 DEF RulesInv
    <2>2. ruleset[set].current = 0
      BY <1>9, <2>1 DEF Decided
    <2>3. ASSUME NEW v \in version' PROVE v.active <=> v.no = ruleset'[v.set].current
      <3>1. CASE v \in version
        <4>1. v.set # set /\ v.set \in Rulesets
          BY <1>2, <1>9, <3>1 DEF Numbers, Of, RulesTypeInv, Row
        <4> QED
          BY <1>14, <2>1, <3>1, <4>1 DEF Decided
      <3>2. CASE v \in added
        BY <1>4, <1>6, <1>14, <2>2, <3>2
      <3> QED
        BY <1>7, <3>1, <3>2
    <2>4. ASSUME NEW o \in Rulesets, ruleset'[o].current # 0
          PROVE  ruleset'[o].current \in Numbers(o)'
      <3>1. CASE o = set
        <4>1. q.latest /\ ruleset'[o].current = m
          BY <1>14, <2>2, <2>4, <3>1
        <4>2. PICK v \in added : v.no = m
          BY <1>4, <1>6
        <4>3. v \in Of(o)'
          BY <1>6, <1>7, <3>1, <4>2 DEF Of
        <4> QED
          BY <4>1, <4>2, <4>3 DEF Numbers
      <3>2. CASE o # set
        BY <1>14, <1>16, <2>1, <2>4, <3>2 DEF Decided
      <3> QED
        BY <3>1, <3>2
    <2>5. InUse' = chosen'
      <3>1. CASE ~q.latest
        <4>1. InUse' = InUse
          BY <1>6, <1>7, <3>1, SameInUse
        <4> QED
          BY <1>11, <2>1, <3>1, <4>1 DEF Decided
      <3>2. CASE q.latest
        <4>1. PICK v \in added : v.no = m /\ v.active /\ v.published = stamp + 1 /\ v.set = set
          BY <1>4, <1>6, <3>2
        <4>2. \A x \in version : x.published \in Nat /\ x.published <= stamp
          BY <1>2 DEF Published, RulesTypeInv, Row
        <4>3. \A x \in version' : x.active /\ x # v => x \in version
          BY <1>6, <1>7, <4>1
        <4>4. /\ \A x \in version' : x.active /\ x # v =>
                   ~(v.published <= x.published) /\ x.published <= v.published
              /\ v.published <= v.published
          BY <1>13, <4>1, <4>2, <4>3
        <4>5. InUse' = {Key(v)}
          BY <1>7, <4>1, <4>4, LastInUse
        <4>6. Key(v) = <<set, m>>
          BY <4>1 DEF Key
        <4> QED
          BY <1>11, <1>12, <3>2, <4>5, <4>6
      <3> QED
        BY <3>1, <3>2
    <2>6. ASSUME NEW o \in Callers, Asked(o, "activate")'
          PROVE  Asked(o, "activate") /\ UpToDate(call[o])'
      <3>1. o # r /\ call'[o] = call[o] /\ Asked(o, "activate")
        BY <1>8, <2>6 DEF Asked
      <3>2. UpToDate(call[o]) /\ call[o] \in ActivateCall
        BY <1>2, <2>1, <3>1, CallKinds DEF Decided
      <3>3. call[o].set \in Rulesets \ {set}
        BY <1>9, <3>2 DEF ActivateCall, UpToDate
      <3> QED
        BY <1>14, <1>16, <3>1, <3>2, <3>3 DEF UpToDate, SeenActive
    <2> QED
      BY <2>1, <2>3, <2>4, <2>5, <2>6 DEF Decided
  <1> QED
    BY <1>10, <1>16, <1>18, <1>19, <1>20 DEF RulesInv

\* What an activation makes of a row.
After(q, v) == IF v.set = q.set THEN Activated(q, v) ELSE v

LEMMA ActivatedRow ==
  ASSUME RulesTypeInv, NEW q \in ActivateCall, NEW v \in version
  PROVE  /\ After(q, v) \in Row
         /\ After(q, v).set = v.set /\ After(q, v).no = v.no
         /\ v.set # q.set => After(q, v) = v
         /\ v.set = q.set /\ v.no = q.no =>
              /\ After(q, v).published = stamp + 1
              /\ After(q, v).active <=> v.active \/ ~SeenActive(q, v)
         /\ v.set = q.set /\ v.no # q.no =>
              /\ After(q, v).published = v.published
              /\ After(q, v).active <=> v.active /\ ~SeenActive(q, v)
  <1>1. v \in Row
    BY DEF RulesTypeInv
  <1>2. CASE v.set # q.set
    BY <1>1, <1>2 DEF After
  <1>3. CASE v.set = q.set /\ v.no = q.no
    <2>1. PICK on \in BOOLEAN : on = (v.active \/ ~SeenActive(q, v))
      OBVIOUS
    <2>2. PICK time \in Nat : time = stamp + 1
      BY DEF RulesTypeInv
    <2>3. After(q, v) = [v EXCEPT !.active = on, !.published = time]
      BY <1>3, <2>1, <2>2 DEF After, Activated, SeenActive
    <2>4. /\ After(q, v) \in Row /\ After(q, v).set = v.set /\ After(q, v).no = v.no
          /\ After(q, v).active = on /\ After(q, v).published = time
      BY <1>1, <2>3 DEF Row
    <2> QED
      BY <1>3, <2>1, <2>2, <2>4
  <1>4. CASE v.set = q.set /\ v.no # q.no
    <2>1. PICK on \in BOOLEAN : on = (v.active /\ ~SeenActive(q, v))
      OBVIOUS
    <2>2. After(q, v) = [v EXCEPT !.active = on]
      BY <1>4, <2>1 DEF After, Activated, SeenActive
    <2>3. /\ After(q, v) \in Row /\ After(q, v).set = v.set /\ After(q, v).no = v.no
          /\ After(q, v).active = on /\ After(q, v).published = v.published
      BY <1>1, <2>2 DEF Row
    <2> QED
      BY <1>4, <2>1, <2>3
  <1> QED
    BY <1>2, <1>3, <1>4

LEMMA ActivateStep ==
  ASSUME RulesInv, NEW r \in Callers, Activate(r)
  PROVE  RulesInv'
  <1>1. PICK q \in ActivateCall : q = call[r]
    BY CallKinds DEF RulesInv, Activate
  <1>2. RulesTypeInv /\ Numbered /\ Published /\ Asked(r, "activate")
    BY DEF RulesInv, Activate
  <1>3. /\ q.set \in Rulesets /\ q.no \in 1 .. MaxVersion
        /\ MaxVersion \in Nat /\ q.no \in Nat
    BY VersionAssumption DEF ActivateCall
  <1>4. /\ call' \in [Callers -> RuleCall]
        /\ \A o \in Callers : o # r => call'[o] = call[o]
        /\ ~Asked(r, "create")' /\ ~Asked(r, "import")' /\ ~Asked(r, "activate")'
    BY <1>2, AnswerRun DEF Activate
  <1>5. version' = {After(q, v) : v \in version}
    BY <1>1 DEF Activate, After
  <1>6. /\ stamp' = stamp + 1 /\ chosen' = {<<q.set, q.no>>} /\ UNCHANGED allowance
        /\ ruleset' = IF q.current = q.no THEN ruleset
                      ELSE [ruleset EXCEPT ![q.set].current = q.no]
    BY <1>1 DEF Activate
  <1>7. ruleset \in [Rulesets -> RulesetRow] /\ stamp \in Nat /\ stamp' \in Nat
    BY <1>2, <1>6 DEF RulesTypeInv
  <1>8. PICK set \in Rulesets, no \in Nat : set = q.set /\ no = q.no
    BY <1>3
  <1>9. /\ ruleset' \in [Rulesets -> RulesetRow]
        /\ \A o \in Rulesets : ruleset'[o].there = ruleset[o].there
        /\ \A o \in Rulesets \ {set} : ruleset'[o] = ruleset[o]
        /\ ruleset'[set].current = IF q.current = no THEN ruleset[set].current ELSE no
    <2>1. CASE q.current = no
      BY <1>6, <1>7, <1>8, <2>1
    <2>2. CASE q.current # no
      <3>1. ruleset' = [ruleset EXCEPT ![set].current = no]
        BY <1>6, <1>8, <2>2
      <3> QED
        BY <1>7, <2>2, <3>1 DEF RulesetRow
    <2> QED
      BY <2>1, <2>2
  <1>10. \A v \in version :
           /\ After(q, v) \in Row /\ After(q, v) \in version'
           /\ After(q, v).set = v.set /\ After(q, v).no = v.no
    BY <1>2, <1>5, ActivatedRow
  <1>11. \A w \in version' : \E v \in version : w = After(q, v)
    BY <1>5
  <1>12. \A o \in Rulesets : Numbers(o)' = Numbers(o)
    BY <1>10, <1>11 DEF Numbers, Of
  <1>13. RulesTypeInv'
    BY <1>2, <1>4, <1>6, <1>7, <1>9, <1>10, <1>11 DEF RulesTypeInv
  <1>14. Numbered'
    <2>1. \A v, w \in version' : v.set = w.set /\ v.no = w.no => v = w
      BY <1>2, <1>10, <1>11 DEF Numbered
    <2>2. \A v \in version' : ruleset'[v.set].there
      BY <1>2, <1>9, <1>10, <1>11 DEF Numbered, Row, RulesTypeInv
    <2>3. ASSUME NEW o \in Callers, Asked(o, "create")'
          PROVE  ComesNext(call[o])'
      <3>1. Asked(o, "create") /\ call'[o] = call[o]
        BY <1>4, <2>3 DEF Asked
      <3>2. ComesNext(call[o]) /\ call[o].set \in Rulesets
        BY <1>2, <3>1, CallKinds DEF Numbered, CreateCall
      <3> QED
        BY <1>9, <1>12, <3>1, <3>2 DEF ComesNext
    <2>4. ASSUME NEW o \in Callers, Asked(o, "import")'
          PROVE  ruleset'[call'[o].set].there
      <3>1. Asked(o, "import") /\ call'[o] = call[o]
        BY <1>4, <2>4 DEF Asked
      <3>2. call[o].set \in Rulesets
        BY <1>2, <3>1, CallKinds DEF ImportCall
      <3> QED
        BY <1>2, <1>9, <3>1, <3>2 DEF Numbered
    <2>5. \A o \in Rulesets : \E n \in Nat : Numbers(o)' = 1 .. n
      BY <1>2, <1>12 DEF Numbered
    <2> QED
      BY <2>1, <2>2, <2>3, <2>4, <2>5 DEF Numbered
  <1>15. Published'
    <2>1. ASSUME NEW v \in version
          PROVE  LET w == After(q, v) IN
                 w.published <= stamp' /\ (w.active => w.published # 0)
      <3>1. v.published \in Nat /\ v.published <= stamp /\ (v.active => v.published # 0)
        BY <1>2 DEF Published, RulesTypeInv, Row
      <3>2. CASE v.set # q.set
        BY <1>2, <1>6, <1>7, <3>1, <3>2, ActivatedRow
      <3>3. CASE v.set = q.set /\ v.no = q.no
        <4>1. After(q, v).published = stamp + 1
          BY <1>2, <3>3, ActivatedRow
        <4> QED
          BY <1>6, <1>7, <4>1
      <3>4. CASE v.set = q.set /\ v.no # q.no
        <4>1. /\ After(q, v).published = v.published
              /\ After(q, v).active => v.active
          BY <1>2, <3>4, ActivatedRow
        <4> QED
          BY <1>6, <1>7, <3>1, <4>1
      <3> QED
        BY <3>2, <3>3, <3>4
    <2>2. \E k \in Rulesets \X Nat : chosen' = {k}
      BY <1>6, <1>8
    <2> QED
      BY <1>11, <2>1, <2>2 DEF Published
  <1>16. ASSUME allowance.inTurn PROVE Decided'
    <2>1. Decided
      BY <1>16 DEF RulesInv
    <2>2. UpToDate(q)
      BY <1>1, <1>2, <2>1 DEF Decided
    <2>3. /\ no \in Numbers(set) /\ q.current = ruleset[set].current
          /\ \A v \in Of(set) : SeenActive(q, v) <=> v.active
      BY <1>8, <2>2 DEF UpToDate
    <2>4. ruleset'[set].current = no
      BY <1>9, <2>3
    <2>5. ASSUME NEW v \in version, v.set = set
          PROVE  After(q, v).active <=> v.no = no
      <3>1. SeenActive(q, v) <=> v.active
        BY <2>3, <2>5 DEF Of
      <3> QED
        BY <1>2, <1>8, <2>5, <3>1, ActivatedRow
    <2>6. ASSUME NEW v \in version, v.set # set
          PROVE  After(q, v) = v
      BY <1>2, <1>8, <2>6, ActivatedRow
    <2>7. \A w \in version' : w.active <=> w.no = ruleset'[w.set].current
      <3> TAKE w \in version'
      <3>1. PICK v \in version : w = After(q, v)
        BY <1>11
      <3>2. v.set \in Rulesets
        BY <1>2 DEF RulesTypeInv, Row
      <3>3. CASE v.set = set
        BY <1>10, <2>4, <2>5, <3>1, <3>3
      <3>4. CASE v.set # set
        BY <1>9, <2>1, <2>6, <3>1, <3>2, <3>4 DEF Decided
      <3> QED
        BY <3>3, <3>4
    <2>8. \A o \in Rulesets :
            ruleset'[o].current # 0 => ruleset'[o].current \in Numbers(o)'
      BY <1>9, <1>12, <2>1, <2>3, <2>4 DEF Decided
    <2>9. InUse' = chosen'
      <3>1. PICK u \in version : u.set = set /\ u.no = no
        BY <2>3 DEF Numbers, Of
      <3>2. PICK v \in version' : v = After(q, u)
        BY <1>10
      <3>3. v.set = set /\ v.no = no /\ v.active /\ v.published = stamp + 1
        BY <1>2, <1>8, <1>10, <2>5, <3>1, <3>2, ActivatedRow
      <3>4. ASSUME NEW x \in version', x.active, x # v
            PROVE  ~(v.published <= x.published) /\ x.published <= v.published
        <4>1. PICK y \in version : x = After(q, y)
          BY <1>11
        <4>2. y.set # set
          <5>1. SUFFICES ASSUME y.set = set PROVE FALSE
            OBVIOUS
          <5>2. y.no = no
            BY <2>5, <3>4, <4>1, <5>1
          <5>3. y = u
            BY <1>2, <3>1, <5>1, <5>2 DEF Numbered
          <5> QED
            BY <3>2, <3>4, <4>1, <5>3
        <4>3. x.published \in Nat /\ x.published <= stamp
          BY <1>2, <2>6, <4>1, <4>2 DEF Published, RulesTypeInv, Row
        <4> QED
          BY <1>7, <3>3, <4>3
      <3>5. v.published <= v.published
        BY <1>7, <3>3
      <3>6. InUse' = {Key(v)}
        BY <3>3, <3>4, <3>5, LastInUse
      <3> QED
        BY <1>6, <1>8, <3>3, <3>6 DEF Key
    <2>10. \A o \in Callers : ~Asked(o, "activate")'
      BY <1>2, <1>4, <2>1 DEF Decided, Asked
    <2> QED
      BY <2>7, <2>8, <2>9, <2>10 DEF Decided
  <1> QED
    BY <1>6, <1>13, <1>14, <1>15, <1>16 DEF RulesInv

LEMMA RulesInductive == RulesInv /\ [RulesNext]_ruleVars => RulesInv'
  <1> SUFFICES ASSUME RulesInv, [RulesNext]_ruleVars PROVE RulesInv'
    OBVIOUS
  <1>1. RulesTypeInv /\ Numbered
    BY DEF RulesInv
  <1>2. ruleset \in [Rulesets -> RulesetRow]
    BY <1>1 DEF RulesTypeInv
  <1>3. ASSUME NEW s \in Rulesets, CreateRuleset(s) PROVE RulesInv'
    <2>1. NewRuleset \in RulesetRow /\ NewRuleset.there /\ NewRuleset.current = 0
      BY DEF NewRuleset, RulesetRow
    <2>2. /\ ruleset' = [ruleset EXCEPT ![s] = NewRuleset] /\ ~ruleset[s].there
          /\ UNCHANGED <<version, call, stamp, chosen, allowance>>
      BY <1>3 DEF CreateRuleset
    <2>3. /\ ruleset' \in [Rulesets -> RulesetRow] /\ ruleset'[s] = NewRuleset
          /\ \A o \in Rulesets \ {s} : ruleset'[o] = ruleset[o]
      BY <1>2, <2>1, <2>2
    <2>4. /\ call' \in [Callers -> RuleCall]
          /\ allowance' \in [inTurn : BOOLEAN, activations : Nat, updates : Nat]
      BY <1>1, <2>2 DEF RulesTypeInv
    <2> QED
      BY <2>1, <2>2, <2>3, <2>4, RulesetStep
  <1>4. ASSUME NEW s \in Rulesets, UpdateRuleset(s) PROVE RulesInv'
    <2>1. PICK on \in BOOLEAN : on = ~ruleset[s].active
      OBVIOUS
    <2>2. /\ ruleset' = [ruleset EXCEPT ![s].active = on] /\ ruleset[s].there
          /\ UNCHANGED <<version, call, stamp, chosen>>
          /\ allowance' = [allowance EXCEPT !.updates = @ - 1] /\ allowance.updates > 0
      BY <1>4, <2>1 DEF UpdateRuleset
    <2>3. /\ ruleset' \in [Rulesets -> RulesetRow]
          /\ ruleset'[s].there /\ ruleset'[s].current = ruleset[s].current
          /\ \A o \in Rulesets \ {s} : ruleset'[o] = ruleset[o]
      BY <1>2, <2>2 DEF RulesetRow
    <2>4. /\ call' \in [Callers -> RuleCall]
          /\ allowance' \in [inTurn : BOOLEAN, activations : Nat, updates : Nat]
          /\ allowance'.inTurn = allowance.inTurn
      <3>1. PICK left \in Nat : left = allowance.updates - 1
        BY <1>1, <2>2 DEF RulesTypeInv
      <3>2. allowance' = [allowance EXCEPT !.updates = left]
        BY <2>2, <3>1
      <3> QED
        BY <1>1, <2>2, <3>2 DEF RulesTypeInv
    <2> QED
      BY <2>2, <2>3, <2>4, RulesetStep
  <1>5. ASSUME NEW r \in Callers, NEW s \in Rulesets, AskVersion(r, s) PROVE RulesInv'
    <2>1. PICK n \in Nat : Numbers(s) = 1 .. n /\ Cardinality(Of(s)) = n
      BY <1>1, NumbersCounted
    <2>2. n < MaxVersion /\ MaxVersion \in Nat /\ ruleset[s].there
      BY <1>5, <2>1, VersionAssumption DEF AskVersion
    <2>3. Max(Numbers(s) \cup {0}) = n
      BY <2>1, MaxOfNumbers
    <2>4. PICK q \in CreateCall : q = [kind |-> "create", set |-> s, no |-> n + 1]
      <3>1. n + 1 \in 1 .. MaxVersion
        BY <2>2
      <3> QED
        BY <3>1 DEF CreateCall
    <2>5. Ask(r, q) /\ q \in RuleCall /\ UNCHANGED <<ruleset, version, stamp, chosen, allowance>>
      BY <1>5, <2>3, <2>4 DEF AskVersion, RuleCall
    <2>6. /\ call' \in [Callers -> RuleCall] /\ call'[r] = q
          /\ \A o \in Callers : o # r => call'[o] = call[o]
      BY <1>1, <2>5, AskRun
    <2>7. ComesNext(q)
      <3>1. q.set = s /\ q.no = n + 1
        BY <2>4
      <3> QED
        BY <2>1, <2>2, <3>1 DEF ComesNext
    <2>8. ~Asked(r, "import")' /\ ~Asked(r, "activate")'
      BY <2>4, <2>6 DEF Asked
    <2> QED
      BY <2>5, <2>6, <2>7, <2>8, CallStep
  <1>6. ASSUME NEW r \in Callers, NEW s \in Rulesets, NEW n \in 1 .. MaxVersion,
               NEW latest \in BOOLEAN, AskImport(r, s, n, latest)
        PROVE  RulesInv'
    <2>1. NewRuleset \in RulesetRow /\ NewRuleset.there /\ NewRuleset.current = 0
      BY DEF NewRuleset, RulesetRow
    <2>2. PICK q \in ImportCall :
            q = [kind |-> "import", set |-> s, no |-> n, latest |-> latest]
      BY DEF ImportCall
    <2>3. /\ ruleset' = [ruleset EXCEPT ![s] = NewRuleset] /\ ~ruleset[s].there
          /\ Ask(r, q) /\ q \in RuleCall /\ q.kind = "import" /\ q.set = s
          /\ UNCHANGED <<version, stamp, chosen, allowance>>
      BY <1>6, <2>2 DEF AskImport, RuleCall
    <2>4. /\ ruleset' \in [Rulesets -> RulesetRow] /\ ruleset'[s] = NewRuleset
          /\ \A o \in Rulesets \ {s} : ruleset'[o] = ruleset[o]
      BY <1>2, <2>1, <2>3
    <2>5. /\ call' \in [Callers -> RuleCall] /\ call'[r] = q
          /\ \A o \in Callers : o # r => call'[o] = call[o]
      BY <1>1, <2>3, AskRun
    <2>6. \A o \in Callers :
            call'[o] = call[o] \/ (call'[o].kind = "import" /\ call'[o].set = s)
      BY <2>3, <2>5
    <2>7. allowance' \in [inTurn : BOOLEAN, activations : Nat, updates : Nat]
      BY <1>1, <2>3 DEF RulesTypeInv
    <2> QED
      BY <2>1, <2>3, <2>4, <2>5, <2>6, <2>7, RulesetStep
  <1>7. ASSUME NEW r \in Callers, NEW v \in version, AskActivate(r, v) PROVE RulesInv'
    <2>1. v \in Row
      BY <1>1 DEF RulesTypeInv
    <2>2. PICK q : q = [kind |-> "activate", set |-> v.set, no |-> v.no,
                        seen |-> Of(v.set), current |-> ruleset[v.set].current]
      OBVIOUS
    <2>3. /\ Ask(r, q) /\ MayActivate
          /\ UNCHANGED <<ruleset, version, stamp, chosen, allowance>>
      BY <1>7, <2>2 DEF AskActivate
    <2>4. Of(v.set) \in SUBSET Row /\ ruleset[v.set].current \in Nat /\ v.set \in Rulesets
      BY <1>1, <1>2, <2>1 DEF Of, RulesTypeInv, Row, RulesetRow
    <2>5. q \in ActivateCall
      BY <2>1, <2>2, <2>4 DEF ActivateCall, Row
    <2>6. q \in RuleCall
      BY <2>5 DEF RuleCall
    <2>7. /\ call' \in [Callers -> RuleCall] /\ call'[r] = q
          /\ \A o \in Callers : o # r => call'[o] = call[o]
      BY <1>1, <2>3, <2>6, AskRun
    <2>8. UpToDate(q)
      <3>1. /\ q.no = v.no /\ q.set = v.set /\ q.seen = Of(v.set)
            /\ q.current = ruleset[v.set].current
        BY <2>2
      <3>2. v \in Of(v.set)
        BY DEF Of
      <3>3. \A w \in Of(v.set) : SeenActive(q, w) <=> w.active
        BY <1>1, <3>1 DEF SeenActive, Numbered, Of
      <3> QED
        BY <3>1, <3>2, <3>3 DEF UpToDate, Numbers
    <2>9. allowance.inTurn => \A o \in Callers : ~Asked(o, "activate")
      BY <2>3 DEF MayActivate, Activating
    <2>10. ~Asked(r, "import")' /\ ~Asked(r, "create")'
      BY <2>2, <2>7 DEF Asked
    <2> QED
      BY <2>3, <2>7, <2>8, <2>9, <2>10, CallStep
  <1>8. ASSUME NEW r \in Callers, ImportFails(r) PROVE RulesInv'
    <2>1. Answer(r) /\ UNCHANGED <<ruleset, version, stamp, chosen, allowance>>
      BY <1>8 DEF ImportFails
    <2>2. /\ call' \in [Callers -> RuleCall]
          /\ \A o \in Callers : o # r => call'[o] = call[o]
          /\ ~Asked(r, "create")' /\ ~Asked(r, "import")' /\ ~Asked(r, "activate")'
      BY <1>1, <2>1, AnswerRun
    <2> QED
      BY <2>1, <2>2, CallStep
  <1>9. CASE UNCHANGED ruleVars
    BY <1>9 DEF ruleVars, RulesInv, RulesTypeInv, Numbered, Published, Decided,
       UpToDate, ComesNext, SeenActive, InUse, Key, Numbers, Of, Asked
  <1> QED
    BY <1>3, <1>4, <1>5, <1>6, <1>7, <1>8, <1>9,
       CreateVersionStep, ImportStep, ActivateStep DEF RulesNext

-----------------------------------------------------------------------------
(* Rule versions: theorems.                                                *)

\* The model keeps its types, a version belongs to a ruleset that is there, and one
\* that is active has been published (the models of rulesets and rule_versions).
THEOREM RulesTypeCorrect == RulesSpec => []RulesTypeOK
  <1>1. RulesInv => RulesTypeOK
    <2> SUFFICES ASSUME RulesInv PROVE RulesTypeOK
      OBVIOUS
    <2>1. Cardinality(chosen) <= 1
      <3>1. CASE chosen = {}
        BY <3>1, FS_EmptySet
      <3>2. CASE \E k \in Rulesets \X Nat : chosen = {k}
        <4>1. PICK k \in Rulesets \X Nat : chosen = {k}
          BY <3>2
        <4>2. Cardinality({k}) = 1
          BY FS_Singleton
        <4> QED
          BY <4>1, <4>2
      <3> QED
        BY <3>1, <3>2 DEF RulesInv, Published
    <2> QED
      BY <2>1 DEF RulesInv, RulesTypeInv, Numbered, Published, RulesTypeOK, RulesetRow
  <1> QED
    BY <1>1, RulesInitially, RulesInductive, PTL DEF RulesSpec

\* Whatever creations, imports and activations are in flight, the versions of a
\* ruleset are numbered 1, 2, ..., and when activations are in turn the current
\* version of a ruleset is its only active one and the pipeline applies the version
\* that was activated last (create_rule_version, import_ruleset,
\* activate_rule_version, _get_active_rules).
THEOREM RulesStayAsActivated == RulesSpec => []RulesAsActivated
  <1>1. RulesInv => RulesAsActivated
    <2> SUFFICES ASSUME RulesInv PROVE RulesAsActivated
      OBVIOUS
    <2>1. \A s \in Rulesets : Numbers(s) = 1 .. Cardinality(Of(s))
      BY NumbersCounted DEF RulesInv
    <2>2. ASSUME allowance.inTurn, NEW s \in Rulesets
          PROVE  {v.no : v \in {w \in Of(s) : w.active}} =
                   IF ruleset[s].current = 0 THEN {} ELSE {ruleset[s].current}
      <3>1. Decided /\ RulesTypeInv
        BY <2>2 DEF RulesInv
      <3>2. \A w \in Of(s) : w.active <=> w.no = ruleset[s].current
        BY <3>1 DEF Decided, Of
      <3>3. \A w \in Of(s) : w.no # 0
        BY <3>1, VersionAssumption DEF RulesTypeInv, Row, Of
      <3>4. ruleset[s].current # 0 => \E w \in Of(s) : w.no = ruleset[s].current
        BY <3>1 DEF Decided, Numbers
      <3> QED
        BY <3>2, <3>3, <3>4
    <2>3. allowance.inTurn => InUse = chosen
      BY DEF RulesInv, Decided
    <2> QED
      BY <2>1, <2>2, <2>3 DEF RulesAsActivated
  <1> QED
    BY <1>1, RulesInitially, RulesInductive, PTL DEF RulesSpec

-----------------------------------------------------------------------------
(* The backup schedule.                                                    *)

LEMMA DayLaws ==
  /\ \A t \in Nat : Day(t) \in Nat /\ Day(t) <= t
  /\ \A s, t \in Nat : s <= t => Day(s) <= Day(t)
  /\ \A d, slot, t \in Nat : DaySlots * d + slot <= t => d <= Day(t)
  <1> USE DaysAssumption DEF Day
  <1>1. \A t \in Nat : Day(t) \in Nat /\ DaySlots * Day(t) <= t /\ t < DaySlots * (Day(t) + 1)
    OBVIOUS
  <1>2. \A t \in Nat : Day(t) \in Nat /\ Day(t) <= t
    OBVIOUS
  <1>3. \A d, slot, t \in Nat : DaySlots * d + slot <= t => d <= Day(t)
    OBVIOUS
  <1>4. \A s, t \in Nat : s <= t => Day(s) <= Day(t)
    OBVIOUS
  <1> QED
    BY <1>2, <1>3, <1>4

\* When a check is taken and ends before the next is sent, at most one check
\* waits or runs.
OneCheck ==
    plan.brief =>
        /\ queue <= 1
        /\ \A w \in Workers : Running(w) => queue = 0
        /\ \A v, w \in Workers : Running(v) /\ Running(w) => v = w

\* Then the last scheduled backup of the window is the one that runs, or it is
\* recorded with its day or a later one.
RunKnown ==
    plan.brief /\ ran # Never =>
        /\ ran <= Day(clock)
        /\ \A w \in Workers : Running(w) => Day(task[w]) = ran
        /\ \/ \E w \in Workers : Running(w)
           \/ row.last # Never /\ ran <= Day(row.last)

ScheduleInv == ScheduleTypeOK /\ OneCheck /\ RunKnown

LEMMA ScheduleInitially == ScheduleInit => ScheduleInv
  <1> SUFFICES ASSUME ScheduleInit PROVE ScheduleInv
    OBVIOUS
  <1>1. /\ plan \in [first: Schedules, brief: BOOLEAN, waiting: Nat,
                     changes: Nat, manuals: Nat, kills: Nat]
        /\ row \in [schedule: Schedules, last: {Never}]
    BY ScheduleSettingsAssumption DEF ScheduleInit
  <1>2. ScheduleTypeOK
    <2>1. queue \in Nat /\ clock \in 0 .. MaxTime /\ Never \in Begun
      BY DaysAssumption DEF ScheduleInit, Begun
    <2>2. manual \in BOOLEAN
      BY DEF ScheduleInit
    <2>3. row \in [schedule: Schedules, last: Begun] /\ ran \in Begun
      BY <1>1, <2>1 DEF ScheduleInit
    <2>4. task \in [Workers -> Begun]
      BY <2>1 DEF ScheduleInit
    <2> QED
      BY <1>1, <2>1, <2>2, <2>3, <2>4 DEF ScheduleTypeOK
  <1> QED
    BY <1>2 DEF ScheduleInit, ScheduleInv, OneCheck, RunKnown, Running

LEMMA ScheduleTyped ==
  ASSUME ScheduleTypeOK, ScheduleNext
  PROVE  ScheduleTypeOK' /\ plan'.brief = plan.brief
  <1> DEFINE Plan == [first: Schedules, brief: BOOLEAN, waiting: Nat,
                      changes: Nat, manuals: Nat, kills: Nat]
  <1>0. /\ row \in [schedule: Schedules, last: Begun]
        /\ queue \in Nat
        /\ task \in [Workers -> Begun]
        /\ manual \in BOOLEAN
        /\ clock \in 0 .. MaxTime
        /\ ran \in Begun
        /\ plan \in Plan
    BY DEF ScheduleTypeOK
  <1>1. \A kind \in {"changes", "manuals", "kills"} :
           Spend(kind) => plan' \in Plan /\ plan'.brief = plan.brief
    BY <1>0 DEF Spend
  <1>2. ASSUME clock' = clock PROVE Begun' = Begun
    BY <1>2 DEF Begun
  <1>3. Never \in Begun /\ clock \in Begun /\ Day(clock) \in Begun
    BY <1>0, DayLaws, DaysAssumption DEF Begun
  <1>4. CASE ClockTick
    <2>1. Begun \subseteq Begun' /\ clock' \in 0 .. MaxTime
      BY <1>0, <1>4, DaysAssumption DEF ClockTick, Begun
    <2> QED
      BY <1>0, <1>4, <2>1 DEF ClockTick, ScheduleTypeOK
  <1>5. CASE Beat
    BY <1>0, <1>2, <1>5 DEF Beat, ScheduleTypeOK
  <1>6. CASE AskRunNow
    BY <1>0, <1>1, <1>2, <1>6 DEF AskRunNow, ScheduleTypeOK
  <1>7. ASSUME NEW ok \in BOOLEAN, RunNow(ok)
        PROVE  ScheduleTypeOK' /\ plan'.brief = plan.brief
    BY <1>0, <1>2, <1>3, <1>7 DEF RunNow, ScheduleTypeOK
  <1>8. ASSUME NEW w \in Workers, Skip(w)
        PROVE  ScheduleTypeOK' /\ plan'.brief = plan.brief
    BY <1>0, <1>2, <1>8 DEF Skip, ScheduleTypeOK
  <1>9. ASSUME NEW w \in Workers, Start(w)
        PROVE  ScheduleTypeOK' /\ plan'.brief = plan.brief
    BY <1>0, <1>2, <1>3, <1>9 DEF Start, ScheduleTypeOK
  <1>10. ASSUME NEW w \in Workers, Kill(w)
         PROVE  ScheduleTypeOK' /\ plan'.brief = plan.brief
    BY <1>0, <1>1, <1>2, <1>3, <1>10 DEF Kill, ScheduleTypeOK
  <1>11. ASSUME NEW w \in Workers, NEW ok \in BOOLEAN, Finish(w, ok)
         PROVE  ScheduleTypeOK' /\ plan'.brief = plan.brief
    BY <1>0, <1>2, <1>3, <1>11 DEF Finish, ScheduleTypeOK
  <1>12. ASSUME NEW s \in Schedules, Save(s)
         PROVE  ScheduleTypeOK' /\ plan'.brief = plan.brief
    BY <1>0, <1>1, <1>2, <1>3, <1>12 DEF Save, ScheduleTypeOK
  <1> QED
    BY <1>4, <1>5, <1>6, <1>7, <1>8, <1>9, <1>10, <1>11, <1>12 DEF ScheduleNext

LEMMA ScheduleInductive ==
  ASSUME ScheduleInv, [ScheduleNext]_scheduleVars
  PROVE  ScheduleInv'
  <1>1. CASE UNCHANGED scheduleVars
    BY <1>1 DEF ScheduleInv, ScheduleTypeOK, OneCheck, RunKnown, scheduleVars,
                Running, Begun, Day
  <1>2. CASE ScheduleNext
    <2>0. ScheduleTypeOK' /\ plan'.brief = plan.brief
      BY <1>2, ScheduleTyped DEF ScheduleInv
    <2> SUFFICES ASSUME plan.brief PROVE (OneCheck /\ RunKnown)'
      BY <2>0 DEF ScheduleInv, OneCheck, RunKnown
    <2>1. /\ queue \in Nat /\ queue <= 1 /\ clock \in Nat /\ ran \in Int
          /\ row.last \in {Never} \cup Nat
          /\ task \in [Workers -> {Never} \cup 0 .. clock]
          /\ \A w \in Workers : Running(w) => queue = 0
          /\ \A v, w \in Workers : Running(v) /\ Running(w) => v = w
      BY DaysAssumption DEF ScheduleInv, ScheduleTypeOK, OneCheck, Begun, Never
    <2>2. ran # Never =>
            /\ ran <= Day(clock)
            /\ \A w \in Workers : Running(w) => Day(task[w]) = ran
            /\ \/ \E w \in Workers : Running(w)
               \/ row.last # Never /\ ran <= Day(row.last)
      BY DEF ScheduleInv, RunKnown
    <2>3. ASSUME UNCHANGED <<queue, task>> PROVE OneCheck'
      BY <2>0, <2>1, <2>3 DEF OneCheck, Running
    <2>4. CASE ClockTick
      <3>1. Day(clock) \in Nat /\ Day(clock') \in Nat /\ Day(clock) <= Day(clock')
        BY <2>1, <2>4, DayLaws DEF ClockTick
      <3> QED
        BY <2>0, <2>1, <2>2, <2>3, <2>4, <3>1 DEF ClockTick, RunKnown, Running, Day
    <2>5. CASE Beat
      BY <2>0, <2>1, <2>2, <2>5 DEF Beat, OneCheck, RunKnown, Running, Day
    <2>6. CASE AskRunNow
      BY <2>0, <2>1, <2>2, <2>3, <2>6 DEF AskRunNow, RunKnown, Running, Day
    <2>7. ASSUME NEW ok \in BOOLEAN, RunNow(ok) PROVE (OneCheck /\ RunKnown)'
      BY <2>0, <2>1, <2>2, <2>3, <2>7 DEF RunNow, RunKnown, Running, Day, Never
    <2>8. ASSUME NEW w \in Workers, Skip(w) PROVE (OneCheck /\ RunKnown)'
      BY <2>0, <2>1, <2>2, <2>8 DEF Skip, OneCheck, RunKnown, Running, Day
    <2>9. ASSUME NEW w \in Workers, Start(w) PROVE (OneCheck /\ RunKnown)'
      <3>1. \A v \in Workers : ~Running(v)
        BY <2>1, <2>9 DEF Start
      <3>2. /\ queue' = 0 /\ task'[w] = clock /\ ran' = Day(clock) /\ clock' = clock
            /\ \A v \in Workers : v # w => task'[v] = Never
            /\ Day(clock) \in Nat
        BY <2>1, <2>9, <3>1, DayLaws DEF Start, Running
      <3> QED
        BY <2>0, <2>1, <3>2 DEF OneCheck, RunKnown, Running, Day, Never
    <2>10. ASSUME NEW w \in Workers, Kill(w) PROVE (OneCheck /\ RunKnown)'
      <3>1. /\ queue' = 1 /\ ran' = Never
            /\ \A v \in Workers : task'[v] = Never
        BY <2>1, <2>10 DEF Kill, Running
      <3> QED
        BY <2>0, <3>1 DEF OneCheck, RunKnown, Running
    <2>11. ASSUME NEW w \in Workers, NEW ok \in BOOLEAN, Finish(w, ok)
           PROVE  (OneCheck /\ RunKnown)'
      <3>1. /\ queue' = queue /\ row'.last = task[w] /\ ran' = ran /\ clock' = clock
            /\ \A v \in Workers : task'[v] = Never
            /\ task[w] # Never
        BY <2>1, <2>11 DEF Finish, Running, ScheduleInv, ScheduleTypeOK
      <3>2. ran # Never => Day(task[w]) = ran
        BY <2>2, <3>1 DEF Running
      <3>3. ran <= ran
        BY <2>1
      <3> QED
        BY <2>0, <2>1, <2>2, <3>1, <3>2, <3>3 DEF OneCheck, RunKnown, Running, Day
    <2>12. ASSUME NEW s \in Schedules, Save(s) PROVE (OneCheck /\ RunKnown)'
      BY <2>0, <2>1, <2>2, <2>3, <2>12 DEF Save, RunKnown, Running, Day
    <2> QED
      BY <1>2, <2>4, <2>5, <2>6, <2>7, <2>8, <2>9, <2>10, <2>11, <2>12 DEF ScheduleNext
  <1> QED
    BY <1>1, <1>2

LEMMA ScheduleAlways == ScheduleSpec => []ScheduleInv
  BY ScheduleInitially, ScheduleInductive, PTL DEF ScheduleSpec

\* Every reachable state of the schedule is well typed: no run is recorded, and
\* none is under way, that has not begun.
THEOREM ScheduleTypeCorrect == ScheduleSpec => []ScheduleTypeOK
  <1>1. ScheduleInv => ScheduleTypeOK
    BY DEF ScheduleInv
  <1> QED
    BY <1>1, ScheduleAlways, PTL

\* A scheduled backup starts interval_days or more after the one before it, when
\* backups end before the next check (run_scheduled_backup_if_due).
THEOREM PeriodsAreKept == ScheduleSpec => OncePerPeriod
  <1>1. ScheduleInv /\ [ScheduleNext]_scheduleVars =>
          [\A w \in Workers :
             plan.brief /\ ~Running(w) /\ task'[w] # Never /\ ran # Never
               => Day(clock) >= ran + row.schedule.interval]_scheduleVars
    <2> SUFFICES ASSUME ScheduleInv, ScheduleNext, NEW w \in Workers,
                        plan.brief, ~Running(w), task'[w] # Never, ran # Never
                 PROVE  Day(clock) >= ran + row.schedule.interval
      OBVIOUS
    <2>0. /\ task \in [Workers -> Begun]
          /\ row.schedule \in Schedules /\ row.last \in Begun /\ clock \in Nat
          /\ ran \in Begun
      BY DaysAssumption DEF ScheduleInv, ScheduleTypeOK
    <2>1. Start(w)
      <3>1. task' # task
        BY DEF Running
      <3>2. PICK v \in Workers : \/ Start(v) \/ Kill(v) \/ \E ok \in BOOLEAN : Finish(v, ok)
        BY <3>1 DEF ScheduleNext, ClockTick, Beat, AskRunNow, RunNow, Skip, Save
      <3>3. Start(v) /\ v = w
        BY <2>0, <3>2 DEF Start, Kill, Finish, Running
      <3> QED
        BY <3>3
    <2>2. row.last # Never /\ row.last \in Nat /\ ran <= Day(row.last)
      BY <2>0, <2>1 DEF Start, ScheduleInv, OneCheck, RunKnown, ScheduleTypeOK, Begun
    <2>3. /\ row.schedule.interval \in Nat /\ row.schedule.slot \in Nat
          /\ Day(row.last) \in Nat /\ Day(clock) \in Nat /\ ran \in Int
      <3>1. row.schedule.interval \in 1 .. 60 /\ row.schedule.slot \in 0 .. (DaySlots - 1)
        BY <2>0, SchedulesAssumption
      <3>2. row.schedule.interval \in Nat /\ row.schedule.slot \in Nat
        BY <3>1, DaysAssumption
      <3>3. Day(row.last) \in Nat /\ Day(clock) \in Nat
        BY <2>0, <2>2, DayLaws
      <3>4. ran \in Int
        BY <2>0 DEF Begun, Never
      <3> QED
        BY <3>2, <3>3, <3>4
    <2>4. PICK d \in Nat : d = Day(row.last) + row.schedule.interval
      BY <2>3
    <2>5. DaySlots * d + row.schedule.slot <= clock
      <3>1. NextDue = DaySlots * d + row.schedule.slot
        BY <2>2, <2>4 DEF NextDue
      <3>2. DaySlots * d \in Nat
        BY <2>4, DaysAssumption
      <3> QED
        BY <2>0, <2>1, <2>3, <3>1, <3>2 DEF Start, Due
    <2>6. d <= Day(clock)
      BY <2>0, <2>3, <2>4, <2>5, DayLaws
    <2> QED
      BY <2>2, <2>3, <2>4, <2>6
  <1> QED
    BY <1>1, ScheduleAlways, PTL DEF ScheduleSpec, OncePerPeriod
=============================================================================
