------------------------------ MODULE Accounts ------------------------------
(***************************************************************************)
(* User rows and the requests that change them: login with its lockout     *)
(* counter, change-password, and an administrator's update and delete.     *)
(*                                                                         *)
(* A request reads rows first and writes later, without a lock; its UPDATE *)
(* sets the columns that differ from what it read. The row of the audit    *)
(* log that a delete writes refers to the acting user, so that user must   *)
(* exist when the delete commits.                                          *)
(***************************************************************************)
EXTENDS Integers, FiniteSets

CONSTANTS
    Users,
    FirstAdmins,    \* users that start as administrators
    Referenced,     \* users that a table _nullify_user_refs leaves out names
    Requests,       \* requests that may be in flight
    MaxFailed, LockFor,  \* the policy: max_failed_attempts, lockout_seconds
    Settings        \* the settings that behaviours start with

Changes == {"promote", "demote", "activate", "deactivate", "unlock"}

ASSUME PolicyAssumption == MaxFailed \in Nat \ {0} /\ LockFor \in Nat \ {0}
ASSUME RequestsAssumption == IsFiniteSet(Requests)
ASSUME AdminsAssumption ==
    FirstAdmins \subseteq Users /\ Referenced \subseteq Users

\* The bodies of PATCH /admin/users/{id}, each a set of changes, and the bounds of
\* a behaviour: requests in flight at a time, requests still to come, time.
Setting == [updates : SUBSET SUBSET Changes, inFlight : Nat, calls : Nat,
            until : Nat]

ASSUME SettingsAssumption == Settings \subseteq Setting

Role == {"ADMIN", "VIEWER"}
Account == [live : BOOLEAN, role : Role, active : BOOLEAN, failed : Nat,
            locked : Nat]

VARIABLES
    user,     \* the rows of users; locked = 0 stands for no locked_until
    wrong,    \* wrong passwords since the counter was last cleared (history)
    req,      \* requests in flight: what they read and what they will write
    now,
    setting
accountVars == <<user, wrong, req, now, setting>>

Done == [kind |-> "none"]

AccountsInit ==
    /\ user = [u \in Users |->
                 [live |-> TRUE, active |-> TRUE, failed |-> 0, locked |-> 0,
                  role |-> IF u \in FirstAdmins THEN "ADMIN" ELSE "VIEWER"]]
    /\ wrong = [u \in Users |-> 0]
    /\ req = [r \in Requests |-> Done]
    /\ now = 1
    /\ setting \in Settings

-----------------------------------------------------------------------------
Idle(r) == req[r].kind = "none"
Pending(r, kind) == req[r].kind = kind

\* get_current_user: the session's user is read again for every request.
SignedIn(u) == user[u].live /\ user[u].active
IsAdmin(u) == user[u].role = "ADMIN"
ActiveAdmins == {u \in Users : SignedIn(u) /\ IsAdmin(u)}
Locked(u) == user[u].locked > now

Read(r, kind, actor, target, body) ==
    /\ Idle(r) /\ setting.calls > 0
    /\ Cardinality({s \in Requests : ~Idle(s)}) < setting.inFlight
    /\ setting' = [setting EXCEPT !.calls = @ - 1]
    /\ req' = [req EXCEPT ![r] =
                 [kind |-> kind, actor |-> actor, target |-> target,
                  row |-> user[target], body |-> body, at |-> now]]
    /\ UNCHANGED <<user, wrong, now>>

\* The UPDATE of a commit: the columns that now differ from what was read.
Write(r, row) ==
    LET t == req[r].target  was == req[r].row IN
    user' = [user EXCEPT ![t] =
        IF @.live
        THEN [f \in DOMAIN @ |-> IF row[f] # was[f] THEN row[f] ELSE @[f]]
        ELSE @]

End(r) == /\ req' = [req EXCEPT ![r] = Done]
          /\ UNCHANGED <<now, setting>>

\* Unknown, inactive and locked users are turned away before the password.
Login(r, u, good) ==
    /\ SignedIn(u) /\ ~Locked(u)
    /\ Read(r, IF good THEN "success" ELSE "failure", u, u, {})

\* Fault: the counter starts again with every lock.
LoginFails_CountReset(r) ==
    LET row == req[r].row  t == req[r].target  n == row.failed + 1 IN
    /\ Pending(r, "failure")
    /\ Write(r, IF n >= MaxFailed
                THEN [row EXCEPT !.failed = 0, !.locked = req[r].at + LockFor]
                ELSE [row EXCEPT !.failed = n])
    /\ wrong' = [wrong EXCEPT ![t] = @ + 1]
    /\ End(r)

LoginFails(r) ==
    LET row == req[r].row  t == req[r].target  n == row.failed + 1 IN
    /\ Pending(r, "failure")
    /\ Write(r, [row EXCEPT !.failed = n,
                   !.locked = IF n >= MaxFailed THEN req[r].at + LockFor ELSE @])
    /\ wrong' = [wrong EXCEPT ![t] = @ + 1]
    /\ End(r)

\* A good password, or the change to a new one, clears counter and lock.
Clear(r) ==
    /\ Pending(r, "success") \/ Pending(r, "password")
    /\ Write(r, [req[r].row EXCEPT !.failed = 0, !.locked = 0])
    /\ wrong' = [wrong EXCEPT ![req[r].target] = 0]
    /\ End(r)

ChangePassword(r, u) == SignedIn(u) /\ Read(r, "password", u, u, {})

\* Nobody deactivates himself; nothing keeps him from giving up his role.
AskUpdate(r, a, t, q) ==
    /\ a \in ActiveAdmins /\ user[t].live
    /\ "deactivate" \in q => t # a
    /\ Read(r, "update", a, t, q)

\* The role and the activity a body asks for.
Renewed(row, q) ==
    [row EXCEPT !.role = IF "promote" \in q THEN "ADMIN"
                         ELSE IF "demote" \in q THEN "VIEWER" ELSE @,
                !.active = (@ \/ "activate" \in q) /\ "deactivate" \notin q]

UpdateUser(r) ==
    LET q == req[r].body  row == req[r].row IN
    /\ Pending(r, "update")
    /\ Write(r, [Renewed(row, q) EXCEPT
                   !.failed = IF "unlock" \in q THEN 0 ELSE @,
                   !.locked = IF "unlock" \in q THEN 0 ELSE @])
    /\ wrong' = [wrong EXCEPT ![req[r].target] =
                    IF "unlock" \in q THEN 0 ELSE @]
    /\ End(r)

\* The checks of delete_user, on what is committed now.
AskDelete(r, a, t) ==
    /\ a \in ActiveAdmins /\ user[t].live
    /\ t # a
    /\ t \in ActiveAdmins => Cardinality(ActiveAdmins) > 1
    /\ Read(r, "delete", a, t, {})

\* Fault: the audit row does not name the user who deletes.
DeleteUser_NoActor(r) ==
    LET t == req[r].target IN
    /\ Pending(r, "delete")
    /\ user' = [user EXCEPT ![t].live = @ /\ t \in Referenced]
    /\ UNCHANGED wrong
    /\ End(r)

\* References are set to null, the row is deleted, the audit row is written:
\* rolled back (409, 500) when a reference is left or the actor is gone.
DeleteUser(r) ==
    LET t == req[r].target IN
    /\ Pending(r, "delete")
    /\ user' = [user EXCEPT ![t].live =
                   @ /\ (t \in Referenced \/ ~user[req[r].actor].live)]
    /\ UNCHANGED wrong
    /\ End(r)

Tick == /\ now < setting.until
        /\ now' = now + 1
        /\ UNCHANGED <<user, wrong, req, setting>>

-----------------------------------------------------------------------------
AccountsNext ==
    \/ \E r \in Requests, u \in Users :
         \/ \E good \in BOOLEAN : Login(r, u, good)
         \/ ChangePassword(r, u)
         \/ \E t \in Users : AskDelete(r, u, t)
         \/ \E t \in Users, q \in setting.updates : AskUpdate(r, u, t, q)
    \/ \E r \in Requests :
         LoginFails(r) \/ Clear(r) \/ UpdateUser(r) \/ DeleteUser(r)
    \/ Tick

AccountsSpec == AccountsInit /\ [][AccountsNext]_accountVars

-----------------------------------------------------------------------------
(* Properties.                                                             *)

AccountsTypeOK ==
    /\ user \in [Users -> Account]
    /\ wrong \in [Users -> Nat]
    /\ \A r \in Requests : Idle(r) \/ req[r].row \in Account
    /\ now \in Nat /\ setting \in Setting

OneByOne == setting.inFlight = 1

\* Nobody is demoted or deactivated.
NobodyLeaves ==
    \A q \in setting.updates : {"demote", "deactivate"} \cap q = {}

\* Although its count is as old as its check, a delete never takes the last
\* active administrator (delete_user: 'cannot delete last active admin'), unless
\* another request takes that role or account away meanwhile.
DeleteKeepsAdmin ==
    [][(/\ OneByOne \/ NobodyLeaves
        /\ \E u \in Users : user[u].live /\ ~user'[u].live)
            => ActiveAdmins' # {}]_accountVars

\* Requests one by one: the counter is the number of wrong passwords since it was
\* cleared, and an account is locked by just as many as the policy allows.
LockIsEarned ==
    OneByOne /\ (\A r \in Requests : Idle(r)) =>
        \A u \in Users : user[u].live =>
            /\ user[u].failed = wrong[u]
            /\ user[u].locked > 0 <=> wrong[u] >= MaxFailed
=============================================================================
