------------------------------ MODULE Restore ------------------------------
(***************************************************************************)
(* Restores of a backup set. A database restore loads a dump into a target *)
(* database and may then promote the target to be the active one; it runs  *)
(* psql and pg_restore, whose commands commit one by one. An objects       *)
(* restore stages every member of the archive under a prefix of its own,   *)
(* copies the staged objects to their names, and with replace_existing     *)
(* removes everything else in the bucket. Nothing keeps requests apart.    *)
(*   db        what each database holds: a dump, "partial" or "gone"       *)
(*   stored    objects under their own names                               *)
(*   staged    objects under the staging prefix of a request               *)
(*   uploaded  attachments uploaded so far beside the restores             *)
(*   req       the restore requests                                        *)
(*   bounds    whether requests overlap, and what may still happen         *)
(***************************************************************************)
EXTENDS Naturals, FiniteSets

CONSTANTS
    Requests, Objects, Targets,
    Archive,         \* for each dump, the files in its set's objects archive
    Active,          \* the database the application is configured with
    Live,            \* its content before any restore
    FirstObjects,    \* objects in the bucket at the start
    Uploads,         \* files that may be uploaded meanwhile
    RestoreSettings         \* together: requests overlap; shared: in one target too;
                     \* and bounds on restores of databases and of objects,
                     \* and on failures and deaths

Dumps == DOMAIN Archive
Whole == Dumps \cup {Live}
RestoreSetting == [together: BOOLEAN, shared: BOOLEAN, databases: Nat,
            buckets: Nat, fails: Nat]

ASSUME NamesAssumption == Active \in Targets
ASSUME ContentsAssumption ==
    Live \notin Dumps /\ Whole \cap {"gone", "partial"} = {}
ASSUME ObjectsAssumption ==
    /\ FirstObjects \subseteq Objects /\ Uploads \subseteq Objects
    /\ \A d \in Dumps : Archive[d] \subseteq Objects \ Uploads
ASSUME RestoreSettingsAssumption == RestoreSettings \subseteq RestoreSetting

VARIABLES db, stored, staged, uploaded, req, bounds

bucket == <<stored, staged, uploaded>>
restoreVars == <<db, bucket, req, bounds>>

\* cut: its connection was terminated; mixed: another loaded at the same time.
\* todo: members, staged objects or listed objects that are still to be done;
\* others: the listed objects under other prefixes.
Unused == [pc |-> "unused", dump |-> Live, target |-> Active, promote |-> FALSE,
           cut |-> FALSE, mixed |-> FALSE,
           replace |-> FALSE, keys |-> {}, todo |-> {}, others |-> {}]

RestoreInit ==
    /\ db = [t \in Targets |-> IF t = Active THEN Live ELSE "gone"]
    /\ stored = FirstObjects
    /\ staged = {}
    /\ uploaded = {}
    /\ req = [r \in Requests |-> Unused]
    /\ bounds \in RestoreSettings

-----------------------------------------------------------------------------
ReqAt(r, pc) == req[r].pc = pc
Ended == {"unused", "done", "failed", "dead"}
UnderWay(r) == req[r].pc \notin Ended
SetReq(r, q) == req' = [req EXCEPT ![r] = q]
Go(r, pc) == SetReq(r, [req[r] EXCEPT !.pc = pc])

\* One of the events of a kind that the setting allows.
Use(kind) ==
    /\ bounds[kind] > 0
    /\ bounds' = [bounds EXCEPT ![kind] = @ - 1]

\* A request needs the active database to sign its user in.
Free(r) ==
    /\ ReqAt(r, "unused")
    /\ db[Active] # "gone"
    /\ bounds.together \/ \A o \in Requests : ~UnderWay(o)

-----------------------------------------------------------------------------
(* Databases.                                                              *)

\* Connected loads of other requests into a set of databases.
Loading(r, ts) ==
    {o \in Requests \ {r} :
        ReqAt(o, "load") /\ req[o].target \in ts /\ ~req[o].cut}

\* pg_terminate_backend on some databases; r itself goes on at pc.
Terminate(r, ts, pc) ==
    req' = [o \in Requests |->
        IF o = r THEN [req[r] EXCEPT !.pc = pc]
        ELSE [req[o] EXCEPT !.cut = @ \/ o \in Loading(r, ts)]]

Allowed(t) == t # Active

AskDatabase(r, d, t, promote) ==
    /\ Free(r)
    /\ Allowed(t)
    /\ bounds.shared \/ \A o \in Requests : UnderWay(o) => req[o].target # t
    /\ Use("databases")
    /\ SetReq(r, [Unused EXCEPT !.pc = "prepare", !.dump = d, !.target = t,
                             !.promote = promote])
    /\ UNCHANGED <<db, bucket>>

\* Terminate, drop and create the target.
Prepare(r) ==
    LET t == req[r].target IN
    /\ ReqAt(r, "prepare")
    /\ db' = [db EXCEPT ![t] = "partial"]
    /\ Terminate(r, {t}, "connect")
    /\ UNCHANGED <<bucket, bounds>>

\* psql stops at the command that fails: the target is untouched or dropped.
PrepareFails(r) ==
    LET t == req[r].target IN
    /\ ReqAt(r, "prepare")
    /\ Use("fails")
    /\ \E left \in {db[t], "gone"} : db' = [db EXCEPT ![t] = left]
    /\ Terminate(r, {t}, "failed")
    /\ UNCHANGED bucket

\* pg_restore connects: a database is not whole while it is being loaded.
Connect(r) ==
    LET t == req[r].target
        others == Loading(r, {t})
    IN  /\ ReqAt(r, "connect")
        /\ db[t] # "gone"
        /\ db' = [db EXCEPT ![t] = "partial"]
        /\ req' = [o \in Requests |->
               IF o = r
               THEN [req[r] EXCEPT !.pc = "load", !.mixed = others # {}]
               ELSE [req[o] EXCEPT !.mixed = @ \/ o \in others]]
        /\ UNCHANGED <<bucket, bounds>>

\* Another request has dropped the target.
ConnectFails(r) ==
    /\ ReqAt(r, "connect")
    /\ db[req[r].target] = "gone"
    /\ Go(r, "cleanup")
    /\ UNCHANGED <<db, bucket, bounds>>

Loaded(r) ==
    LET t == req[r].target IN
    /\ ReqAt(r, "load") /\ ~req[r].cut
    /\ db' = [db EXCEPT ![t] = IF req[r].mixed THEN "partial" ELSE req[r].dump]
    /\ Go(r, IF req[r].promote THEN "drop" ELSE "done")
    /\ UNCHANGED <<bucket, bounds>>

\* Fault: an error of pg_restore does not stop the request.
LoadFails_Ignored(r) ==
    /\ ReqAt(r, "load")
    /\ \/ req[r].cut /\ UNCHANGED bounds
       \/ Use("fails")
    /\ Go(r, IF req[r].promote THEN "drop" ELSE "done")
    /\ UNCHANGED <<db, bucket>>

LoadFails(r) ==
    /\ ReqAt(r, "load")
    /\ \/ req[r].cut /\ UNCHANGED bounds
       \/ Use("fails")
    /\ Go(r, "cleanup")
    /\ UNCHANGED <<db, bucket>>

\* After a failed load the target is dropped, if that succeeds.
Cleanup(r) ==
    LET t == req[r].target IN
    /\ ReqAt(r, "cleanup")
    /\ \/ db' = [db EXCEPT ![t] = "gone"] /\ UNCHANGED bounds
       \/ Use("fails") /\ UNCHANGED db
    /\ Terminate(r, {t}, "failed")
    /\ UNCHANGED bucket

\* Promotion: terminate the connections of both databases, drop the active one.
DropActive(r) ==
    /\ ReqAt(r, "drop")
    /\ db' = [db EXCEPT ![Active] = "gone"]
    /\ Terminate(r, {Active, req[r].target}, "rename")
    /\ UNCHANGED <<bucket, bounds>>

\* The application reconnects before the drop, which is refused.
DropRefused(r) ==
    /\ ReqAt(r, "drop")
    /\ Use("fails")
    /\ Terminate(r, {Active, req[r].target}, "failed")
    /\ UNCHANGED <<db, bucket>>

\* The rename fails when the source has gone or is in use, or a name is taken.
Rename(r) ==
    LET t == req[r].target
        can == db[t] # "gone" /\ db[Active] = "gone" /\ Loading(r, {t}) = {}
    IN  /\ ReqAt(r, "rename")
        /\ \/ can /\ db' = [db EXCEPT ![Active] = db[t], ![t] = "gone"]
                  /\ Go(r, "done")
           \/ ~can /\ UNCHANGED db /\ Go(r, "failed")
        /\ UNCHANGED <<bucket, bounds>>

-----------------------------------------------------------------------------
(* Objects.                                                                *)

Object(r, f) == [by |-> r, name |-> f]
Own(r) == {s \in staged : s.by = r}

\* A listing that is under way comes to the new object or does not.
Upload(f) ==
    /\ f \in Uploads \ uploaded
    /\ uploaded' = uploaded \cup {f}
    /\ stored' = stored \cup {f}
    /\ \E seen \in BOOLEAN :
         req' = [r \in Requests |->
             IF seen /\ ReqAt(r, "remove") THEN [req[r] EXCEPT !.todo = @ \cup {f}]
             ELSE req[r]]
    /\ UNCHANGED <<db, staged, bounds>>

AskObjects(r, d, replace) ==
    /\ Free(r)
    /\ Use("buckets")
    /\ SetReq(r, [Unused EXCEPT !.pc = "stage", !.dump = d, !.replace = replace,
                             !.todo = Archive[d]])
    /\ UNCHANGED <<db, bucket>>

Stage(r, f) ==
    /\ ReqAt(r, "stage") /\ f \in req[r].todo
    /\ staged' = staged \cup {Object(r, f)}
    /\ SetReq(r, [req[r] EXCEPT !.todo = @ \ {f}, !.keys = @ \cup {f}])
    /\ UNCHANGED <<db, stored, uploaded, bounds>>

\* What the last step of one phase sets up for the next.
Staged(r) ==
    /\ ReqAt(r, "stage") /\ req[r].todo = {}
    /\ SetReq(r, [req[r] EXCEPT !.pc = "copy", !.todo = req[r].keys])
    /\ UNCHANGED <<db, bucket, bounds>>

\* A staged object that has gone makes the copy fail.
CopyObject(r, f) ==
    /\ ReqAt(r, "copy") /\ f \in req[r].todo
    /\ Object(r, f) \in staged
    /\ stored' = stored \cup {f}
    /\ SetReq(r, [req[r] EXCEPT !.todo = @ \ {f}])
    /\ UNCHANGED <<db, staged, uploaded, bounds>>

\* The removal lists the bucket: every object outside its own prefix.
NextPhase(r) ==
    IF req[r].replace
    THEN [req[r] EXCEPT !.pc = "remove", !.todo = stored,
                        !.others = staged \ Own(r)]
    ELSE [req[r] EXCEPT !.pc = "clean", !.todo = {}]

\* Fault: the removal does not wait for the copies.
Copied_Early(r) ==
    /\ ReqAt(r, "copy")
    /\ SetReq(r, NextPhase(r))
    /\ UNCHANGED <<db, bucket, bounds>>

Copied(r) ==
    /\ ReqAt(r, "copy") /\ req[r].todo = {}
    /\ SetReq(r, NextPhase(r))
    /\ UNCHANGED <<db, bucket, bounds>>

RemoveOne(r, f) ==
    /\ ReqAt(r, "remove") /\ f \in req[r].todo
    /\ stored' = IF f \in req[r].keys THEN stored ELSE stored \ {f}
    /\ SetReq(r, [req[r] EXCEPT !.todo = @ \ {f}])
    /\ UNCHANGED <<db, staged, uploaded, bounds>>

\* Fault: everything under a staging prefix is passed over.
RemoveStaged_AllPrefixes(r, s) ==
    /\ ReqAt(r, "remove") /\ s \in req[r].others
    /\ SetReq(r, [req[r] EXCEPT !.others = @ \ {s}])
    /\ UNCHANGED <<db, bucket, bounds>>

\* The staged objects of another request are not in the archive either.
RemoveStaged(r, s) ==
    /\ ReqAt(r, "remove") /\ s \in req[r].others
    /\ staged' = staged \ {s}
    /\ SetReq(r, [req[r] EXCEPT !.others = @ \ {s}])
    /\ UNCHANGED <<db, stored, uploaded, bounds>>

Removed(r) ==
    /\ ReqAt(r, "remove") /\ req[r].todo = {} /\ req[r].others = {}
    /\ Go(r, "clean")
    /\ UNCHANGED <<db, bucket, bounds>>

\* The finally block: the prefix is removed and the request answers.
Finish(r) ==
    /\ ReqAt(r, "clean")
    /\ staged' = staged \ Own(r)
    /\ Go(r, "done")
    /\ UNCHANGED <<db, stored, uploaded, bounds>>

\* A call raises; the prefix is removed all the same.
RequestRaises(r) ==
    /\ req[r].pc \in {"stage", "copy", "remove"}
    /\ \/ /\ ReqAt(r, "copy") /\ \E f \in req[r].todo : Object(r, f) \notin staged
          /\ UNCHANGED bounds
       \/ Use("fails")
    /\ staged' = staged \ Own(r)
    /\ Go(r, "failed")
    /\ UNCHANGED <<db, stored, uploaded>>

\* The API process dies with the commands it runs.
RequestDies(r) ==
    /\ UnderWay(r)
    /\ Use("fails")
    /\ Go(r, "dead")
    /\ UNCHANGED <<db, bucket>>

-----------------------------------------------------------------------------
RestoreNext ==
    \/ \E r \in Requests :
         \/ \E d \in Dumps, t \in Targets, promote \in BOOLEAN :
              AskDatabase(r, d, t, promote)
         \/ Prepare(r) \/ PrepareFails(r) \/ Connect(r) \/ ConnectFails(r)
         \/ Loaded(r) \/ LoadFails(r) \/ Cleanup(r)
         \/ DropActive(r) \/ DropRefused(r) \/ Rename(r)
         \/ \E d \in Dumps, replace \in BOOLEAN : AskObjects(r, d, replace)
         \/ \E f \in Objects : Stage(r, f) \/ CopyObject(r, f) \/ RemoveOne(r, f)
         \/ \E s \in staged : RemoveStaged(r, s)
         \/ Staged(r) \/ Copied(r) \/ Removed(r) \/ Finish(r) \/ RequestRaises(r)
         \/ RequestDies(r)
    \/ \E f \in Objects : Upload(f)

RestoreSpec == RestoreInit /\ [][RestoreNext]_restoreVars

-----------------------------------------------------------------------------
(* Properties.                                                             *)

RestoreTypeOK ==
    /\ db \in [Targets -> Whole \cup {"gone", "partial"}]
    /\ stored \subseteq Objects
    /\ staged \subseteq [by: Requests, name: Objects]
    /\ uploaded \subseteq Uploads
    /\ bounds \in RestoreSetting
    /\ DOMAIN req = Requests
    /\ \A r \in Requests :
         /\ ~ReqAt(r, "unused") => req[r].dump \in Dumps
         /\ req[r].target \in Targets /\ req[r].keys \subseteq Objects
         /\ ~UnderWay(r) /\ ~ReqAt(r, "dead") => Own(r) = {}

Answered(r) ==
    LET archive == Archive[req[r].dump]
    IN  /\ archive \subseteq stored'
        /\ req[r].replace =>
             stored' \subseteq archive \cup uploaded /\ staged' = {}

\* An objects restore is exact or has cost nothing. One that answers ok leaves
\* every object of its archive in the bucket, and with replace_existing nothing
\* else but uploads made meanwhile, neither objects nor the staged ones of an
\* attempt that died; and no object goes before the whole archive is there.
RestoredIsArchive ==
    [][/\ \A r \in Requests : Finish(r) => Answered(r)
       /\ \A f \in stored \ stored' :
            \E r \in Requests :
              ReqAt(r, "remove") /\ Archive[req[r].dump] \subseteq stored']_restoreVars

\* A set is restored by two requests, its dump with promotion and its archive,
\* in either order or at once: when both have ended well, and no other was made,
\* the application's database is the dump and the bucket has all its objects.
SetRestored ==
    \A r, o \in Requests :
        (/\ r # o /\ ReqAt(r, "done") /\ ReqAt(o, "done")
         /\ req[r].promote /\ req[o].keys # {} /\ req[r].dump = req[o].dump
         /\ \A q \in Requests \ {r, o} : ReqAt(q, "unused"))
          => /\ db[Active] = req[r].dump
             /\ Archive[req[o].dump] \subseteq stored

\* With restores one after the other, or at once into different targets: the
\* application never runs on a database that is only partly loaded; at every
\* moment some database is whole, so that a restore that fails or dies between
\* dropping and renaming can be finished by hand; and a set is back when both of
\* its halves are.
RestoreWhole ==
    ~bounds.shared =>
        /\ db[Active] # "partial"
        /\ \E t \in Targets : db[t] \in Whole
        /\ SetRestored
=============================================================================
