----------------------- MODULE ArchiveWorkspaceProofs -----------------------
(***************************************************************************)
(* What holds of the archive page for every set of documents and filters,   *)
(* every number of calls under way and whatever the user, the server and    *)
(* others do: that the list, the history and the detail on the screen are   *)
(* those that were asked for last, that the list shows what the page has    *)
(* done, and that what is chosen for a bulk action is listed.               *)
(***************************************************************************)
EXTENDS ArchiveWorkspace, FiniteSetTheorems, TLAPS

-----------------------------------------------------------------------------
(* Type correctness. A call is NoCall or a record whose argument and answer  *)
(* go with its kind; one that is not back has no answer, and a bulk call is  *)
(* back when all of its documents are settled.                               *)

Fresh(op, arg) == [op |-> op, arg |-> arg, live |-> TRUE, back |-> FALSE, out |-> Failure]

OfOne == {"detail", "save", "files", "resolve", "reload"}
ModalOps == {"save", "files", "resolve", "reload", "delete"}
BulkOps == {"bulkDelete", "bulkReview", "deleteKey"}

BulkArgument ==
    [targets : SUBSET Docs, todo : SUBSET Docs, failed : SUBSET Docs,
     rev : [Docs -> Nat], selected : Docs \cup {NoDoc}]

IsCall(c) ==
    /\ c \in [op : {c.op}, arg : {c.arg}, live : BOOLEAN, back : BOOLEAN, out : {c.out}]
    /\ c.op # "none"
    /\ c.out = Failure \/ c.out = Success(c.out.body)
    /\ ~c.back => c.out = Failure

Typed(c) ==
    /\ c.op = "list" =>
         /\ c.arg \in Views
         /\ c.out.ok => c.out.body.items \subseteq Item /\ c.out.body.total \in Nat
    /\ c.op \in OfOne =>
         /\ c.arg \in Docs
         /\ c.out.ok => c.out.body \in Item /\ c.out.body.id = c.arg
    /\ c.op = "snapshot" =>
         /\ c.arg \in [id : Docs, number : Nat]
         /\ c.out.ok => c.out.body = c.arg
    /\ c.op \in {"history", "delete", "deleteKey"} => c.arg \in Docs
    /\ Many(c.op) =>
         /\ c.arg \in BulkArgument /\ c.arg.todo \cup c.arg.failed \subseteq c.arg.targets
         /\ c.back => c.arg.todo = {}

Panel == [open : BOOLEAN, detail : Item \cup {NoDetail}, loading : BOOLEAN,
          error : BOOLEAN, editing : BOOLEAN, dirty : BOOLEAN, busy : BOOLEAN]

\* The calls under way, of the page and at the steps of an update.
Calls(n) ==
    /\ n = [i \in Slots |-> n[i]]
    /\ \A i \in Slots : n[i] = NoCall \/ IsCall(n[i])

CallsOK ==
    /\ Calls(net)
    /\ \A i \in Slots : net[i].op # "none" => Typed(net[i])

StateOK ==
    /\ server \in [Docs -> [live : BOOLEAN, rev : Nat]]
    /\ view \in Views
    /\ list \in [items : SUBSET Item, total : Nat, loading : BOOLEAN, error : BOOLEAN,
                 of : Views]
    /\ selected \in Docs \cup {NoDoc}
    /\ panel \in Panel
    /\ history \in [of : Docs \cup {NoDoc}, loading : BOOLEAN]
    /\ snapshot \in [wanted : Nat, of : Docs \cup {NoDoc}, number : Nat, loading : BOOLEAN]
    /\ bulk \in [chosen : SUBSET Docs, busy : BOOLEAN]
    /\ own \in [Docs -> [rev : Nat, gone : BOOLEAN]]
    /\ left \in Setting

TypeInv == CallsOK /\ StateOK

-----------------------------------------------------------------------------
(* The inductive invariants.                                               *)

\* A live call of an effect is the last one the effect sent: it is of the view,
\* the selection and the detail there are now. There is one live list call, while
\* the list is loading.
LiveAreOf(n, op, arg) == \A i \in Slots : n[i].op = op /\ n[i].live => n[i].arg = arg

ListIsCurrent ==
    \A i \in Slots : net[i].op = "list" /\ net[i].live =>
        /\ net[i].arg = view /\ list.loading
        /\ \A j \in Slots : net[j].op = "list" /\ net[j].live => j = i

Current ==
    /\ ListIsCurrent
    /\ LiveAreOf(net, "detail", selected)
    /\ LiveAreOf(net, "history", panel.detail.id)

ListIsOfView == ~list.loading => list.of = view

HistoryIsOfDetail ==
    ~history.loading /\ panel.detail # NoDetail => history.of \in {NoDoc, panel.detail.id}

\* What the page says it has done, the server has; so do the answers under way,
\* and a list under way that will be shown was read after it.
OwnIsTrue ==
    \A d \in Docs : own[d].rev <= server[d].rev /\ (own[d].gone => ~server[d].live)

Shows(items) == \A x \in items : ~own[x.id].gone /\ x.rev >= own[x.id].rev

Honest(c) ==
    /\ c.op = "list" /\ c.live /\ c.out.ok => Shows(c.out.body.items)
    /\ c.op \in OfOne /\ c.out.ok => c.out.body.rev <= server[c.arg].rev
    /\ c.op \in Removing /\ c.out.ok => ~server[c.arg].live
    /\ Many(c.op) =>
         \A d \in (c.arg.targets \ c.arg.failed) \ c.arg.todo :
            IF c.op = "bulkDelete" THEN ~server[d].live ELSE c.arg.rev[d] <= server[d].rev

AnswersAreTrue == \A i \in Slots : Honest(net[i])

\* One handler of the modal at a time, as its busy flag says.
OneHandler ==
    \A i \in Slots : net[i].op \in ModalOps =>
        /\ panel.busy
        /\ \A j \in Slots : net[j].op \in ModalOps => j = i

\* With a patient user: one handler of the list at a time, never beside the modal,
\* on a list that stays; one snapshot at a time, of the document selected.
PatientList ==
    /\ panel.busy => panel.open
    /\ bulk.busy => ~panel.open /\ ~list.loading
    /\ \A i \in Slots : net[i].op \in BulkOps =>
         /\ bulk.busy
         /\ \A j \in Slots : net[j].op \in BulkOps => j = i
         /\ Many(net[i].op) => net[i].arg.targets \subseteq Ids(list.items)
    /\ ~list.loading => bulk.chosen \subseteq Ids(list.items)

PatientDetail ==
    /\ \A i \in Slots : net[i].op = "snapshot" =>
         /\ snapshot.loading
         /\ \A j \in Slots : net[j].op = "snapshot" => j = i
    /\ selected # NoDoc =>
         /\ \A i \in Slots : net[i].op \in ModalOps => net[i].arg = selected
         /\ \A i \in Slots : net[i].op = "snapshot" => net[i].arg.id = selected
         /\ ~panel.loading /\ panel.detail # NoDetail =>
              panel.detail.id = selected /\ snapshot.of \in {NoDoc, selected}

Asked == Current /\ ListIsOfView /\ HistoryIsOfDetail
Told == OwnIsTrue /\ AnswersAreTrue /\ OwnChangesShown
Patient == left.patient => PatientList /\ PatientDetail

Inv == TypeInv /\ Asked /\ Told /\ OneHandler /\ Patient

-----------------------------------------------------------------------------
(* The calls after a step: each is gone, what it was, or a new one, and may   *)
(* have been cancelled.                                                       *)

Cancelled(c) == [c EXCEPT !.live = FALSE]

Only(n, m, new) ==
    /\ Calls(m)
    /\ \A c \in new : IsCall(c)
    /\ \A i \in Slots : \E c \in {NoCall, n[i]} \cup new : m[i] = c \/ m[i] = Cancelled(c)

\* The live calls of an effect: none, or one that is new.
NoLive(m, op) == \A i \in Slots : m[i].op = op => ~m[i].live
OneLive(m, c) ==
    \E j \in Slots : m[j] = c /\ \A i \in Slots : m[i].op = c.op /\ m[i].live => i = j

\* The calls of every other kind are what they were.
SameBut(n, m, op) ==
    \A i \in Slots :
        m[i].op \notin {op, "none"} \/ n[i].op \notin {op, "none"} => m[i] = n[i]

LEMMA NoCallIs == NoCall.op = "none" /\ Cancelled(NoCall) = NoCall /\ ~IsCall(NoCall)
  BY DEF NoCall, Cancelled, IsCall

LEMMA FreshIs ==
  ASSUME NEW op, op # "none", NEW arg
  PROVE  /\ IsCall(Fresh(op, arg))
         /\ Fresh(op, arg).op = op /\ Fresh(op, arg).arg = arg /\ Fresh(op, arg).live
         /\ ~Fresh(op, arg).back /\ Fresh(op, arg).out = Failure
  BY DEF Fresh, IsCall, Failure

LEMMA CancelledIs ==
  ASSUME NEW c, IsCall(c)
  PROVE  /\ IsCall(Cancelled(c))
         /\ Cancelled(c).op = c.op /\ Cancelled(c).arg = c.arg /\ ~Cancelled(c).live
         /\ Cancelled(c).back = c.back /\ Cancelled(c).out = c.out
         /\ Cancelled(Cancelled(c)) = Cancelled(c)
  BY DEF Cancelled, IsCall

\* A call of a kind that is not among the new ones was there before.
LEMMA OldCall ==
  ASSUME NEW n, NEW m, NEW new, Calls(n), Only(n, m, new),
         NEW i \in Slots, m[i].op # "none", \A c \in new : c.op # m[i].op
  PROVE  /\ IsCall(n[i]) /\ IsCall(m[i])
         /\ m[i].op = n[i].op /\ m[i].arg = n[i].arg
         /\ m[i].back = n[i].back /\ m[i].out = n[i].out
         /\ m[i].live => m[i] = n[i]
  <1>1. PICK c \in {NoCall, n[i]} \cup new : m[i] = c \/ m[i] = Cancelled(c)
    BY DEF Only
  <1>2. c # NoCall
    BY <1>1, NoCallIs
  <1>3. c \notin new
    BY <1>1, CancelledIs DEF Only
  <1>4. c = n[i] /\ IsCall(c)
    BY <1>1, <1>2, <1>3 DEF Calls
  <1> QED BY <1>1, <1>4, CancelledIs

\* A call after a step is an old one or a new one.
LEMMA OldOrNew ==
  ASSUME NEW n, NEW m, NEW new, Calls(n), Only(n, m, new),
         NEW i \in Slots, m[i].op # "none"
  PROVE  \E c \in {n[i]} \cup new :
            /\ IsCall(c) /\ IsCall(m[i])
            /\ m[i].op = c.op /\ m[i].arg = c.arg
            /\ m[i].back = c.back /\ m[i].out = c.out
            /\ m[i].live => m[i] = c
  <1>1. PICK c \in {NoCall, n[i]} \cup new : m[i] = c \/ m[i] = Cancelled(c)
    BY DEF Only
  <1>2. c # NoCall
    BY <1>1, NoCallIs
  <1>3. IsCall(c)
    BY <1>2 DEF Only, Calls
  <1> QED BY <1>1, <1>2, <1>3, CancelledIs

LEMMA OnlyTrans ==
  ASSUME NEW n, NEW m, NEW k, NEW F, NEW G, Calls(n), Only(n, m, F), Only(m, k, G)
  PROVE  Only(n, k, F \cup G)
  <1> SUFFICES ASSUME NEW i \in Slots
               PROVE  \E c \in {NoCall, n[i]} \cup (F \cup G) : k[i] = c \/ k[i] = Cancelled(c)
    BY DEF Only
  <1>1. PICK c \in {NoCall, m[i]} \cup G : k[i] = c \/ k[i] = Cancelled(c)
    BY DEF Only
  <1>2. PICK d \in {NoCall, n[i]} \cup F : m[i] = d \/ m[i] = Cancelled(d)
    BY DEF Only
  <1>3. d = NoCall \/ IsCall(d)
    BY DEF Only, Calls
  <1>4. CASE c = m[i]
    BY <1>1, <1>2, <1>3, <1>4, CancelledIs, NoCallIs
  <1>5. CASE c # m[i]
    BY <1>1, <1>5
  <1> QED BY <1>4, <1>5

LEMMA OnlySelf ==
  ASSUME NEW n, Calls(n) PROVE Only(n, n, {})
  BY DEF Only

-----------------------------------------------------------------------------
(* What the operators on calls do.                                         *)

LEMMA Room ==
  ASSUME NEW n, HasRoom(n, 1) \/ HasRoom(n, 2)
  PROVE  FreeSlots(n) # {}
  <1>1. Cardinality({}) = 0
    BY FS_EmptySet
  <1> QED BY <1>1 DEF HasRoom

LEMMA RoomForMore ==
  ASSUME NEW n, HasRoom(n, 2), NEW j \in FreeSlots(n)
  PROVE  FreeSlots(n) \ {j} # {}
  <1>1. IsFiniteSet(Slots)
    BY MaxCallsAssumption, FS_Interval DEF Slots
  <1>2. IsFiniteSet(FreeSlots(n))
    BY <1>1, FS_Subset DEF FreeSlots
  <1>3. Cardinality(FreeSlots(n) \ {j}) = Cardinality(FreeSlots(n)) - 1
    BY <1>2, FS_RemoveElement
  <1>4. Cardinality({}) = 0 /\ Cardinality(FreeSlots(n)) \in Nat
    BY <1>2, FS_EmptySet, FS_CardinalityType
  <1> QED BY <1>3, <1>4 DEF HasRoom

\* A call has taken a free slot, and that is all.
Sent(n, m, c) ==
    \E j \in FreeSlots(n) : m[j] = c /\ \A i \in Slots \ {j} : m[i] = n[i]

LEMMA SendDoes ==
  ASSUME NEW n, Calls(n), FreeSlots(n) # {}, NEW op, op # "none", NEW arg
  PROVE  /\ Only(n, Send(n, op, arg), {Fresh(op, arg)})
         /\ Sent(n, Send(n, op, arg), Fresh(op, arg))
  <1> DEFINE j == CHOOSE k \in FreeSlots(n) : TRUE
             m == [n EXCEPT ![j] = Fresh(op, arg)]
  <1>1. j \in FreeSlots(n) /\ j \in Slots
    BY DEF FreeSlots
  <1>2. Send(n, op, arg) = m
    BY DEF Send, Fresh
  <1> HIDE DEF j
  <1>3. /\ m[j] = Fresh(op, arg) /\ m = [i \in Slots |-> m[i]]
        /\ \A i \in Slots \ {j} : m[i] = n[i]
    BY <1>1 DEF Calls
  <1> HIDE DEF m
  <1>4. IsCall(Fresh(op, arg))
    BY FreshIs
  <1>5. Calls(m)
    BY <1>3, <1>4 DEF Calls
  <1>6. Only(n, m, {Fresh(op, arg)})
    BY <1>3, <1>4, <1>5 DEF Only
  <1>7. Sent(n, m, Fresh(op, arg))
    BY <1>1, <1>3 DEF Sent
  <1> QED BY <1>2, <1>6, <1>7

LEMMA CancelDoes ==
  ASSUME NEW n, Calls(n), NEW op, op # "none"
  PROVE  /\ Only(n, Cancel(n, op), {})
         /\ NoLive(Cancel(n, op), op)
         /\ \A i \in Slots : n[i].op # op => Cancel(n, op)[i] = n[i]
         /\ \A i \in Slots : Cancel(n, op)[i].op = n[i].op
         /\ FreeSlots(Cancel(n, op)) = FreeSlots(n)
  <1> DEFINE m == Cancel(n, op)
  <1>1. /\ m = [i \in Slots |-> m[i]]
        /\ \A i \in Slots : m[i] = IF n[i].op = op THEN Cancelled(n[i]) ELSE n[i]
    BY DEF Cancel, Cancelled
  <1>2. \A i \in Slots : n[i].op = op => IsCall(n[i])
    BY NoCallIs DEF Calls
  <1> HIDE DEF m
  <1>3. Calls(m)
    BY <1>1, <1>2, CancelledIs DEF Calls
  <1>4. Only(n, m, {})
    BY <1>1, <1>3 DEF Only
  <1>5. /\ \A i \in Slots : n[i].op # op => m[i] = n[i]
        /\ \A i \in Slots : m[i].op = n[i].op
    BY <1>1, <1>2, CancelledIs
  <1>6. NoLive(m, op)
    BY <1>1, <1>2, <1>5, CancelledIs DEF NoLive
  <1>7. FreeSlots(m) = FreeSlots(n)
    BY <1>5 DEF FreeSlots
  <1> QED BY <1>4, <1>5, <1>6, <1>7 DEF m

LEMMA SettleDoes ==
  ASSUME NEW n, Calls(n), NEW i \in Slots
  PROVE  /\ Only(n, Settle(n, i), {})
         /\ Settle(n, i)[i] = NoCall
         /\ \A j \in Slots \ {i} : Settle(n, i)[j] = n[j]
         /\ FreeSlots(Settle(n, i)) # {}
  <1> DEFINE m == Settle(n, i)
  <1>1. /\ m = [j \in Slots |-> m[j]] /\ m[i] = NoCall
        /\ \A j \in Slots \ {i} : m[j] = n[j]
    BY DEF Calls, Settle
  <1> HIDE DEF m
  <1>2. Only(n, m, {}) /\ i \in FreeSlots(m)
    BY <1>1, NoCallIs DEF Only, Calls, FreeSlots
  <1> QED BY <1>1, <1>2 DEF m

\* An effect that is run again has one live call, the new one.
LEMMA RerunDoes ==
  ASSUME NEW n, Calls(n), FreeSlots(n) # {}, NEW op, op # "none", NEW arg
  PROVE  /\ Only(n, Rerun(n, op, arg), {Fresh(op, arg)})
         /\ OneLive(Rerun(n, op, arg), Fresh(op, arg))
         /\ SameBut(n, Rerun(n, op, arg), op)
         /\ HasRoom(n, 2) => FreeSlots(Rerun(n, op, arg)) # {}
  <1> DEFINE k == Cancel(n, op)
             m == Send(k, op, arg)
  <1>1. /\ Only(n, k, {}) /\ NoLive(k, op) /\ FreeSlots(k) = FreeSlots(n)
        /\ \A i \in Slots : n[i].op # op => k[i] = n[i]
        /\ \A i \in Slots : k[i].op = n[i].op
    BY CancelDoes
  <1>2. Calls(k)
    BY <1>1 DEF Only
  <1>3. Rerun(n, op, arg) = m
    BY DEF Rerun
  <1> HIDE DEF k
  <1>4. Only(k, m, {Fresh(op, arg)}) /\ Sent(k, m, Fresh(op, arg))
    <2>1. FreeSlots(k) # {}
      BY <1>1
    <2> QED BY <1>2, <2>1, SendDoes
  <1> HIDE DEF m
  <1>5. PICK j \in FreeSlots(n) :
           m[j] = Fresh(op, arg) /\ \A i \in Slots \ {j} : m[i] = k[i]
    BY <1>1, <1>4 DEF Sent
  <1>6. j \in Slots /\ Fresh(op, arg).op = op
    BY <1>5, FreshIs DEF FreeSlots
  <1>7. Only(n, m, {Fresh(op, arg)})
    <2>1. Only(n, m, {} \cup {Fresh(op, arg)})
      BY <1>1, <1>4, OnlyTrans
    <2> QED BY <2>1
  <1>8. OneLive(m, Fresh(op, arg))
    BY <1>1, <1>5, <1>6 DEF OneLive, NoLive
  <1>9. SameBut(n, m, op)
    BY <1>1, <1>5, <1>6 DEF SameBut, FreeSlots
  <1>10. ASSUME HasRoom(n, 2) PROVE FreeSlots(m) # {}
    <2>1. PICK i \in FreeSlots(n) \ {j} : TRUE
      BY <1>5, <1>10, RoomForMore
    <2>2. i \in FreeSlots(m)
      BY <1>1, <1>5, <2>1 DEF FreeSlots
    <2> QED BY <2>2
  <1> QED BY <1>3, <1>7, <1>8, <1>9, <1>10

\* A refresh: a new list call of the view, and of the history if there is a detail.
NewCalls(v, d) ==
    {Fresh("list", v)} \cup (IF d = NoDoc THEN {} ELSE {Fresh("history", d)})

LEMMA RefreshedDoes ==
  ASSUME NEW n, Calls(n), FreeSlots(n) # {}, NEW v, NEW d, d # NoDoc => HasRoom(n, 2)
  PROVE  /\ Only(n, Refreshed(n, v, d), NewCalls(v, d))
         /\ OneLive(Refreshed(n, v, d), Fresh("list", v))
         /\ \A i \in Slots :
              Refreshed(n, v, d)[i].op = "history" /\ Refreshed(n, v, d)[i].live =>
                  d # NoDoc /\ Refreshed(n, v, d)[i].arg = d
         /\ \A i \in Slots :
              Refreshed(n, v, d)[i].op \notin {"list", "history", "none"} =>
                  Refreshed(n, v, d)[i] = n[i]
  <1> DEFINE k == Rerun(n, "list", v)
             m == History(k, d)
  <1>1. /\ Only(n, k, {Fresh("list", v)}) /\ OneLive(k, Fresh("list", v))
        /\ SameBut(n, k, "list")
        /\ d # NoDoc => FreeSlots(k) # {}
    BY RerunDoes
  <1>2. Refreshed(n, v, d) = m
    BY DEF Refreshed
  <1>3. Calls(k)
    BY <1>1 DEF Only
  <1> HIDE DEF k
  <1>4. Fresh("list", v).op = "list"
    BY FreshIs
  <1>5. CASE d = NoDoc
    <2>1. m = Cancel(k, "history") /\ NewCalls(v, d) = {Fresh("list", v)} \cup {}
      BY <1>5 DEF History, NewCalls
    <2> HIDE DEF m
    <2>2. /\ Only(k, m, {}) /\ NoLive(m, "history")
          /\ \A i \in Slots : k[i].op # "history" => m[i] = k[i]
          /\ \A i \in Slots : m[i].op = k[i].op
      BY <1>3, <2>1, CancelDoes
    <2>3. Only(n, m, NewCalls(v, d))
      BY <1>1, <2>1, <2>2, OnlyTrans
    <2>4. OneLive(m, Fresh("list", v))
      BY <1>1, <1>4, <2>2 DEF OneLive
    <2>5. \A i \in Slots : m[i].op \notin {"list", "history", "none"} => m[i] = n[i]
      BY <1>1, <2>2 DEF SameBut
    <2> QED BY <1>2, <2>2, <2>3, <2>4, <2>5 DEF NoLive
  <1>6. CASE d # NoDoc
    <2>1. /\ m = Rerun(k, "history", d)
          /\ NewCalls(v, d) = {Fresh("list", v)} \cup {Fresh("history", d)}
      BY <1>6 DEF History, NewCalls
    <2> HIDE DEF m
    <2>2. /\ Only(k, m, {Fresh("history", d)}) /\ OneLive(m, Fresh("history", d))
          /\ SameBut(k, m, "history")
      BY <1>1, <1>3, <1>6, <2>1, RerunDoes
    <2>3. Only(n, m, NewCalls(v, d))
      BY <1>1, <2>1, <2>2, OnlyTrans
    <2>4. OneLive(m, Fresh("list", v))
      BY <1>1, <1>4, <2>2 DEF OneLive, SameBut
    <2>5. \A i \in Slots : m[i].op \notin {"list", "history", "none"} => m[i] = n[i]
      BY <1>1, <2>2 DEF SameBut
    <2>6. \A i \in Slots : m[i].op = "history" /\ m[i].live => m[i].arg = d
      BY <2>2, FreshIs DEF OneLive
    <2> QED BY <1>2, <1>6, <2>3, <2>4, <2>5, <2>6
  <1> QED BY <1>5, <1>6

-----------------------------------------------------------------------------
(* The calls after the actions that send some.                              *)

LEMMA OneLiveIsOf ==
  ASSUME NEW m, NEW op, op # "none", NEW arg, OneLive(m, Fresh(op, arg))
  PROVE  LiveAreOf(m, op, arg)
  BY FreshIs DEF OneLive, LiveAreOf

LEMMA ToViewCalls ==
  ASSUME Calls(net), FreeSlots(net) # {}, NEW v, NEW chosen, ToView(v, chosen)
  PROVE  /\ Only(net, net', {Fresh("list", v)})
         /\ OneLive(net', Fresh("list", v))
  BY RerunDoes DEF ToView

\* What the effect on the selection sends.
Loads(d) == IF d \in {NoDoc, selected} THEN {} ELSE {Fresh("detail", d)}

LEMMA SelectCalls ==
  ASSUME NEW n, Calls(n), FreeSlots(n) # {}, NEW p, NEW d, SelectIn(n, p, d)
  PROVE  /\ Only(n, net', Loads(d))
         /\ d # selected => LiveAreOf(net', "detail", d)
         /\ d = NoDoc /\ d # selected => NoLive(net', "history")
  <1>1. CASE d = selected
    BY <1>1, OnlySelf DEF SelectIn, Loads
  <1>2. CASE d # selected /\ d = NoDoc
    <2> DEFINE k == Cancel(n, "detail")
    <2>1. Only(n, k, {}) /\ NoLive(k, "detail")
      BY CancelDoes
    <2>2. net' = Cancel(k, "history")
      BY <1>2 DEF SelectIn, Selecting
    <2> HIDE DEF k
    <2>3. /\ Only(k, net', {}) /\ NoLive(net', "history")
          /\ \A i \in Slots : k[i].op # "history" => net'[i] = k[i]
          /\ \A i \in Slots : net'[i].op = k[i].op
      BY <2>1, <2>2, CancelDoes DEF Only
    <2>4. Only(n, net', {} \cup {})
      BY <2>1, <2>3, OnlyTrans
    <2> QED BY <1>2, <2>1, <2>3, <2>4 DEF Loads, NoLive, LiveAreOf
  <1>3. CASE d # selected /\ d # NoDoc
    BY <1>3, RerunDoes, OneLiveIsOf DEF SelectIn, Selecting, Loads
  <1> QED BY <1>1, <1>2, <1>3

\* What the effect on the detail sends.
LoadsHistory(d) ==
    IF d.id = panel.detail.id \/ d = NoDetail THEN {} ELSE {Fresh("history", d.id)}

LEMMA DetailCalls ==
  ASSUME Calls(net), panel \in Panel, NEW i \in Slots, OnDetail(i)
  PROVE  /\ Only(net, net', LoadsHistory(panel'.detail))
         /\ panel'.detail.id # panel.detail.id => LiveAreOf(net', "history", panel'.detail.id)
         /\ net'[i].op \in {"history", "none"}
  <1> DEFINE n == Settle(net, i)
             detail == IF net[i].out.ok THEN net[i].out.body ELSE NoDetail
  <1>1. Only(net, n, {}) /\ FreeSlots(n) # {} /\ n[i] = NoCall
    BY SettleDoes
  <1>2. Calls(n) /\ n[i].op = "none"
    BY <1>1, NoCallIs DEF Only
  <1>3. panel'.detail = detail
    BY DEF OnDetail, Showing, Panel
  <1>4. IF detail.id = panel.detail.id THEN net' = n
        ELSE IF detail = NoDetail THEN net' = Cancel(n, "history")
        ELSE net' = Rerun(n, "history", detail.id)
    BY DEF OnDetail
  <1> HIDE DEF n, detail
  <1>5. CASE detail.id = panel.detail.id
    BY <1>1, <1>2, <1>3, <1>4, <1>5 DEF LoadsHistory
  <1>6. CASE detail.id # panel.detail.id /\ detail = NoDetail
    <2>1. /\ Only(n, net', {}) /\ NoLive(net', "history")
          /\ \A j \in Slots : net'[j].op = n[j].op
      BY <1>2, <1>4, <1>6, CancelDoes
    <2>2. Only(net, net', {} \cup {})
      BY <1>1, <2>1, OnlyTrans
    <2> QED BY <1>2, <1>3, <1>6, <2>1, <2>2 DEF LoadsHistory, NoLive, LiveAreOf
  <1>7. CASE detail.id # panel.detail.id /\ detail # NoDetail
    <2>1. /\ Only(n, net', {Fresh("history", detail.id)})
          /\ OneLive(net', Fresh("history", detail.id))
          /\ SameBut(n, net', "history")
      BY <1>1, <1>2, <1>4, <1>7, RerunDoes
    <2>2. Only(net, net', {} \cup {Fresh("history", detail.id)})
      BY <1>1, <2>1, OnlyTrans
    <2>3. LiveAreOf(net', "history", detail.id)
      BY <2>1, OneLiveIsOf
    <2>4. net'[i].op \in {"history", "none"}
      BY <1>2, <2>1 DEF SameBut
    <2> QED BY <1>3, <1>7, <2>2, <2>3, <2>4 DEF LoadsHistory
  <1> QED BY <1>5, <1>6, <1>7

LEMMA RefreshCalls ==
  ASSUME Calls(net), NEW i \in Slots, NEW d, d # NoDoc => HasRoom(Settle(net, i), 2),
         net' = Refreshed(Settle(net, i), view, d)
  PROVE  /\ Only(net, net', NewCalls(view, d))
         /\ OneLive(net', Fresh("list", view))
         /\ LiveAreOf(net', "history", d)
         /\ net'[i].op \in {"list", "history", "none"}
         /\ d = NoDoc => NoLive(net', "history")
  <1> DEFINE n == Settle(net, i)
  <1>1. Only(net, n, {}) /\ FreeSlots(n) # {} /\ n[i] = NoCall
    BY SettleDoes
  <1>2. Calls(n)
    BY <1>1 DEF Only
  <1>3. Only(n, net', NewCalls(view, d))
    BY <1>1, <1>2, RefreshedDoes
  <1>4. Only(net, net', {} \cup NewCalls(view, d))
    BY <1>1, <1>3, OnlyTrans
  <1>5. /\ OneLive(net', Fresh("list", view))
        /\ LiveAreOf(net', "history", d) /\ (d = NoDoc => NoLive(net', "history"))
    BY <1>1, <1>2, RefreshedDoes DEF LiveAreOf, NoLive
  <1>6. net'[i].op \in {"list", "history", "none"}
    BY <1>1, <1>2, RefreshedDoes, NoCallIs
  <1> QED BY <1>4, <1>5, <1>6

LEMMA DroppedCalls ==
  ASSUME Calls(net), NEW i \in Slots, NEW p, Dropped(Settle(net, i), p)
  PROVE  /\ Only(net, net', {Fresh("list", view)})
         /\ OneLive(net', Fresh("list", view))
         /\ NoLive(net', "history") /\ NoLive(net', "detail")
         /\ net'[i].op \in {"list", "history", "none"}
  <1> DEFINE n == Settle(net, i)
             k == Cancel(n, "detail")
  <1>1. Only(net, n, {}) /\ FreeSlots(n) # {} /\ n[i] = NoCall
    BY SettleDoes
  <1>2. Calls(n)
    BY <1>1 DEF Only
  <1> HIDE DEF n
  <1>3. /\ Only(n, k, {}) /\ NoLive(k, "detail") /\ FreeSlots(k) # {}
        /\ k[i].op = "none"
    BY <1>1, <1>2, CancelDoes, NoCallIs
  <1>4. net' = Refreshed(k, view, NoDoc)
    BY DEF Dropped, n
  <1> HIDE DEF k
  <1>5. NewCalls(view, NoDoc) = {Fresh("list", view)}
    BY DEF NewCalls
  <1>6. /\ Only(k, net', {Fresh("list", view)})
        /\ OneLive(net', Fresh("list", view))
        /\ NoLive(net', "history")
        /\ \A j \in Slots : net'[j].op \notin {"list", "history", "none"} => net'[j] = k[j]
    BY <1>3, <1>4, <1>5, RefreshedDoes DEF Only, NoLive
  <1>7. Only(net, k, {} \cup {})
    BY <1>1, <1>3, OnlyTrans
  <1>8. Only(net, net', ({} \cup {}) \cup {Fresh("list", view)})
    BY <1>6, <1>7, OnlyTrans
  <1>9. NoLive(net', "detail")
    BY <1>3, <1>6 DEF NoLive
  <1>10. net'[i].op \in {"list", "history", "none"}
    BY <1>3, <1>6
  <1> QED BY <1>6, <1>8, <1>9, <1>10

-----------------------------------------------------------------------------
(* Type correctness, action by action.                                     *)

LEMMA CallsStay ==
  ASSUME CallsOK, NEW new, Only(net, net', new), \A c \in new : Typed(c)
  PROVE  CallsOK'
  <1>1. Calls(net')
    BY DEF Only
  <1>2. ASSUME NEW i \in Slots, net'[i].op # "none" PROVE Typed(net'[i])
    <2>1. PICK c \in {net[i]} \cup new :
             /\ IsCall(c)
             /\ net'[i].op = c.op /\ net'[i].arg = c.arg
             /\ net'[i].back = c.back /\ net'[i].out = c.out
      BY <1>2, OldOrNew DEF CallsOK
    <2>2. Typed(c)
      BY <1>2, <2>1 DEF CallsOK
    <2> QED BY <2>1, <2>2 DEF Typed
  <1> QED BY <1>1, <1>2 DEF CallsOK

LEMMA FreshTyped ==
  ASSUME NEW op, NEW arg, op # "none",
         op = "list" => arg \in Views,
         op \in OfOne \cup {"history", "delete", "deleteKey"} => arg \in Docs,
         op = "snapshot" => arg \in [id : Docs, number : Nat],
         Many(op) => arg \in BulkArgument /\ arg.todo \cup arg.failed \subseteq arg.targets
  PROVE  Typed(Fresh(op, arg))
  <1> DEFINE c == Fresh(op, arg)
  <1> SUFFICES Typed(c)
    OBVIOUS
  <1>1. c.op = op /\ c.arg = arg /\ ~c.back /\ ~c.out.ok
    BY FreshIs DEF Failure
  <1> HIDE DEF c
  <1>2. c.op = "list" => c.arg \in Views
    BY <1>1
  <1>3. c.op \in OfOne => c.arg \in Docs
    BY <1>1
  <1>4. c.op = "snapshot" => c.arg \in [id : Docs, number : Nat]
    BY <1>1
  <1>5. c.op \in {"history", "delete", "deleteKey"} => c.arg \in Docs
    BY <1>1
  <1>6. Many(c.op) => c.arg \in BulkArgument /\ c.arg.todo \cup c.arg.failed \subseteq c.arg.targets
    BY <1>1
  <1> QED BY <1>1, <1>2, <1>3, <1>4, <1>5, <1>6 DEF Typed

LEMMA SpentIs ==
  ASSUME left \in Setting, left.acts > 0
  PROVE  Spent \in Setting /\ Spent.patient = left.patient /\ Spent.ops = left.ops
  BY DEF Spent, Setting

LEMMA LeftIs ==
  ASSUME left \in Setting
  PROVE  /\ left.lost > 0 => /\ [left EXCEPT !.lost = @ - 1] \in Setting
                             /\ [left EXCEPT !.lost = @ - 1].patient = left.patient
         /\ left.errors > 0 => /\ [left EXCEPT !.errors = @ - 1] \in Setting
                               /\ [left EXCEPT !.errors = @ - 1].patient = left.patient
  BY DEF Setting

LEMMA IdsAreDocs ==
  ASSUME NEW items, items \subseteq Item
  PROVE  Ids(items) \subseteq Docs
  BY DEF Ids, Item

LEMMA SnapshotAfterIs ==
  ASSUME StateOK, NEW detail
  PROVE  SnapshotAfter(snapshot, detail) \in
            [wanted : Nat, of : Docs \cup {NoDoc}, number : Nat, loading : BOOLEAN]
  BY DEF StateOK, SnapshotAfter

LEMMA SelectState ==
  ASSUME StateOK, NEW n, NEW p \in Panel, NEW d \in Docs \cup {NoDoc}, SelectIn(n, p, d)
  PROVE  /\ selected' = d /\ panel' \in Panel
         /\ history' \in [of : Docs \cup {NoDoc}, loading : BOOLEAN]
         /\ snapshot' \in [wanted : Nat, of : Docs \cup {NoDoc}, number : Nat,
                           loading : BOOLEAN]
  <1>1. CASE d = selected
    BY <1>1 DEF StateOK, SelectIn
  <1>2. CASE d # selected
    <2>1. selected' = d /\ panel' = PanelFor(p, d) /\ history' = HistoryFor(history, d)
          /\ snapshot' = SnapshotFor(snapshot, d)
      BY <1>2 DEF SelectIn
    <2>2. PanelFor(p, d) \in Panel
      BY DEF PanelFor, Showing, Panel
    <2>3. HistoryFor(history, d) \in [of : Docs \cup {NoDoc}, loading : BOOLEAN]
      BY DEF HistoryFor, StateOK
    <2> QED BY <2>1, <2>2, <2>3, SnapshotAfterIs DEF SnapshotFor, StateOK
  <1> QED BY <1>1, <1>2

LEMMA LoadsTyped ==
  ASSUME NEW d \in Docs \cup {NoDoc}
  PROVE  \A c \in Loads(d) : Typed(c)
  BY FreshTyped DEF Loads, OfOne, Many

LEMMA NewCallsTyped ==
  ASSUME NEW v \in Views, NEW d \in Docs \cup {NoDoc}
  PROVE  \A c \in NewCalls(v, d) : Typed(c)
  <1>1. Typed(Fresh("list", v))
    BY FreshTyped DEF OfOne, Many
  <1>2. d # NoDoc => Typed(Fresh("history", d))
    BY FreshTyped DEF OfOne, Many
  <1> QED BY <1>1, <1>2 DEF NewCalls

LEMMA ToViewType ==
  ASSUME TypeInv, NEW v \in Views, NEW chosen \in SUBSET Docs, CanChangeView, ToView(v, chosen)
  PROVE  TypeInv'
  <1>1. FreeSlots(net) # {} /\ left.acts > 0
    BY Room DEF CanChangeView, Leaves, Acts
  <1>2. Only(net, net', {Fresh("list", v)})
    BY <1>1, ToViewCalls DEF TypeInv, CallsOK
  <1>3. Typed(Fresh("list", v))
    BY FreshTyped DEF OfOne, Many
  <1>4. CallsOK'
    BY <1>2, <1>3, CallsStay DEF TypeInv
  <1>5. StateOK'
    BY <1>1, SpentIs DEF TypeInv, StateOK, ToView, Reloading
  <1> QED BY <1>4, <1>5 DEF TypeInv

LEMMA SelectType ==
  ASSUME TypeInv, NEW n, Calls(n), Only(net, n, {}), FreeSlots(n) # {}, NEW p \in Panel,
         NEW d \in Docs \cup {NoDoc}, SelectIn(n, p, d)
  PROVE  CallsOK'
  <1>1. Only(n, net', Loads(d))
    BY SelectCalls
  <1>2. Only(net, net', {} \cup Loads(d))
    BY <1>1, OnlyTrans DEF TypeInv, CallsOK
  <1> QED BY <1>2, LoadsTyped, CallsStay DEF TypeInv

LEMMA OpenType ==
  ASSUME TypeInv, NEW d \in Docs, Open(d) \/ ArrowKey(d)
  PROVE  TypeInv'
  <1>1. FreeSlots(net) # {} /\ left.acts > 0
    BY Room DEF Open, ArrowKey, Leaves, Acts
  <1>2. PICK p \in Panel : SelectIn(net, p, d)
    BY DEF Open, ArrowKey, TypeInv, StateOK, Panel
  <1>3. Calls(net) /\ Only(net, net, {})
    BY OnlySelf DEF TypeInv, CallsOK
  <1>4. CallsOK'
    BY <1>1, <1>2, <1>3, SelectType
  <1>5. StateOK'
    BY <1>1, <1>2, SelectState, SpentIs DEF TypeInv, StateOK, Open, ArrowKey
  <1> QED BY <1>4, <1>5 DEF TypeInv

LEMMA PanelOnlyType ==
  ASSUME TypeInv, CloseModal \/ Edit \/ ResetEditor
  PROVE  TypeInv'
  <1>1. CallsOK'
    BY DEF CloseModal, Edit, ResetEditor, TypeInv, CallsOK
  <1>2. StateOK'
    BY ZenonT(60), SpentIs DEF CloseModal, Edit, ResetEditor, Leaves, Acts, TypeInv, StateOK, Panel
  <1> QED BY <1>1, <1>2 DEF TypeInv

LEMMA ChooseType ==
  ASSUME TypeInv, NEW S \in SUBSET Docs, Choose(S)
  PROVE  TypeInv'
  <1>1. CallsOK'
    BY DEF Choose, TypeInv, CallsOK
  <1>2. StateOK'
    BY SpentIs DEF Choose, Acts, TypeInv, StateOK
  <1> QED BY <1>1, <1>2 DEF TypeInv

LEMMA SendType ==
  ASSUME TypeInv, NEW n, Only(net, n, {}), FreeSlots(n) # {},
         NEW op, op # "none", NEW arg, Typed(Fresh(op, arg)), net' = Send(n, op, arg)
  PROVE  CallsOK' /\ Only(net, net', {Fresh(op, arg)})
  <1>1. Calls(n)
    BY DEF Only
  <1>2. Only(n, net', {Fresh(op, arg)})
    BY <1>1, SendDoes
  <1>3. Only(net, net', {} \cup {Fresh(op, arg)})
    BY <1>2, OnlyTrans DEF TypeInv, CallsOK
  <1> QED BY <1>3, CallsStay DEF TypeInv

LEMMA AskType ==
  ASSUME TypeInv, NEW op \in {"save", "files", "resolve", "delete"}, Ask(op)
  PROVE  TypeInv' /\ Only(net, net', {Fresh(op, panel.detail.id)})
  <1>1. FreeSlots(net) # {} /\ left.acts > 0
    BY Room DEF Ask, Acts
  <1>2. panel.detail \in Item
    BY DEF Ask, CanAct, DetailShown, TypeInv, StateOK, Panel
  <1>3. Typed(Fresh(op, panel.detail.id))
    BY <1>2, FreshTyped DEF Item, OfOne, Many
  <1>4. Only(net, net, {})
    BY OnlySelf DEF TypeInv, CallsOK
  <1>5. CallsOK' /\ Only(net, net', {Fresh(op, panel.detail.id)})
    BY <1>1, <1>3, <1>4, SendType DEF Ask
  <1>6. StateOK'
    BY ZenonT(60), <1>1, SpentIs DEF Ask, TypeInv, StateOK, Panel
  <1> QED BY <1>5, <1>6 DEF TypeInv

LEMMA LoadSnapshotType ==
  ASSUME TypeInv, NEW number \in 1 .. panel.detail.rev, LoadSnapshot(number)
  PROVE  /\ TypeInv'
         /\ Only(net, net', {Fresh("snapshot", [id |-> panel.detail.id, number |-> number])})
  <1>1. FreeSlots(net) # {} /\ left.acts > 0
    BY Room DEF LoadSnapshot, Acts
  <1>2. panel.detail \in Item
    BY DEF LoadSnapshot, DetailShown, TypeInv, StateOK, Panel
  <1>3. Typed(Fresh("snapshot", [id |-> panel.detail.id, number |-> number])) /\ number \in Nat
    BY <1>2, FreshTyped DEF Item, OfOne, Many
  <1>4. Only(net, net, {})
    BY OnlySelf DEF TypeInv, CallsOK
  <1>5. /\ CallsOK'
        /\ Only(net, net', {Fresh("snapshot", [id |-> panel.detail.id, number |-> number])})
    BY <1>1, <1>3, <1>4, SendType DEF LoadSnapshot
  <1>6. StateOK'
    BY <1>1, <1>3, SpentIs DEF LoadSnapshot, TypeInv, StateOK
  <1> QED BY <1>5, <1>6 DEF TypeInv

BulkStart ==
    [targets |-> bulk.chosen, todo |-> bulk.chosen, failed |-> {},
     rev |-> [d \in Docs |-> 0], selected |-> selected]

LEMMA AskBulkType ==
  ASSUME TypeInv, NEW op \in {"bulkDelete", "bulkReview"}, AskBulk(op)
  PROVE  TypeInv' /\ Only(net, net', {Fresh(op, BulkStart)})
  <1>1. FreeSlots(net) # {} /\ left.acts > 0
    BY Room DEF AskBulk, Acts
  <1>2. BulkStart \in BulkArgument /\ BulkStart.todo \cup BulkStart.failed \subseteq BulkStart.targets
    BY DEF BulkStart, BulkArgument, TypeInv, StateOK
  <1>3. Typed(Fresh(op, BulkStart))
    BY <1>2, FreshTyped DEF OfOne
  <1>4. Only(net, net, {})
    BY OnlySelf DEF TypeInv, CallsOK
  <1>5. net' = Send(net, op, BulkStart)
    BY DEF AskBulk, BulkStart
  <1>6. CallsOK' /\ Only(net, net', {Fresh(op, BulkStart)})
    BY <1>1, <1>3, <1>4, <1>5, SendType
  <1>7. StateOK'
    BY <1>1, SpentIs DEF AskBulk, TypeInv, StateOK
  <1> QED BY <1>6, <1>7 DEF TypeInv

LEMMA DeleteKeyType ==
  ASSUME TypeInv, DeleteKey
  PROVE  TypeInv' /\ Only(net, net', {Fresh("deleteKey", selected)})
  <1>1. FreeSlots(net) # {} /\ left.acts > 0
    BY Room DEF DeleteKey, Leaves, Acts
  <1>2. selected \in Docs
    BY IdsAreDocs DEF DeleteKey, TypeInv, StateOK
  <1>3. Typed(Fresh("deleteKey", selected))
    BY <1>2, FreshTyped DEF OfOne, Many
  <1>4. Only(net, net, {})
    BY OnlySelf DEF TypeInv, CallsOK
  <1>5. CallsOK' /\ Only(net, net', {Fresh("deleteKey", selected)})
    BY <1>1, <1>3, <1>4, SendType DEF DeleteKey
  <1>6. StateOK'
    BY <1>1, SpentIs DEF DeleteKey, TypeInv, StateOK
  <1> QED BY <1>5, <1>6 DEF TypeInv

LEMMA BackIs ==
  ASSUME CallsOK, NEW i \in Slots, IsBack(net, i)
  PROVE  IsCall(net[i]) /\ Typed(net[i]) /\ net[i].op # "none" /\ net[i].back
  BY NoCallIs DEF CallsOK, Calls, IsBack

LEMMA SettleType ==
  ASSUME TypeInv, NEW i \in Slots, net' = Settle(net, i)
  PROVE  CallsOK' /\ Only(net, net', {}) /\ net'[i].op = "none"
  <1>1. Only(net, net', {}) /\ net'[i].op = "none"
    BY SettleDoes, NoCallIs DEF TypeInv, CallsOK
  <1> QED BY <1>1, CallsStay DEF TypeInv

LEMMA SettlesType ==
  ASSUME TypeInv, NEW i \in Slots, Late(i) \/ OnHistory(i) \/ OnSnapshot(i) \/ Fails(i)
  PROVE  TypeInv'
  <1>1. CallsOK'
    BY SettleType DEF Late, OnHistory, OnSnapshot, Fails
  <1>2. ASSUME Late(i) PROVE StateOK'
    BY <1>2 DEF Late, TypeInv, StateOK
  <1>3. ASSUME OnHistory(i) PROVE StateOK'
    BY <1>3, BackIs DEF OnHistory, TypeInv, StateOK, Typed
  <1>4. ASSUME OnSnapshot(i) PROVE StateOK'
    BY ZenonT(60), <1>4, BackIs DEF OnSnapshot, TypeInv, StateOK, Typed
  <1>5. ASSUME Fails(i) PROVE StateOK'
    BY <1>5 DEF Fails, TypeInv, StateOK, Panel
  <1> QED BY <1>1, <1>2, <1>3, <1>4, <1>5 DEF TypeInv

LEMMA OnListType ==
  ASSUME TypeInv, NEW i \in Slots, OnList(i)
  PROVE  TypeInv'
  <1> DEFINE items == IF net[i].out.ok THEN net[i].out.body.items ELSE {}
             d == IF selected \in Ids(items) THEN selected ELSE NoDoc
  <1>1. Typed(net[i]) /\ net[i].op = "list"
    BY BackIs DEF OnList, TypeInv
  <1>2. items \subseteq Item /\ d \in Docs \cup {NoDoc}
    BY <1>1 DEF Typed, TypeInv, StateOK
  <1>3. SelectIn(Settle(net, i), panel, d)
    BY DEF OnList
  <1>4. list' = [items |-> items, total |-> IF net[i].out.ok THEN net[i].out.body.total ELSE 0,
                 loading |-> FALSE, error |-> ~net[i].out.ok, of |-> net[i].arg]
    BY DEF OnList
  <1>5. bulk' = [bulk EXCEPT !.chosen = KeptChoice(items)]
    BY DEF OnList
  <1> HIDE DEF items, d
  <1>6. CallsOK'
    <2>1. Only(net, Settle(net, i), {}) /\ FreeSlots(Settle(net, i)) # {}
      BY SettleDoes DEF TypeInv, CallsOK
    <2> QED BY <1>2, <1>3, <2>1, SelectType DEF TypeInv, StateOK, Only
  <1>7. list' \in [items : SUBSET Item, total : Nat, loading : BOOLEAN, error : BOOLEAN,
                   of : Views]
    BY <1>1, <1>2, <1>4 DEF Typed
  <1>8. bulk' \in [chosen : SUBSET Docs, busy : BOOLEAN]
    BY <1>2, <1>5 DEF KeptChoice, TypeInv, StateOK
  <1>9. StateOK'
    BY <1>2, <1>3, <1>7, <1>8, SelectState DEF OnList, TypeInv, StateOK
  <1> QED BY <1>6, <1>9 DEF TypeInv

LEMMA OnDetailType ==
  ASSUME TypeInv, NEW i \in Slots, OnDetail(i)
  PROVE  TypeInv'
  <1> DEFINE detail == IF net[i].out.ok THEN net[i].out.body ELSE NoDetail
  <1>1. Typed(net[i]) /\ net[i].op = "detail"
    BY BackIs DEF OnDetail, TypeInv
  <1>2. detail \in Item \cup {NoDetail}
    BY <1>1 DEF Typed, OfOne
  <1>3. /\ panel' = [Showing(panel, detail) EXCEPT !.loading = FALSE, !.error = ~net[i].out.ok]
        /\ snapshot' = SnapshotAfter(snapshot, detail)
        /\ history' \in {history, [history EXCEPT !.loading = TRUE]}
        /\ UNCHANGED <<server, view, list, selected, bulk, own, left>>
    BY DEF OnDetail
  <1> HIDE DEF detail
  <1>4. panel' \in Panel /\ panel'.detail = detail
    BY ZenonT(60), <1>2, <1>3 DEF Showing, Panel, TypeInv, StateOK
  <1>5. CallsOK'
    <2>1. \A c \in LoadsHistory(panel'.detail) : Typed(c)
      BY <1>2, <1>4, FreshTyped DEF LoadsHistory, Item, OfOne, Many
    <2> QED BY <2>1, DetailCalls, CallsStay DEF TypeInv, StateOK, CallsOK
  <1>6. StateOK'
    BY <1>3, <1>4, SnapshotAfterIs DEF TypeInv, StateOK
  <1> QED BY <1>5, <1>6 DEF TypeInv

LEMMA DoneType ==
  ASSUME StateOK, NEW d \in Docs, NEW rev \in Nat
  PROVE  Done(d, rev) \in [Docs -> [rev : Nat, gone : BOOLEAN]]
  BY DEF Done, StateOK

LEMMA OnChangedType ==
  ASSUME TypeInv, NEW i \in Slots, OnChanged(i)
  PROVE  TypeInv' /\ Only(net, net', NewCalls(view, net[i].out.body.id))
  <1> DEFINE detail == net[i].out.body
  <1>1. Typed(net[i]) /\ net[i].op \in OfOne /\ net[i].out.ok
    BY BackIs DEF OnChanged, TypeInv, OfOne
  <1>2. detail \in Item
    BY <1>1 DEF Typed
  <1>3. /\ net' = Refreshed(Settle(net, i), view, detail.id)
        /\ panel' = [Showing(panel, detail) EXCEPT !.busy = FALSE]
        /\ own' = Done(detail.id, detail.rev)
        /\ snapshot' = SnapshotAfter(snapshot, detail)
        /\ history' = [history EXCEPT !.loading = TRUE]
        /\ list' = Reloading(list)
        /\ UNCHANGED <<server, view, selected, bulk, left>>
        /\ HasRoom(Settle(net, i), 2)
    BY DEF OnChanged
  <1> HIDE DEF detail
  <1>4. Only(net, net', NewCalls(view, detail.id))
    BY <1>3, RefreshCalls DEF TypeInv, CallsOK
  <1>5. CallsOK'
    BY <1>2, <1>4, NewCallsTyped, CallsStay DEF TypeInv, StateOK, Item
  <1>6. panel' \in Panel
    BY <1>2, <1>3 DEF Showing, Panel, TypeInv, StateOK
  <1>7. own' \in [Docs -> [rev : Nat, gone : BOOLEAN]]
    BY <1>2, <1>3, DoneType DEF TypeInv, Item
  <1>8. StateOK'
    BY <1>3, <1>6, <1>7, SnapshotAfterIs DEF TypeInv, StateOK, Reloading
  <1> QED BY <1>4, <1>5, <1>8 DEF TypeInv, detail

LEMMA OnResolvedType ==
  ASSUME TypeInv, NEW i \in Slots, OnResolved(i)
  PROVE  TypeInv' /\ Only(net, net', {Fresh("reload", net[i].arg)})
  <1>1. Typed(net[i]) /\ net[i].op = "resolve"
    BY BackIs DEF OnResolved, TypeInv
  <1>2. Typed(Fresh("reload", net[i].arg))
    BY <1>1, FreshTyped DEF Typed, OfOne, Many
  <1>3. Only(net, Settle(net, i), {}) /\ FreeSlots(Settle(net, i)) # {}
    BY SettleDoes DEF TypeInv, CallsOK
  <1>4. CallsOK' /\ Only(net, net', {Fresh("reload", net[i].arg)})
    BY <1>2, <1>3, SendType DEF OnResolved
  <1>5. StateOK'
    BY DEF OnResolved, TypeInv, StateOK
  <1> QED BY <1>4, <1>5 DEF TypeInv

LEMMA DroppedType ==
  ASSUME TypeInv, NEW i \in Slots, NEW p \in Panel, Dropped(Settle(net, i), p)
  PROVE  /\ CallsOK' /\ selected' = NoDoc /\ panel' \in Panel
         /\ list' = Reloading(list)
         /\ list' \in [items : SUBSET Item, total : Nat, loading : BOOLEAN,
                       error : BOOLEAN, of : Views]
         /\ history' \in [of : Docs \cup {NoDoc}, loading : BOOLEAN]
         /\ snapshot' \in [wanted : Nat, of : Docs \cup {NoDoc}, number : Nat,
                           loading : BOOLEAN]
         /\ panel'.detail = NoDetail /\ panel'.open = p.open /\ panel'.busy = p.busy
         /\ panel'.loading = p.loading
  <1>1. CallsOK'
    <2>1. Only(net, net', {Fresh("list", view)}) /\ Typed(Fresh("list", view))
      BY DroppedCalls, FreshTyped DEF TypeInv, CallsOK, StateOK, OfOne, Many
    <2> QED BY <2>1, CallsStay DEF TypeInv
  <1>2. /\ panel' \in Panel /\ panel'.detail = NoDetail /\ panel'.open = p.open
        /\ panel'.busy = p.busy /\ panel'.loading = p.loading
    BY DEF Dropped, Showing, Panel
  <1>3. /\ list' = Reloading(list)
        /\ list' \in [items : SUBSET Item, total : Nat, loading : BOOLEAN,
                      error : BOOLEAN, of : Views]
    BY DEF Dropped, Reloading, TypeInv, StateOK
  <1>4. history' \in [of : Docs \cup {NoDoc}, loading : BOOLEAN]
    BY DEF Dropped, TypeInv, StateOK
  <1>5. snapshot' \in [wanted : Nat, of : Docs \cup {NoDoc}, number : Nat,
                       loading : BOOLEAN]
    BY SnapshotAfterIs DEF Dropped, TypeInv
  <1> QED BY <1>1, <1>2, <1>3, <1>4, <1>5 DEF Dropped

LEMMA OnDeletedType ==
  ASSUME TypeInv, NEW i \in Slots, OnDeleted(i)
  PROVE  TypeInv'
  <1> DEFINE p == [panel EXCEPT !.open = FALSE, !.busy = FALSE]
  <1>1. Typed(net[i]) /\ net[i].op = "delete"
    BY BackIs DEF OnDeleted, TypeInv
  <1>2. p \in Panel
    BY DEF TypeInv, StateOK, Panel
  <1>3. Dropped(Settle(net, i), p)
    BY DEF OnDeleted
  <1> HIDE DEF p
  <1>4. own' \in [Docs -> [rev : Nat, gone : BOOLEAN]]
    BY DEF OnDeleted, TypeInv, StateOK
  <1>5. StateOK'
    BY <1>2, <1>3, <1>4, DroppedType DEF OnDeleted, TypeInv, StateOK
  <1> QED BY <1>2, <1>3, <1>5, DroppedType DEF TypeInv

LEMMA RefreshType ==
  ASSUME TypeInv, NEW i \in Slots, HasRoom(Settle(net, i), 2),
         net' = Refreshed(Settle(net, i), view, panel.detail.id)
  PROVE  CallsOK'
  <1>1. panel.detail.id \in Docs \cup {NoDoc}
    BY DEF TypeInv, StateOK, Panel, Item, NoDetail
  <1>2. Only(net, net', NewCalls(view, panel.detail.id))
    BY RefreshCalls DEF TypeInv, CallsOK
  <1> QED BY <1>1, <1>2, NewCallsTyped, CallsStay DEF TypeInv, StateOK

LEMMA OnDeleteKeyType ==
  ASSUME TypeInv, NEW i \in Slots, OnDeleteKey(i)
  PROVE  TypeInv'
  <1>1. Typed(net[i]) /\ net[i].op = "deleteKey"
    BY BackIs DEF OnDeleteKey, TypeInv
  <1>2. bulk' \in [chosen : SUBSET Docs, busy : BOOLEAN]
    <2>1. \/ bulk' = [chosen |-> bulk.chosen \ {net[i].arg}, busy |-> FALSE]
          \/ bulk' = [bulk EXCEPT !.busy = FALSE]
      BY DEF OnDeleteKey
    <2>2. /\ bulk \in [chosen : SUBSET Docs, busy : BOOLEAN]
          /\ bulk.chosen \ {net[i].arg} \in SUBSET Docs
      BY DEF TypeInv, StateOK
    <2>3. [bulk EXCEPT !.busy = FALSE] \in [chosen : SUBSET Docs, busy : BOOLEAN]
      BY <2>2
    <2>4. [chosen |-> bulk.chosen \ {net[i].arg}, busy |-> FALSE]
             \in [chosen : SUBSET Docs, busy : BOOLEAN]
      BY <2>2
    <2> QED BY <2>1, <2>3, <2>4
  <1>3. own' \in [Docs -> [rev : Nat, gone : BOOLEAN]]
    <2>1. own' = own \/ own' = [own EXCEPT ![net[i].arg].gone = TRUE]
      BY DEF OnDeleteKey
    <2>2. own \in [Docs -> [rev : Nat, gone : BOOLEAN]]
      BY DEF TypeInv, StateOK
    <2> QED BY <2>1, <2>2
  <1>4. CASE net[i].out.ok /\ selected # NoDoc
    <2>1. Dropped(Settle(net, i), panel)
      BY <1>4 DEF OnDeleteKey
    <2>2. StateOK'
      BY <1>2, <1>3, <2>1, DroppedType DEF OnDeleteKey, TypeInv, StateOK
    <2> QED BY <2>1, <2>2, DroppedType DEF TypeInv, StateOK
  <1>5. CASE net[i].out.ok /\ selected = NoDoc
    <2>1. CallsOK'
      BY <1>5, RefreshType DEF OnDeleteKey
    <2>2. StateOK'
      BY ZenonT(60), <1>2, <1>3, <1>5 DEF OnDeleteKey, TypeInv, StateOK, Reloading
    <2> QED BY <2>1, <2>2 DEF TypeInv
  <1>6. CASE ~net[i].out.ok
    <2>1. CallsOK'
      BY <1>6, SettleType DEF OnDeleteKey
    <2>2. StateOK'
      BY <1>2, <1>3, <1>6 DEF OnDeleteKey, TypeInv, StateOK
    <2> QED BY <2>1, <2>2 DEF TypeInv
  <1> QED BY <1>4, <1>5, <1>6

LEMMA OnBulkType ==
  ASSUME TypeInv, NEW i \in Slots, OnBulk(i)
  PROVE  TypeInv'
  <1> DEFINE arg == net[i].arg
             good == arg.targets \ arg.failed
  <1>1. Typed(net[i]) /\ arg \in BulkArgument
    BY BackIs DEF OnBulk, TypeInv, Typed
  <1>2. bulk' \in [chosen : SUBSET Docs, busy : BOOLEAN]
    BY <1>1 DEF OnBulk, BulkArgument
  <1>3. own' \in [Docs -> [rev : Nat, gone : BOOLEAN]]
    <2>1. ASSUME NEW d \in Docs PROVE Done(d, arg.rev[d])[d] \in [rev : Nat, gone : BOOLEAN]
      <3>1. arg.rev[d] \in Nat
        BY <1>1 DEF BulkArgument
      <3> HIDE DEF arg
      <3> QED BY <3>1, DoneType DEF TypeInv
    <2>2. ASSUME NEW d \in Docs PROVE own[d] \in [rev : Nat, gone : BOOLEAN]
      BY DEF TypeInv, StateOK
    <2> QED BY <2>1, <2>2 DEF OnBulk
  <1>4. CASE good = {}
    <2>1. net' = Settle(net, i) /\ UNCHANGED <<list, selected, panel, history, snapshot>>
      BY <1>4 DEF OnBulk
    <2>2. StateOK'
      BY <1>2, <1>3, <2>1 DEF OnBulk, TypeInv, StateOK
    <2> QED BY <2>1, <2>2, SettleType DEF TypeInv
  <1>5. CASE good # {} /\ net[i].op = "bulkDelete" /\ arg.selected \in good
    <2>1. Dropped(Settle(net, i), [panel EXCEPT !.open = FALSE])
      BY <1>5 DEF OnBulk
    <2>2. [panel EXCEPT !.open = FALSE] \in Panel
      BY DEF TypeInv, StateOK, Panel
    <2>3. StateOK'
      BY <1>2, <1>3, <2>1, <2>2, DroppedType DEF OnBulk, TypeInv, StateOK
    <2> QED BY <2>1, <2>2, <2>3, DroppedType DEF TypeInv
  <1>6. CASE good # {} /\ ~(net[i].op = "bulkDelete" /\ arg.selected \in good)
    <2>1. /\ net' = Refreshed(Settle(net, i), view, panel.detail.id)
          /\ list' = Reloading(list)
          /\ history' \in {history, [history EXCEPT !.loading = TRUE]}
          /\ UNCHANGED <<selected, panel, snapshot>>
          /\ HasRoom(Settle(net, i), 2)
      BY SMTT(60), <1>6 DEF OnBulk
    <2>2. StateOK'
      BY <1>2, <1>3, <2>1 DEF OnBulk, TypeInv, StateOK, Reloading
    <2> QED BY <2>1, <2>2, RefreshType DEF TypeInv
  <1> QED BY <1>4, <1>5, <1>6

-----------------------------------------------------------------------------
(* The server's steps change one call, which keeps its kind.                *)

AnsweredAt(i) ==
    /\ Calls(net')
    /\ \A j \in Slots \ {i} : net'[j] = net[j]
    /\ IsCall(net[i]) /\ IsCall(net'[i])
    /\ net'[i].op = net[i].op /\ net'[i].live = net[i].live

LEMMA OpenIs ==
  ASSUME CallsOK, NEW i \in Slots, IsOpen(net, i)
  PROVE  IsCall(net[i]) /\ Typed(net[i]) /\ net[i].out = Failure
  BY NoCallIs DEF CallsOK, Calls, IsOpen, IsCall

LEMMA ComeBackDoes ==
  ASSUME CallsOK, NEW i \in Slots, IsOpen(net, i), NEW out,
         out = Failure \/ out = Success(out.body), net' = ComeBack(net, i, out)
  PROVE  /\ AnsweredAt(i)
         /\ net'[i].arg = net[i].arg /\ net'[i].back /\ net'[i].out = out
  <1>1. /\ net' = [j \in Slots |-> net'[j]]
        /\ \A j \in Slots \ {i} : net'[j] = net[j]
        /\ net'[i] = [net[i] EXCEPT !.back = TRUE, !.out = out]
    BY DEF ComeBack, CallsOK, Calls
  <1>2. IsCall(net[i])
    BY OpenIs
  <1>3. /\ IsCall(net'[i]) /\ net'[i].op = net[i].op /\ net'[i].live = net[i].live
        /\ net'[i].arg = net[i].arg /\ net'[i].back /\ net'[i].out = out
    BY <1>1, <1>2 DEF IsCall
  <1>4. Calls(net')
    BY <1>1, <1>3 DEF Calls, CallsOK
  <1> QED BY <1>1, <1>2, <1>3, <1>4 DEF AnsweredAt

LEMMA AnsweredType ==
  ASSUME CallsOK, NEW i \in Slots, AnsweredAt(i), Typed(net'[i])
  PROVE  CallsOK'
  BY DEF CallsOK, AnsweredAt

LEMMA WrittenType ==
  ASSUME StateOK, NEW op, NEW d \in Docs
  PROVE  /\ Written(op, d) \in [Docs -> [live : BOOLEAN, rev : Nat]]
         /\ \A e \in Docs \ {d} : Written(op, d)[e] = server[e]
         /\ Written(op, d)[d].live <=> op \notin Removing
         /\ Written(op, d)[d].rev = IF op \in Changing THEN server[d].rev + 1 ELSE server[d].rev
  <1> DEFINE row == [live |-> op \notin Removing,
                     rev |-> IF op \in Changing THEN server[d].rev + 1 ELSE server[d].rev]
  <1>1. server \in [Docs -> [live : BOOLEAN, rev : Nat]]
    BY DEF StateOK
  <1>2. Written(op, d) = [server EXCEPT ![d] = row]
    BY <1>1 DEF Written
  <1>3. row \in [live : BOOLEAN, rev : Nat]
    BY <1>1
  <1>4. /\ row.live <=> op \notin Removing
        /\ row.rev = IF op \in Changing THEN server[d].rev + 1 ELSE server[d].rev
    OBVIOUS
  <1> HIDE DEF row
  <1> QED BY <1>1, <1>2, <1>3, <1>4

LEMMA ItemOfType ==
  ASSUME StateOK, NEW d \in Docs
  PROVE  /\ ItemOf(d) \in Item /\ ItemOf(d).id = d /\ ItemOf(d).rev = server[d].rev
         /\ [ItemOf(d) EXCEPT !.rev = @ + 1] \in Item
         /\ [ItemOf(d) EXCEPT !.rev = @ + 1].id = d
         /\ [ItemOf(d) EXCEPT !.rev = @ + 1].rev = server[d].rev + 1
  BY DEF StateOK, ItemOf, Item

\* The list answered: live documents as they are now.
LEMMA ListBody ==
  ASSUME StateOK, NEW v
  PROVE  /\ Body("list", v).items \subseteq Item
         /\ Body("list", v).total \in Nat
         /\ \A x \in Body("list", v).items :
              x.id \in Docs /\ server[x.id].live /\ x.rev = server[x.id].rev
  <1>1. Body("list", v) = [items |-> {ItemOf(d) : d \in PageOf(v)},
                           total |-> Cardinality(Listed(v.filter))]
    BY DEF Body
  <1>2. IsFiniteSet(Listed(v.filter))
    BY DocsAssumption, FS_Subset DEF Listed, Live
  <1>3. \A d \in PageOf(v) : d \in Docs /\ server[d].live
    BY DEF PageOf, Listed, Live
  <1> DEFINE items == {ItemOf(d) : d \in PageOf(v)}
  <1>4. \A x \in items :
           x \in Item /\ x.id \in Docs /\ server[x.id].live /\ x.rev = server[x.id].rev
    <2> SUFFICES ASSUME NEW d \in PageOf(v)
                 PROVE  /\ ItemOf(d) \in Item /\ ItemOf(d).id \in Docs
                        /\ server[ItemOf(d).id].live /\ ItemOf(d).rev = server[ItemOf(d).id].rev
      OBVIOUS
    <2>1. d \in Docs /\ server[d].live
      BY <1>3
    <2>2. ItemOf(d) \in Item /\ ItemOf(d).id = d /\ ItemOf(d).rev = server[d].rev
      BY <2>1, ItemOfType
    <2> QED BY <2>1, <2>2
  <1>5. Cardinality(Listed(v.filter)) \in Nat
    BY <1>2, FS_CardinalityType
  <1>6. Body("list", v).items = items /\ Body("list", v).total = Cardinality(Listed(v.filter))
    BY <1>1
  <1> HIDE DEF items
  <1> QED BY <1>4, <1>5, <1>6

\* The answer to a call on one document.
LEMMA OneBody ==
  ASSUME StateOK, NEW op \in OfOne, NEW d \in Docs
  PROVE  /\ Body(op, d) \in Item /\ Body(op, d).id = d
         /\ Body(op, d).rev = IF op \in Changing THEN server[d].rev + 1 ELSE server[d].rev
  <1>1. CASE op \in {"detail", "reload"}
    BY <1>1, ItemOfType DEF Body, Changing
  <1>2. CASE op \in {"save", "files", "resolve"}
    BY <1>2, ItemOfType DEF Body, Changing
  <1> QED BY <1>1, <1>2 DEF OfOne

LEMMA FailureIs == ~Failure.ok
  BY DEF Failure

LEMMA SuccessIs ==
  ASSUME NEW body
  PROVE  Success(body).ok /\ Success(body).body = body
  BY DEF Success

LEMMA ServeType ==
  ASSUME TypeInv, NEW i \in Slots, Serve(i)
  PROVE  /\ TypeInv' /\ AnsweredAt(i) /\ net'[i].arg = net[i].arg
         /\ net'[i].out.ok => net'[i].out = Success(Body(net[i].op, net[i].arg))
         /\ left'.patient = left.patient
  <1> DEFINE op == net[i].op
             arg == net[i].arg
  <1>1. Typed(net[i]) /\ IsOpen(net, i) /\ ~Many(op)
    BY OpenIs DEF Serve, TypeInv
  <1>2. PICK out \in {Failure, Success(Body(op, arg))} : net' = ComeBack(net, i, out)
    BY DEF Serve
  <1>3. /\ AnsweredAt(i)
        /\ net'[i].arg = arg /\ net'[i].back /\ net'[i].out = out
    BY <1>1, <1>2, SuccessIs, ComeBackDoes DEF TypeInv
  <1>4. net'[i].out.ok => net'[i].out = Success(Body(op, arg)) /\ net'[i].out.body = Body(op, arg)
    BY <1>2, <1>3, FailureIs, SuccessIs
  <1>5. net'[i].op = op
    BY <1>3 DEF AnsweredAt
  <1>6. Typed(net'[i])
    <2>1. op = "list" /\ net'[i].out.ok =>
             net'[i].out.body.items \subseteq Item /\ net'[i].out.body.total \in Nat
      BY <1>4, ListBody DEF TypeInv
    <2>2. op \in OfOne /\ net'[i].out.ok =>
             net'[i].out.body \in Item /\ net'[i].out.body.id = arg
      BY <1>1, <1>4, OneBody DEF TypeInv, Typed
    <2>3. op = "snapshot" /\ net'[i].out.ok => net'[i].out.body = arg
      BY <1>4 DEF Body
    <2> QED BY <1>1, <1>3, <1>5, <2>1, <2>2, <2>3 DEF Typed
  <1>7. server' \in [Docs -> [live : BOOLEAN, rev : Nat]]
    <2>1. op \in Changing \cup Removing => arg \in Docs
      BY <1>1 DEF Typed, Changing, Removing, OfOne
    <2>2. server' = IF op \in Changing \cup Removing /\ server[arg].live
                    THEN Written(op, arg) ELSE server
      BY DEF Serve
    <2>3. server \in [Docs -> [live : BOOLEAN, rev : Nat]]
      BY DEF TypeInv, StateOK
    <2> QED BY <2>1, <2>2, <2>3, WrittenType DEF TypeInv
  <1>8. left' \in Setting /\ left'.patient = left.patient
    <2>1. left \in Setting
      BY DEF TypeInv, StateOK
    <2>2. left' = left \/ (left.lost > 0 /\ left' = [left EXCEPT !.lost = @ - 1])
      BY DEF Serve
    <2> QED BY <2>1, <2>2, LeftIs
  <1>9. StateOK'
    BY <1>7, <1>8 DEF Serve, TypeInv, StateOK
  <1>10. CallsOK'
    BY <1>3, <1>6, AnsweredType DEF TypeInv
  <1> QED BY <1>3, <1>4, <1>8, <1>9, <1>10 DEF TypeInv

LEMMA RefuseType ==
  ASSUME TypeInv, NEW i \in Slots, Refuse(i)
  PROVE  /\ TypeInv' /\ AnsweredAt(i) /\ net'[i].arg = net[i].arg
         /\ net'[i].out = Failure
         /\ left'.patient = left.patient
  <1>1. Typed(net[i]) /\ IsOpen(net, i) /\ ~Many(net[i].op)
    BY OpenIs DEF Refuse, TypeInv
  <1>2. AnsweredAt(i) /\ net'[i].arg = net[i].arg /\ net'[i].back /\ net'[i].out = Failure
    BY <1>1, ComeBackDoes DEF Refuse, TypeInv
  <1>3. Typed(net'[i])
    BY <1>1, <1>2, FailureIs DEF Typed, AnsweredAt
  <1>4. left' \in Setting /\ left'.patient = left.patient
    <2>1. left \in Setting /\ left.errors > 0 /\ left' = [left EXCEPT !.errors = @ - 1]
      BY DEF Refuse, TypeInv, StateOK
    <2> QED BY <2>1, LeftIs
  <1>5. StateOK'
    BY <1>4 DEF Refuse, TypeInv, StateOK
  <1> QED BY <1>2, <1>3, <1>4, <1>5, AnsweredType DEF TypeInv

\* One call of a bulk action is settled: it has succeeded, and the server has done
\* it, or it counts as failed.
LEMMA ServeOneType ==
  ASSUME TypeInv, NEW i \in Slots, NEW d \in Docs, ServeOne(i, d)
  PROVE  /\ TypeInv' /\ AnsweredAt(i) /\ Many(net[i].op)
         /\ net[i].arg \in BulkArgument /\ net'[i].arg \in BulkArgument
         /\ net'[i].out = Failure
         /\ net'[i].arg.targets = net[i].arg.targets
         /\ net'[i].arg.todo = net[i].arg.todo \ {d}
         /\ \E op \in {"delete", "save"}, good \in BOOLEAN :
              /\ op = "delete" <=> net[i].op = "bulkDelete"
              /\ net'[i].arg.failed = IF good THEN net[i].arg.failed
                                      ELSE net[i].arg.failed \cup {d}
              /\ net'[i].arg.rev = [net[i].arg.rev EXCEPT
                                       ![d] = IF good THEN server[d].rev + 1 ELSE @]
              /\ server' = server \/ (server' = Written(op, d) /\ server[d].live)
              /\ good => server' = Written(op, d)
         /\ left'.patient = left.patient
  <1> DEFINE op == IF net[i].op = "bulkDelete" THEN "delete" ELSE "save"
             arg == net[i].arg
             done(good) == [arg EXCEPT !.todo = @ \ {d},
                                !.rev[d] = IF good THEN server[d].rev + 1 ELSE @,
                                !.failed = IF good THEN @ ELSE @ \cup {d}]
             to(good) == [net EXCEPT ![i].arg = done(good),
                                   ![i].back = (done(good).todo = {})]
  <1>1. /\ Typed(net[i]) /\ IsCall(net[i]) /\ net[i].out = Failure
        /\ IsOpen(net, i) /\ Many(net[i].op) /\ d \in arg.todo
    BY OpenIs DEF ServeOne, TypeInv
  <1>2. arg \in BulkArgument /\ arg.todo \cup arg.failed \subseteq arg.targets
    BY SMTT(60), <1>1 DEF Typed
  <1>3. PICK good \in BOOLEAN :
           /\ net' = to(good)
           /\ server' = server \/ (server' = Written(op, d) /\ server[d].live)
           /\ good => server' = Written(op, d)
    BY ZenonT(60) DEF ServeOne
  <1>4. server[d].rev + 1 \in Nat
    BY DEF TypeInv, StateOK
  <1>5. /\ done(good) \in BulkArgument
        /\ done(good).targets = arg.targets /\ done(good).todo = arg.todo \ {d}
        /\ done(good).failed = IF good THEN arg.failed ELSE arg.failed \cup {d}
        /\ done(good).rev = [arg.rev EXCEPT ![d] = IF good THEN server[d].rev + 1 ELSE @]
    <2> DEFINE rev == [arg.rev EXCEPT ![d] = IF good THEN server[d].rev + 1 ELSE @]
               failed == IF good THEN arg.failed ELSE arg.failed \cup {d}
    <2>1. rev \in [Docs -> Nat] /\ failed \in SUBSET Docs
      BY <1>2, <1>4 DEF BulkArgument
    <2>2. done(good) = [[[arg EXCEPT !.todo = arg.todo \ {d}] EXCEPT !.rev = rev]
                          EXCEPT !.failed = failed]
      BY <1>2 DEF BulkArgument
    <2> HIDE DEF rev, failed, done
    <2>3. /\ done(good) \in BulkArgument
          /\ done(good).targets = arg.targets /\ done(good).todo = arg.todo \ {d}
          /\ done(good).failed = failed /\ done(good).rev = rev
      BY <1>2, <2>1, <2>2 DEF BulkArgument
    <2> QED BY <2>3 DEF rev, failed
  <1> HIDE DEF done
  <1>6. /\ net' = [j \in Slots |-> net'[j]] /\ \A j \in Slots \ {i} : net'[j] = net[j]
        /\ net'[i] = [[net[i] EXCEPT !.arg = done(good)] EXCEPT !.back = (done(good).todo = {})]
    BY <1>1, <1>3 DEF TypeInv, CallsOK, Calls, IsCall
  <1> HIDE DEF to
  <1>7. /\ IsCall(net'[i]) /\ net'[i].op = net[i].op /\ net'[i].live = net[i].live
        /\ net'[i].arg = done(good) /\ (net'[i].back => done(good).todo = {})
        /\ net'[i].out = Failure
    <2> DEFINE c == net[i]
               k == net'[i]
               b == (done(good).todo = {})
    <2>1. IsCall(c) /\ c.out = Failure
      BY <1>1
    <2>2. k = [[c EXCEPT !.arg = done(good)] EXCEPT !.back = b]
      BY <1>6
    <2>3. b \in BOOLEAN
      OBVIOUS
    <2> HIDE DEF c, k, b
    <2>4. /\ IsCall(k) /\ k.op = c.op /\ k.live = c.live /\ k.out = Failure
          /\ k.arg = done(good) /\ k.back = b
      BY <2>1, <2>2, <2>3 DEF IsCall
    <2> QED BY <2>4 DEF c, k, b
  <1>8. AnsweredAt(i)
    <2>1. \A j \in Slots : net[j] = NoCall \/ IsCall(net[j])
      BY DEF TypeInv, CallsOK, Calls
    <2>2. Calls(net')
      BY <1>6, <1>7, <2>1 DEF Calls
    <2> QED BY <1>1, <1>6, <1>7, <2>2 DEF AnsweredAt
  <1>9. Typed(net'[i])
    <2>1. /\ net'[i].arg \in BulkArgument
          /\ net'[i].arg.todo \cup net'[i].arg.failed \subseteq net'[i].arg.targets
          /\ net'[i].back => net'[i].arg.todo = {}
      BY <1>1, <1>2, <1>5, <1>7
    <2>2. net'[i].op \in {"bulkDelete", "bulkReview"}
      BY <1>1, <1>7 DEF Many
    <2> QED BY <2>1, <2>2 DEF Typed, OfOne
  <1>10. CallsOK'
    BY <1>8, <1>9, AnsweredType DEF TypeInv
  <1>11. left' \in Setting /\ left'.patient = left.patient
    <2>1. \/ left' = left
          \/ left.lost > 0 /\ left' = [left EXCEPT !.lost = @ - 1]
          \/ left.errors > 0 /\ left' = [left EXCEPT !.errors = @ - 1]
      BY DEF ServeOne
    <2> QED BY <2>1, LeftIs DEF TypeInv, StateOK
  <1>12. server' \in [Docs -> [live : BOOLEAN, rev : Nat]]
    BY <1>3, WrittenType DEF TypeInv, StateOK
  <1>13. StateOK'
    BY <1>11, <1>12 DEF ServeOne, TypeInv, StateOK
  <1>14. /\ op \in {"delete", "save"} /\ op = "delete" <=> net[i].op = "bulkDelete"
         /\ net'[i].arg.failed = IF good THEN net[i].arg.failed
                                 ELSE net[i].arg.failed \cup {d}
         /\ net'[i].arg.rev = [net[i].arg.rev EXCEPT
                                  ![d] = IF good THEN server[d].rev + 1 ELSE @]
    BY <1>5, <1>7
  <1> QED BY <1>1, <1>2, <1>3, <1>5, <1>7, <1>8, <1>10, <1>11, <1>13, <1>14 DEF TypeInv

LEMMA ElsewhereType ==
  ASSUME TypeInv, NEW d \in Docs, Elsewhere(d)
  PROVE  /\ TypeInv' /\ left'.patient = left.patient
         /\ server[d].live /\ \E op \in {"save", "delete"} : server' = Written(op, d)
  <1>1. PICK op \in {"save", "delete"} : server' = Written(op, d)
    BY DEF Elsewhere
  <1>2. server' \in [Docs -> [live : BOOLEAN, rev : Nat]]
    BY <1>1, WrittenType DEF TypeInv
  <1>3. left' \in Setting /\ left'.patient = left.patient
    <2>1. left \in Setting
      BY DEF TypeInv, StateOK
    <2>2. left.others > 0 /\ left' = [left EXCEPT !.others = @ - 1]
      BY DEF Elsewhere
    <2> QED BY <2>1, <2>2 DEF Setting
  <1>4. CallsOK'
    BY DEF Elsewhere, TypeInv, CallsOK
  <1>5. StateOK'
    BY <1>2, <1>3 DEF Elsewhere, TypeInv, StateOK
  <1> QED BY <1>1, <1>3, <1>4, <1>5 DEF Elsewhere, TypeInv

-----------------------------------------------------------------------------
(* What a step of the page keeps, from the calls it sends and cancels.      *)

\* The calls of the kinds ops are old ones.
NoneNew(new, ops) == \A c \in new : c.op \notin ops

LEMMA LiveStay ==
  ASSUME NEW n, NEW m, NEW new, Calls(n), Only(n, m, new), NEW op, op # "none",
         NoneNew(new, {op}), NEW arg, LiveAreOf(n, op, arg)
  PROVE  LiveAreOf(m, op, arg)
  <1> SUFFICES ASSUME NEW i \in Slots, m[i].op = op, m[i].live
               PROVE  m[i].arg = arg
    BY DEF LiveAreOf
  <1>1. \A c \in new : c.op # m[i].op
    BY DEF NoneNew
  <1>2. m[i] = n[i]
    BY <1>1, OldCall
  <1> QED BY <1>2 DEF LiveAreOf

LEMMA CurrentStays ==
  ASSUME CallsOK, Current, NEW new, Only(net, net', new),
         \/ NoneNew(new, {"list"}) /\ view' = view /\ list'.loading = list.loading
         \/ OneLive(net', Fresh("list", view')) /\ list'.loading
         \/ NoLive(net', "list"),
         \/ NoneNew(new, {"detail"}) /\ selected' = selected
         \/ LiveAreOf(net', "detail", selected'),
         \/ NoneNew(new, {"history"}) /\ panel'.detail.id = panel.detail.id
         \/ LiveAreOf(net', "history", panel'.detail.id)
  PROVE  Current'
  <1>1. ListIsCurrent'
    <2>1. CASE NoneNew(new, {"list"}) /\ view' = view /\ list'.loading = list.loading
      <3>1. ASSUME NEW i \in Slots, net'[i].op = "list", net'[i].live
            PROVE  net'[i] = net[i]
        <4>1. \A c \in new : c.op # net'[i].op
          BY <2>1, <3>1 DEF NoneNew
        <4> QED BY <3>1, <4>1, OldCall DEF CallsOK
      <3> QED BY <2>1, <3>1 DEF ListIsCurrent, Current
    <2>2. CASE OneLive(net', Fresh("list", view')) /\ list'.loading
      BY <2>2, FreshIs DEF OneLive, ListIsCurrent
    <2>3. CASE NoLive(net', "list")
      BY <2>3 DEF NoLive, ListIsCurrent
    <2> QED BY <2>1, <2>2, <2>3
  <1>2. LiveAreOf(net', "detail", selected')
    BY LiveStay DEF Current, CallsOK
  <1>3. LiveAreOf(net', "history", panel'.detail.id)
    BY LiveStay DEF Current, CallsOK
  <1> QED BY <1>1, <1>2, <1>3 DEF Current

\* A new call has no answer yet, and a bulk call nothing that is settled.
Unanswered(new) ==
    \A c \in new : ~c.out.ok /\ (Many(c.op) => c.arg.targets = c.arg.todo)

LEMMA AnswersStay ==
  ASSUME CallsOK, AnswersAreTrue, NEW new, Only(net, net', new), Unanswered(new),
         server' = server, own' = own \/ OneLive(net', Fresh("list", view))
  PROVE  AnswersAreTrue'
  <1> SUFFICES ASSUME NEW i \in Slots PROVE Honest(net[i])'
    BY DEF AnswersAreTrue
  <1>1. CASE net'[i].op = "none"
    BY <1>1 DEF Honest, OfOne, Removing, Many
  <1>2. CASE net'[i].op # "none"
    <2>1. PICK c \in {net[i]} \cup new :
             /\ net'[i].op = c.op /\ net'[i].arg = c.arg
             /\ net'[i].back = c.back /\ net'[i].out = c.out
             /\ net'[i].live => net'[i] = c
      BY <1>2, OldOrNew DEF CallsOK
    <2>2. CASE c \in new
      BY <2>1, <2>2 DEF Unanswered, Honest
    <2>3. CASE c = net[i]
      <3>1. Honest(net[i])
        BY DEF AnswersAreTrue
      <3>2. /\ net'[i].op = net[i].op /\ net'[i].arg = net[i].arg
            /\ net'[i].back = net[i].back /\ net'[i].out = net[i].out
            /\ net'[i].live => net[i].live
        BY <2>1, <2>3
      <3>3. ASSUME net'[i].op = "list", net'[i].live, net'[i].out.ok
            PROVE  Shows(net[i].out.body.items)'
        <4>1. CASE own' = own
          BY <3>1, <3>2, <3>3, <4>1 DEF Honest, Shows
        <4>2. CASE OneLive(net', Fresh("list", view))
          BY <3>3, <4>2, FreshIs, FailureIs DEF OneLive
        <4> QED BY <4>1, <4>2
      <3> QED BY <3>1, <3>2, <3>3 DEF Honest
    <2> QED BY <2>1, <2>2, <2>3
  <1> QED BY <1>1, <1>2

LEMMA HandlerStays ==
  ASSUME CallsOK, OneHandler, NEW new, Only(net, net', new), NoneNew(new, ModalOps),
         panel'.busy = panel.busy
  PROVE  OneHandler'
  <1>1. ASSUME NEW i \in Slots, net'[i].op \in ModalOps PROVE net'[i].op = net[i].op
    <2>1. net'[i].op # "none" /\ \A c \in new : c.op # net'[i].op
      BY <1>1 DEF NoneNew, ModalOps
    <2> QED BY <2>1, OldCall DEF CallsOK
  <1> QED BY <1>1 DEF OneHandler

\* The modal's handler has ended.
LEMMA HandlerEnds ==
  ASSUME CallsOK, OneHandler, NEW new, Only(net, net', new), NoneNew(new, ModalOps),
         NEW i \in Slots, net[i].op \in ModalOps, net'[i].op \notin ModalOps
  PROVE  OneHandler' /\ \A j \in Slots : net'[j].op \notin ModalOps
  <1>1. ASSUME NEW j \in Slots, net'[j].op \in ModalOps PROVE net'[j].op = net[j].op
    <2>1. net'[j].op # "none" /\ \A c \in new : c.op # net'[j].op
      BY <1>1 DEF NoneNew, ModalOps
    <2> QED BY <2>1, OldCall DEF CallsOK
  <1> QED BY <1>1 DEF OneHandler

LEMMA ToldStays ==
  ASSUME CallsOK, Told, NEW new, Only(net, net', new), Unanswered(new),
         server' = server, own' = own, list'.items = list.items,
         list'.loading \/ list'.loading = list.loading
  PROVE  Told'
  <1>1. AnswersAreTrue'
    BY AnswersStay DEF Told
  <1>2. OwnIsTrue' /\ OwnChangesShown'
    BY DEF Told, OwnIsTrue, OwnChangesShown
  <1> QED BY <1>1, <1>2 DEF Told

NoBulk(n) == \A i \in Slots : n[i].op \notin BulkOps

\* While no handler of the list starts, and its documents stay.
LEMMA ListPatience ==
  ASSUME CallsOK, PatientList, NEW new, Only(net, net', new), NoneNew(new, BulkOps),
         panel'.busy => panel'.open, bulk.busy => ~panel'.open,
         bulk'.busy = bulk.busy, bulk'.chosen = bulk.chosen,
         list'.items = list.items, list'.loading = list.loading
  PROVE  PatientList'
  <1>1. ASSUME NEW i \in Slots, net'[i].op \in BulkOps
        PROVE  net'[i].op = net[i].op /\ net'[i].arg = net[i].arg
    <2>1. net'[i].op # "none" /\ \A c \in new : c.op # net'[i].op
      BY <1>1 DEF NoneNew, BulkOps
    <2> QED BY <2>1, OldCall DEF CallsOK
  <1> QED BY <1>1 DEF PatientList

\* While the list is on its way no handler of it is at work.
LEMMA ReloadPatience ==
  ASSUME panel'.busy => panel'.open, ~bulk'.busy, list'.loading, NoBulk(net')
  PROVE  PatientList'
  BY DEF PatientList, NoBulk

LEMMA NoBulkStays ==
  ASSUME CallsOK, NoBulk(net), NEW new, Only(net, net', new), NoneNew(new, BulkOps)
  PROVE  NoBulk(net')
  <1> SUFFICES ASSUME NEW i \in Slots, net'[i].op \in BulkOps PROVE FALSE
    BY DEF NoBulk
  <1>1. net'[i].op # "none" /\ \A c \in new : c.op # net'[i].op
    BY DEF NoneNew, BulkOps
  <1> QED BY <1>1, OldCall DEF CallsOK, NoBulk

LEMMA BulkEnds ==
  ASSUME CallsOK, PatientList, NEW new, Only(net, net', new), NoneNew(new, BulkOps),
         NEW i \in Slots, net[i].op \in BulkOps, net'[i].op \notin BulkOps
  PROVE  NoBulk(net')
  <1> SUFFICES ASSUME NEW j \in Slots, net'[j].op \in BulkOps PROVE FALSE
    BY DEF NoBulk
  <1>1. net'[j].op # "none" /\ \A c \in new : c.op # net'[j].op
    BY DEF NoneNew, BulkOps
  <1>2. net[j].op \in BulkOps
    BY <1>1, OldCall DEF CallsOK
  <1> QED BY <1>2 DEF PatientList

\* While no handler of the modal starts and the selection stays or goes.
LEMMA DetailPatience ==
  ASSUME CallsOK, PatientDetail, NEW new, Only(net, net', new),
         NoneNew(new, ModalOps \cup {"snapshot"}),
         selected' \in {selected, NoDoc}, snapshot'.loading = snapshot.loading,
         selected' # NoDoc /\ ~panel'.loading /\ panel'.detail # NoDetail =>
             panel'.detail.id = selected' /\ snapshot'.of \in {NoDoc, selected'}
  PROVE  PatientDetail'
  <1>1. ASSUME NEW i \in Slots, net'[i].op \in ModalOps \cup {"snapshot"}
        PROVE  net'[i].op = net[i].op /\ net'[i].arg = net[i].arg
    <2>1. net'[i].op # "none" /\ \A c \in new : c.op # net'[i].op
      BY <1>1 DEF NoneNew, ModalOps
    <2> QED BY <2>1, OldCall DEF CallsOK
  <1> QED BY <1>1 DEF PatientDetail

LEMMA NoneNewEmpty == ASSUME NEW ops PROVE NoneNew({}, ops) /\ Unanswered({})
  BY DEF NoneNew, Unanswered

LEMMA NoneNewFresh ==
  ASSUME NEW op, op # "none", NEW arg, NEW ops, op \notin ops
  PROVE  NoneNew({Fresh(op, arg)}, ops)
  BY FreshIs DEF NoneNew

LEMMA FreshUnanswered ==
  ASSUME NEW op, op # "none", ~Many(op), NEW arg
  PROVE  Unanswered({Fresh(op, arg)})
  BY FreshIs, FailureIs DEF Unanswered

LEMMA NewCallsAre ==
  ASSUME NEW v, NEW d
  PROVE  /\ Unanswered(NewCalls(v, d))
         /\ NoneNew(NewCalls(v, d), ModalOps \cup BulkOps \cup {"detail", "snapshot"})
  BY FreshIs, FailureIs DEF Unanswered, NewCalls, NoneNew, ModalOps, BulkOps, Many

LEMMA LoadsAre ==
  ASSUME NEW d
  PROVE  /\ Unanswered(Loads(d))
         /\ NoneNew(Loads(d), ModalOps \cup BulkOps \cup {"list", "history", "snapshot"})
  BY FreshIs, FailureIs DEF Unanswered, Loads, NoneNew, ModalOps, BulkOps, Many

\* The handlers that change the panel only.
LEMMA PanelOnlyInv ==
  ASSUME Inv, CloseModal \/ Edit \/ ResetEditor
  PROVE  Inv'
  <1>1. TypeInv'
    BY PanelOnlyType DEF Inv
  <1>2. /\ UNCHANGED <<net, server, view, list, selected, history, snapshot, bulk, own>>
        /\ left' = Spent
        /\ panel'.detail = panel.detail /\ panel'.loading = panel.loading
        /\ panel'.busy = panel.busy
        /\ panel'.open => panel.open
        /\ left.patient => ~panel.busy \/ panel'.open = panel.open
    BY ZenonT(60) DEF CloseModal, Edit, ResetEditor, Leaves, Waiting, Inv, TypeInv, StateOK, Panel
  <1>3. left'.patient = left.patient
    BY <1>2, SpentIs DEF CloseModal, Edit, ResetEditor, Leaves, Acts, Inv, TypeInv, StateOK
  <1>4. CallsOK /\ Only(net, net', {})
    BY <1>2, OnlySelf DEF Inv, TypeInv, CallsOK
  <1>5. Asked'
    <2>1. Current'
      BY <1>2, <1>4, NoneNewEmpty, CurrentStays DEF Inv, Asked
    <2> QED BY <1>2, <2>1 DEF Inv, Asked, ListIsOfView, HistoryIsOfDetail
  <1>6. Told'
    BY <1>2, <1>4, NoneNewEmpty, ToldStays DEF Inv
  <1>7. OneHandler'
    BY <1>2, <1>4, NoneNewEmpty, HandlerStays DEF Inv
  <1>8. ASSUME left.patient PROVE PatientList' /\ PatientDetail'
    <2>1. PatientList /\ PatientDetail
      BY <1>8 DEF Inv, Patient
    <2>2. PatientList'
      BY <1>2, <1>4, <1>8, <2>1, NoneNewEmpty, ListPatience DEF PatientList
    <2>3. PatientDetail'
      BY <1>2, <1>4, <2>1, NoneNewEmpty, DetailPatience DEF PatientDetail
    <2> QED BY <2>2, <2>3
  <1> QED BY <1>1, <1>3, <1>5, <1>6, <1>7, <1>8 DEF Inv, Patient

LEMMA ChooseInv ==
  ASSUME Inv, NEW S \in SUBSET Docs, Choose(S)
  PROVE  Inv'
  <1>1. TypeInv'
    BY ChooseType DEF Inv
  <1>2. /\ UNCHANGED <<net, server, view, list, selected, panel, history, snapshot, own>>
        /\ bulk'.busy = bulk.busy /\ bulk'.chosen = S /\ ~list.loading
        /\ left' = Spent
    BY DEF Choose, ListShown, Inv, TypeInv, StateOK
  <1>3. left'.patient = left.patient
    BY <1>2, SpentIs DEF Choose, Acts, Inv, TypeInv, StateOK
  <1>4. CallsOK /\ Only(net, net', {})
    BY <1>2, OnlySelf DEF Inv, TypeInv, CallsOK
  <1>5. Asked'
    <2>1. Current'
      BY <1>2, <1>4, NoneNewEmpty, CurrentStays DEF Inv, Asked
    <2> QED BY <1>2, <2>1 DEF Inv, Asked, ListIsOfView, HistoryIsOfDetail
  <1>6. Told'
    BY <1>2, <1>4, NoneNewEmpty, ToldStays DEF Inv
  <1>7. OneHandler'
    BY <1>2, <1>4, NoneNewEmpty, HandlerStays DEF Inv
  <1>8. ASSUME left.patient PROVE PatientList' /\ PatientDetail'
    <2>1. PatientList /\ PatientDetail
      BY <1>8 DEF Inv, Patient
    <2>2. S \subseteq Ids(list.items)
      BY <1>2, <2>1 DEF Choose, PatientList
    <2>3. PatientList'
      BY <1>2, <2>1, <2>2 DEF PatientList
    <2>4. PatientDetail'
      BY <1>2, <1>4, <2>1, NoneNewEmpty, DetailPatience DEF PatientDetail
    <2> QED BY <2>3, <2>4
  <1> QED BY <1>1, <1>3, <1>5, <1>6, <1>7, <1>8 DEF Inv, Patient

LEMMA ToViewInv ==
  ASSUME Inv, NEW v \in Views, NEW chosen \in SUBSET Docs, CanChangeView, ToView(v, chosen)
  PROVE  Inv'
  <1>1. TypeInv'
    BY ToViewType DEF Inv
  <1>2. /\ UNCHANGED <<server, selected, panel, history, snapshot, own>>
        /\ view' = v /\ bulk'.busy = bulk.busy
        /\ list'.loading /\ list'.items = list.items
        /\ left' = Spent
    BY DEF ToView, Reloading, Inv, TypeInv, StateOK
  <1>3. left'.patient = left.patient /\ (left.patient => ~panel.busy /\ ~bulk.busy)
    BY <1>2, SpentIs DEF CanChangeView, Leaves, Acts, Waiting, Inv, TypeInv, StateOK
  <1>4. /\ CallsOK /\ Only(net, net', {Fresh("list", v)})
        /\ OneLive(net', Fresh("list", v))
    BY Room, ToViewCalls DEF CanChangeView, Inv, TypeInv, CallsOK
  <1>5. /\ Unanswered({Fresh("list", v)})
        /\ NoneNew({Fresh("list", v)}, ModalOps \cup BulkOps \cup {"detail", "history", "snapshot"})
    BY NoneNewFresh, FreshUnanswered DEF ModalOps, BulkOps, Many
  <1>6. Asked'
    <2>1. Current'
      BY <1>2, <1>4, <1>5, CurrentStays DEF Inv, Asked, NoneNew
    <2> QED BY <1>2, <2>1 DEF Inv, Asked, ListIsOfView, HistoryIsOfDetail
  <1>7. Told'
    BY <1>2, <1>4, <1>5, ToldStays DEF Inv
  <1>8. OneHandler'
    BY <1>2, <1>4, <1>5, HandlerStays DEF Inv, NoneNew
  <1>9. ASSUME left.patient PROVE PatientList' /\ PatientDetail'
    <2>1. PatientList /\ PatientDetail
      BY <1>9 DEF Inv, Patient
    <2>2. NoBulk(net')
      BY <1>3, <1>4, <1>5, <1>9, <2>1, NoBulkStays DEF PatientList, NoBulk, NoneNew
    <2>3. PatientList'
      BY <1>2, <1>3, <1>9, <2>2, ReloadPatience
    <2>4. PatientDetail'
      BY <1>2, <1>4, <1>5, <2>1, DetailPatience DEF PatientDetail, NoneNew
    <2> QED BY <2>3, <2>4
  <1> QED BY <1>1, <1>3, <1>6, <1>7, <1>8, <1>9 DEF Inv, Patient

\* The tree, the filters, the presets and the page buttons.
LEMMA ViewInv ==
  ASSUME Inv, \/ \E f \in Filters : ChangeFilter(f)
              \/ ClearFilters
              \/ \E p \in 1 .. Cardinality(Docs) : TurnPage(p)
  PROVE  Inv'
  <1>1. view \in Views /\ bulk.chosen \in SUBSET Docs
    BY DEF Inv, TypeInv, StateOK
  <1>2. ASSUME NEW f \in Filters, ChangeFilter(f) PROVE Inv'
    <2>1. [filter |-> f, page |-> 1] \in Views
      BY DEF Views
    <2> QED BY <1>1, <1>2, <2>1, ToViewInv DEF ChangeFilter
  <1>3. ASSUME ClearFilters PROVE Inv'
    <2>1. [filter |-> NoFilter, page |-> 1] \in Views
      BY FiltersAssumption DEF Views
    <2> QED BY <1>3, <2>1, ToViewInv DEF ClearFilters
  <1>4. ASSUME NEW p \in 1 .. Cardinality(Docs), TurnPage(p) PROVE Inv'
    <2>1. p \in Nat \ {0}
      BY <1>4, <1>1 DEF TurnPage, Views
    <2>2. [view EXCEPT !.page = p] \in Views
      BY <1>1, <2>1 DEF Views
    <2> QED BY <1>1, <1>4, <2>2, ToViewInv DEF TurnPage
  <1> QED BY <1>2, <1>3, <1>4

NoneOf(n, ops) == \A i \in Slots : n[i].op \notin ops

LEMMA NoneStays ==
  ASSUME CallsOK, NEW ops, "none" \notin ops, NoneOf(net, ops),
         NEW new, Only(net, net', new), NoneNew(new, ops)
  PROVE  NoneOf(net', ops)
  <1> SUFFICES ASSUME NEW i \in Slots, net'[i].op \in ops PROVE FALSE
    BY DEF NoneOf
  <1>1. net'[i].op # "none" /\ \A c \in new : c.op # net'[i].op
    BY DEF NoneNew
  <1> QED BY <1>1, OldCall DEF CallsOK, NoneOf

LEMMA OpenInv ==
  ASSUME Inv, NEW d \in Docs, Open(d) \/ ArrowKey(d)
  PROVE  Inv'
  <1>1. TypeInv'
    BY OpenType DEF Inv
  <1>2. d # NoDoc
    BY DocsAssumption
  <1>3. PICK p \in {panel, [panel EXCEPT !.open = TRUE]} : SelectIn(net, p, d)
    BY DEF Open, ArrowKey
  <1>4. /\ p.detail = panel.detail /\ p.busy = panel.busy /\ p.loading = panel.loading
        /\ p \in Panel /\ (panel.open => p.open)
    BY <1>3 DEF Inv, TypeInv, StateOK, Panel
  <1>5. /\ UNCHANGED <<server, view, list, history, snapshot, bulk, own>>
        /\ selected' = d /\ left' = Spent
        /\ panel' = IF d = selected THEN p ELSE [p EXCEPT !.loading = TRUE, !.error = FALSE]
    BY <1>2, <1>3 DEF Open, ArrowKey, SelectIn, PanelFor, HistoryFor, SnapshotFor
  <1>6. /\ panel'.detail = panel.detail /\ panel'.busy = panel.busy
        /\ panel.open => panel'.open
        /\ IF d = selected THEN panel'.loading = panel.loading ELSE panel'.loading
    BY <1>4, <1>5 DEF Panel
  <1>7. /\ left'.patient = left.patient
        /\ left.patient => ~panel.busy /\ ~bulk.busy /\ ~snapshot.loading
    BY <1>5, SpentIs DEF Open, ArrowKey, Leaves, Acts, Waiting, Inv, TypeInv, StateOK
  <1>8. /\ CallsOK /\ Only(net, net', Loads(d))
        /\ d # selected => LiveAreOf(net', "detail", d)
    BY <1>3, Room, SelectCalls DEF Open, ArrowKey, Inv, TypeInv, CallsOK
  <1>9. /\ Unanswered(Loads(d))
        /\ NoneNew(Loads(d), ModalOps \cup BulkOps \cup {"list", "history", "snapshot"})
        /\ d = selected => NoneNew(Loads(d), {"detail"})
    BY LoadsAre DEF Loads, NoneNew
  <1>10. Asked'
    <2>1. Current'
      BY <1>5, <1>6, <1>8, <1>9, CurrentStays DEF Inv, Asked, NoneNew
    <2> QED BY <1>5, <1>6, <2>1 DEF Inv, Asked, ListIsOfView, HistoryIsOfDetail
  <1>11. Told'
    BY <1>5, <1>8, <1>9, ToldStays DEF Inv
  <1>12. OneHandler'
    BY <1>6, <1>8, <1>9, HandlerStays DEF Inv, NoneNew
  <1>13. ASSUME left.patient PROVE PatientList' /\ PatientDetail'
    <2>1. PatientList /\ PatientDetail
      BY <1>13 DEF Inv, Patient
    <2>2. PatientList'
      BY <1>5, <1>6, <1>7, <1>8, <1>9, <1>13, <2>1, ListPatience DEF NoneNew
    <2>3. NoneOf(net, ModalOps \cup {"snapshot"})
      BY <1>7, <1>13, <2>1 DEF Inv, OneHandler, PatientDetail, NoneOf
    <2>4. NoneOf(net', ModalOps \cup {"snapshot"})
      BY <1>8, <1>9, <2>3, NoneStays DEF NoneNew, ModalOps
    <2>5. PatientDetail'
      BY <1>2, <1>5, <1>6, <2>1, <2>4 DEF PatientDetail, NoneOf
    <2> QED BY <2>2, <2>5
  <1> QED BY <1>1, <1>7, <1>10, <1>11, <1>12, <1>13 DEF Inv, Patient

\* The handlers that send a call: it is the only one of its kind.
LEMMA SentIsOne ==
  ASSUME NEW n, NEW m, NEW c, Sent(n, m, c), NEW ops, c.op \in ops, "none" \notin ops,
         NoneOf(n, ops)
  PROVE  \A i \in Slots : m[i].op \in ops =>
            m[i] = c /\ \A j \in Slots : m[j].op \in ops => j = i
  BY DEF Sent, NoneOf, FreeSlots

LEMMA AskInv ==
  ASSUME Inv, NEW op \in {"save", "files", "resolve", "delete"}, Ask(op)
  PROVE  Inv'
  <1> DEFINE d == panel.detail.id
             new == {Fresh(op, d)}
  <1>1. TypeInv' /\ CallsOK /\ Only(net, net', new)
    BY AskType DEF Inv, TypeInv
  <1>2. /\ UNCHANGED <<server, view, list, selected, history, snapshot, bulk, own>>
        /\ panel'.detail = panel.detail /\ panel'.loading = panel.loading
        /\ panel'.open = panel.open /\ panel'.busy
        /\ panel.open /\ ~panel.busy /\ ~panel.loading /\ panel.detail # NoDetail
        /\ left' = Spent
    BY DEF Ask, CanAct, DetailShown, Inv, TypeInv, StateOK, Panel
  <1>3. left'.patient = left.patient
    BY <1>2, SpentIs DEF Ask, Acts, Inv, TypeInv, StateOK
  <1>4. Sent(net, net', Fresh(op, d))
    BY <1>1, Room, SendDoes DEF Ask, CallsOK
  <1>5. Fresh(op, d).op = op /\ Fresh(op, d).arg = d /\ op \in ModalOps
    BY FreshIs DEF ModalOps
  <1>6. /\ Unanswered(new)
        /\ NoneNew(new, BulkOps \cup {"list", "detail", "history", "snapshot"})
    BY NoneNewFresh, FreshUnanswered DEF BulkOps, Many
  <1> HIDE DEF new
  <1>7. NoneOf(net, ModalOps)
    BY <1>2 DEF Inv, OneHandler, NoneOf
  <1>8. \A i \in Slots : net'[i].op \in ModalOps =>
           net'[i].arg = d /\ \A j \in Slots : net'[j].op \in ModalOps => j = i
    BY <1>4, <1>5, <1>7, SentIsOne DEF ModalOps
  <1>9. Asked'
    <2>1. Current'
      BY <1>1, <1>2, <1>6, CurrentStays DEF Inv, Asked, NoneNew
    <2> QED BY <1>2, <2>1 DEF Inv, Asked, ListIsOfView, HistoryIsOfDetail
  <1>10. Told'
    BY <1>1, <1>2, <1>6, ToldStays DEF Inv
  <1>11. OneHandler'
    BY <1>2, <1>8 DEF OneHandler
  <1>12. ASSUME left.patient PROVE PatientList' /\ PatientDetail'
    <2>1. PatientList /\ PatientDetail
      BY <1>12 DEF Inv, Patient
    <2>2. PatientList'
      BY <1>1, <1>2, <1>6, <2>1, ListPatience DEF PatientList, NoneNew
    <2>3. \A i \in Slots : net'[i].op = "snapshot" =>
             net[i].op = "snapshot" /\ net'[i].arg = net[i].arg
      BY <1>1, <1>6, OldCall DEF NoneNew, CallsOK
    <2>4. selected # NoDoc => d = selected
      BY <1>2, <2>1 DEF PatientDetail
    <2>5. PatientDetail'
      BY <1>2, <1>8, <2>1, <2>3, <2>4 DEF PatientDetail
    <2> QED BY <2>2, <2>5
  <1> QED BY <1>1, <1>3, <1>9, <1>10, <1>11, <1>12 DEF Inv, Patient

LEMMA LoadSnapshotInv ==
  ASSUME Inv, NEW number \in 1 .. panel.detail.rev, LoadSnapshot(number)
  PROVE  Inv'
  <1> DEFINE arg == [id |-> panel.detail.id, number |-> number]
             new == {Fresh("snapshot", arg)}
  <1>1. TypeInv' /\ CallsOK /\ Only(net, net', new)
    BY LoadSnapshotType DEF Inv, TypeInv
  <1>2. /\ UNCHANGED <<server, view, list, selected, panel, history, bulk, own>>
        /\ snapshot'.loading /\ snapshot'.of = snapshot.of
        /\ ~panel.loading /\ panel.detail # NoDetail
        /\ left.patient => ~snapshot.loading
        /\ left' = Spent
    BY DEF LoadSnapshot, DetailShown, Inv, TypeInv, StateOK
  <1>3. left'.patient = left.patient
    BY <1>2, SpentIs DEF LoadSnapshot, Acts, Inv, TypeInv, StateOK
  <1>4. Sent(net, net', Fresh("snapshot", arg))
    BY <1>1, Room, SendDoes DEF LoadSnapshot, CallsOK
  <1>5. /\ Fresh("snapshot", arg).op = "snapshot" /\ Fresh("snapshot", arg).arg = arg
        /\ arg.id = panel.detail.id
    BY FreshIs
  <1>6. /\ Unanswered(new)
        /\ NoneNew(new, ModalOps \cup BulkOps \cup {"list", "detail", "history"})
    BY NoneNewFresh, FreshUnanswered DEF ModalOps, BulkOps, Many
  <1> HIDE DEF new, arg
  <1>7. Asked'
    <2>1. Current'
      BY <1>1, <1>2, <1>6, CurrentStays DEF Inv, Asked, NoneNew
    <2> QED BY <1>2, <2>1 DEF Inv, Asked, ListIsOfView, HistoryIsOfDetail
  <1>8. Told'
    BY <1>1, <1>2, <1>6, ToldStays DEF Inv
  <1>9. OneHandler'
    BY <1>1, <1>2, <1>6, HandlerStays DEF Inv, NoneNew
  <1>10. ASSUME left.patient PROVE PatientList' /\ PatientDetail'
    <2>1. PatientList /\ PatientDetail
      BY <1>10 DEF Inv, Patient
    <2>2. PatientList'
      BY <1>1, <1>2, <1>6, <2>1, ListPatience DEF PatientList, NoneNew
    <2>3. NoneOf(net, {"snapshot"})
      BY <1>2, <1>10, <2>1 DEF PatientDetail, NoneOf
    <2>4. \A i \in Slots : net'[i].op \in {"snapshot"} =>
             net'[i].arg = arg /\ \A j \in Slots : net'[j].op \in {"snapshot"} => j = i
      BY <1>4, <1>5, <2>3, SentIsOne
    <2>5. \A i \in Slots : net'[i].op \in ModalOps =>
             net[i].op \in ModalOps /\ net'[i].arg = net[i].arg
      BY <1>1, <1>6, OldCall DEF NoneNew, CallsOK, ModalOps
    <2>6. selected # NoDoc => panel.detail.id = selected
      BY <1>2, <2>1 DEF PatientDetail
    <2>7. PatientDetail'
      BY <1>2, <1>5, <2>1, <2>4, <2>5, <2>6 DEF PatientDetail
    <2> QED BY <2>2, <2>7
  <1> QED BY <1>1, <1>3, <1>7, <1>8, <1>9, <1>10 DEF Inv, Patient

\* A handler of the list starts. With a patient user the list is there, the modal
\* is closed, and no other handler of it is at work.
LEMMA BulkStarts ==
  ASSUME Inv, NEW op \in BulkOps, NEW arg,
         TypeInv', Only(net, net', {Fresh(op, arg)}), Sent(net, net', Fresh(op, arg)),
         UNCHANGED <<server, view, list, selected, panel, history, snapshot, own>>,
         bulk'.chosen = bulk.chosen, bulk'.busy, left'.patient = left.patient,
         ~panel.open, left.patient => ~bulk.busy /\ ~list.loading,
         Many(op) => arg.targets = arg.todo /\ arg.targets = bulk.chosen
  PROVE  Inv'
  <1> DEFINE c == Fresh(op, arg)
  <1>1. CallsOK
    BY DEF Inv, TypeInv
  <1>2. c.op = op /\ c.arg = arg /\ ~c.out.ok
    BY FreshIs, FailureIs DEF BulkOps
  <1> HIDE DEF c
  <1>3. /\ Unanswered({c}) /\ Only(net, net', {c}) /\ Sent(net, net', c)
        /\ NoneNew({c}, ModalOps \cup {"list", "detail", "history", "snapshot"})
    BY <1>2 DEF Unanswered, NoneNew, BulkOps, ModalOps, c
  <1>4. Asked'
    <2>1. Current'
      BY <1>1, <1>3, CurrentStays DEF Inv, Asked, NoneNew
    <2> QED BY <2>1 DEF Inv, Asked, ListIsOfView, HistoryIsOfDetail
  <1>5. Told'
    BY <1>1, <1>3, ToldStays DEF Inv
  <1>6. OneHandler'
    BY <1>1, <1>3, HandlerStays DEF Inv, NoneNew
  <1>7. ASSUME left.patient PROVE PatientList' /\ PatientDetail'
    <2>1. PatientList /\ PatientDetail
      BY <1>7 DEF Inv, Patient
    <2>2. NoneOf(net, BulkOps)
      BY <1>7, <2>1 DEF PatientList, NoneOf
    <2>3. \A i \in Slots : net'[i].op \in BulkOps =>
             net'[i] = c /\ \A j \in Slots : net'[j].op \in BulkOps => j = i
      BY <1>2, <1>3, <2>2, SentIsOne DEF BulkOps
    <2>4. PatientList'
      BY <1>2, <1>7, <2>1, <2>3 DEF PatientList
    <2>5. PatientDetail'
      BY <1>1, <1>3, <2>1, DetailPatience DEF PatientDetail, NoneNew
    <2> QED BY <2>4, <2>5
  <1> QED BY <1>4, <1>5, <1>6, <1>7 DEF Inv, Patient

LEMMA AskBulkInv ==
  ASSUME Inv, NEW op \in {"bulkDelete", "bulkReview"}, AskBulk(op)
  PROVE  Inv'
  <1>1. TypeInv' /\ Only(net, net', {Fresh(op, BulkStart)})
    BY AskBulkType DEF Inv
  <1>2. Sent(net, net', Fresh(op, BulkStart))
    BY Room, SendDoes DEF AskBulk, BulkStart, Inv, TypeInv, CallsOK
  <1>3. left'.patient = left.patient
    BY SpentIs DEF AskBulk, Acts, Inv, TypeInv, StateOK
  <1>4. BulkStart.targets = bulk.chosen /\ BulkStart.todo = bulk.chosen
    BY DEF BulkStart
  <1> QED BY <1>1, <1>2, <1>3, <1>4, BulkStarts DEF AskBulk, BulkOps, Inv, TypeInv, StateOK

LEMMA DeleteKeyInv ==
  ASSUME Inv, DeleteKey
  PROVE  Inv'
  <1>1. TypeInv' /\ Only(net, net', {Fresh("deleteKey", selected)})
    BY DeleteKeyType DEF Inv
  <1>2. Sent(net, net', Fresh("deleteKey", selected))
    BY Room, SendDoes DEF DeleteKey, Inv, TypeInv, CallsOK
  <1>3. left'.patient = left.patient /\ (left.patient => ~bulk.busy)
    BY SpentIs DEF DeleteKey, Leaves, Acts, Waiting, Inv, TypeInv, StateOK
  <1> QED BY <1>1, <1>2, <1>3, BulkStarts
          DEF DeleteKey, BulkOps, Many, Inv, TypeInv, StateOK

-----------------------------------------------------------------------------
(* What the answers keep.                                                   *)

LEMMA LateInv ==
  ASSUME Inv, NEW i \in Slots, Late(i) \/ OnHistory(i)
  PROVE  Inv'
  <1>1. TypeInv' /\ Only(net, net', {}) /\ CallsOK
    BY SettlesType, SettleType DEF Inv, TypeInv, Late, OnHistory
  <1>2. UNCHANGED <<server, view, list, selected, panel, snapshot, bulk, own, left>>
    BY DEF Late, OnHistory
  <1>3. HistoryIsOfDetail'
    <2>1. CASE Late(i)
      BY <2>1 DEF Late, Inv, Asked, HistoryIsOfDetail
    <2>2. CASE OnHistory(i)
      <3>1. net[i].arg = panel.detail.id
        BY <2>2 DEF OnHistory, Inv, Asked, Current, LiveAreOf
      <3> QED BY <1>2, <2>2, <3>1 DEF OnHistory, HistoryIsOfDetail
    <2> QED BY <2>1, <2>2
  <1>4. Asked'
    <2>1. Current'
      BY <1>1, <1>2, NoneNewEmpty, CurrentStays DEF Inv, Asked
    <2> QED BY <1>2, <1>3, <2>1 DEF Inv, Asked, ListIsOfView
  <1>5. Told'
    BY <1>1, <1>2, NoneNewEmpty, ToldStays DEF Inv
  <1>6. OneHandler'
    BY <1>1, <1>2, NoneNewEmpty, HandlerStays DEF Inv
  <1>7. ASSUME left.patient PROVE PatientList' /\ PatientDetail'
    <2>1. PatientList /\ PatientDetail
      BY <1>7 DEF Inv, Patient
    <2>2. PatientList'
      BY <1>1, <1>2, <2>1, NoneNewEmpty, ListPatience DEF PatientList
    <2>3. PatientDetail'
      BY <1>1, <1>2, <2>1, NoneNewEmpty, DetailPatience DEF PatientDetail
    <2> QED BY <2>2, <2>3
  <1> QED BY <1>1, <1>2, <1>4, <1>5, <1>6, <1>7 DEF Inv, Patient

LEMMA OnSnapshotInv ==
  ASSUME Inv, NEW i \in Slots, OnSnapshot(i)
  PROVE  Inv'
  <1>1. TypeInv' /\ Only(net, net', {}) /\ CallsOK /\ net'[i].op = "none"
    BY SettlesType, SettleType DEF Inv, TypeInv, OnSnapshot
  <1>2. UNCHANGED <<server, view, list, selected, panel, history, bulk, own, left>>
    BY DEF OnSnapshot
  <1>3. /\ net[i].op = "snapshot"
        /\ snapshot'.of \in {NoDoc, net[i].arg.id}
    <2> DEFINE doc == IF net[i].out.ok THEN net[i].out.body.id ELSE NoDoc
               number == IF net[i].out.ok THEN net[i].out.body.number ELSE 0
    <2>1. IsBack(net, i) /\ net[i].op = "snapshot"
      BY DEF OnSnapshot
    <2>2. snapshot' = [snapshot EXCEPT !.loading = FALSE, !.of = doc, !.number = number]
      BY DEF OnSnapshot
    <2>3. doc \in {NoDoc, net[i].arg.id}
      BY <1>1, <2>1, BackIs DEF Typed
    <2> HIDE DEF doc, number
    <2>4. snapshot'.of = doc
      BY <2>2 DEF Inv, TypeInv, StateOK
    <2> QED BY <2>1, <2>3, <2>4
  <1>4. Asked'
    <2>1. Current'
      BY <1>1, <1>2, NoneNewEmpty, CurrentStays DEF Inv, Asked
    <2> QED BY <1>2, <2>1 DEF Inv, Asked, ListIsOfView, HistoryIsOfDetail
  <1>5. Told'
    BY <1>1, <1>2, NoneNewEmpty, ToldStays DEF Inv
  <1>6. OneHandler'
    BY <1>1, <1>2, NoneNewEmpty, HandlerStays DEF Inv
  <1>7. ASSUME left.patient PROVE PatientList' /\ PatientDetail'
    <2>1. PatientList /\ PatientDetail
      BY <1>7 DEF Inv, Patient
    <2>2. PatientList'
      BY <1>1, <1>2, <2>1, NoneNewEmpty, ListPatience DEF PatientList
    <2>3. \A j \in Slots : net'[j].op \in ModalOps \cup {"snapshot"} =>
             net'[j].op = net[j].op /\ net'[j].arg = net[j].arg
      BY <1>1, OldCall DEF CallsOK, ModalOps
    <2>4. \A j \in Slots : net'[j].op # "snapshot"
      BY <1>1, <1>3, <2>1, <2>3 DEF PatientDetail
    <2>5. selected # NoDoc => snapshot'.of \in {NoDoc, selected}
      BY <1>3, <2>1 DEF PatientDetail
    <2>6. PatientDetail'
      BY <1>2, <2>1, <2>3, <2>4, <2>5 DEF PatientDetail
    <2> QED BY <2>2, <2>6
  <1> QED BY <1>1, <1>2, <1>4, <1>5, <1>6, <1>7 DEF Inv, Patient

LEMMA FailsInv ==
  ASSUME Inv, NEW i \in Slots, Fails(i)
  PROVE  Inv'
  <1>1. TypeInv' /\ Only(net, net', {}) /\ CallsOK /\ net'[i].op = "none"
    BY SettlesType, SettleType DEF Inv, TypeInv, Fails
  <1>2. /\ UNCHANGED <<server, view, list, selected, history, snapshot, bulk, own, left>>
        /\ panel'.detail = panel.detail /\ panel'.loading = panel.loading
        /\ panel'.open = panel.open /\ ~panel'.busy
    BY DEF Fails, Inv, TypeInv, StateOK, Panel
  <1>3. Asked'
    <2>1. Current'
      BY <1>1, <1>2, NoneNewEmpty, CurrentStays DEF Inv, Asked
    <2> QED BY <1>2, <2>1 DEF Inv, Asked, ListIsOfView, HistoryIsOfDetail
  <1>4. Told'
    BY <1>1, <1>2, NoneNewEmpty, ToldStays DEF Inv
  <1>5. OneHandler'
    <2>1. net[i].op \in ModalOps /\ net'[i].op \notin ModalOps
      BY <1>1 DEF Fails, ModalOps
    <2> QED BY <1>1, <2>1, NoneNewEmpty, HandlerEnds DEF Inv
  <1>6. ASSUME left.patient PROVE PatientList' /\ PatientDetail'
    <2>1. PatientList /\ PatientDetail
      BY <1>6 DEF Inv, Patient
    <2>2. PatientList'
      BY <1>1, <1>2, <2>1, NoneNewEmpty, ListPatience DEF PatientList
    <2>3. PatientDetail'
      BY <1>1, <1>2, <2>1, NoneNewEmpty, DetailPatience DEF PatientDetail
    <2> QED BY <2>2, <2>3
  <1> QED BY <1>1, <1>2, <1>3, <1>4, <1>5, <1>6 DEF Inv, Patient

\* Resolving goes on with the detail: still one handler of the modal, on the same
\* document.
LEMMA OnResolvedInv ==
  ASSUME Inv, NEW i \in Slots, OnResolved(i)
  PROVE  Inv'
  <1> DEFINE d == net[i].arg
             new == {Fresh("reload", d)}
             n == Settle(net, i)
  <1>1. TypeInv' /\ CallsOK /\ Only(net, net', new)
    BY OnResolvedType DEF Inv, TypeInv
  <1>2. /\ UNCHANGED <<server, view, list, selected, panel, history, snapshot, bulk, own, left>>
        /\ net[i].op = "resolve" /\ net' = Send(n, "reload", d)
    BY DEF OnResolved
  <1>3. /\ Only(net, n, {}) /\ n[i] = NoCall /\ FreeSlots(n) # {}
        /\ \A j \in Slots \ {i} : n[j] = net[j]
    BY <1>1, SettleDoes DEF CallsOK
  <1>4. Sent(n, net', Fresh("reload", d))
    BY <1>2, <1>3, SendDoes DEF Only
  <1>5. Fresh("reload", d).op = "reload" /\ Fresh("reload", d).arg = d
    BY FreshIs
  <1>6. /\ Unanswered(new)
        /\ NoneNew(new, BulkOps \cup {"list", "detail", "history", "snapshot"})
    BY NoneNewFresh, FreshUnanswered DEF BulkOps, Many
  <1> HIDE DEF new, n
  <1>7. panel.busy /\ NoneOf(n, ModalOps)
    BY <1>2, <1>3, NoCallIs DEF Inv, OneHandler, NoneOf, ModalOps
  <1>8. \A j \in Slots : net'[j].op \in ModalOps =>
           net'[j].arg = d /\ \A k \in Slots : net'[k].op \in ModalOps => k = j
    BY <1>4, <1>5, <1>7, SentIsOne DEF ModalOps
  <1>9. Asked'
    <2>1. Current'
      BY <1>1, <1>2, <1>6, CurrentStays DEF Inv, Asked, NoneNew
    <2> QED BY <1>2, <2>1 DEF Inv, Asked, ListIsOfView, HistoryIsOfDetail
  <1>10. Told'
    BY <1>1, <1>2, <1>6, ToldStays DEF Inv
  <1>11. OneHandler'
    BY <1>2, <1>7, <1>8 DEF OneHandler
  <1>12. ASSUME left.patient PROVE PatientList' /\ PatientDetail'
    <2>1. PatientList /\ PatientDetail
      BY <1>12 DEF Inv, Patient
    <2>2. PatientList'
      BY <1>1, <1>2, <1>6, <2>1, ListPatience DEF PatientList, NoneNew
    <2>3. \A j \in Slots : net'[j].op = "snapshot" =>
             net[j].op = "snapshot" /\ net'[j].arg = net[j].arg
      BY <1>1, <1>6, OldCall DEF NoneNew, CallsOK
    <2>4. selected # NoDoc => d = selected
      BY <1>2, <2>1 DEF PatientDetail, ModalOps
    <2>5. PatientDetail'
      BY <1>2, <1>8, <2>1, <2>3, <2>4 DEF PatientDetail
    <2> QED BY <2>2, <2>5
  <1> QED BY <1>1, <1>2, <1>9, <1>10, <1>11, <1>12 DEF Inv, Patient

LEMMA OnDetailInv ==
  ASSUME Inv, NEW i \in Slots, OnDetail(i)
  PROVE  Inv'
  <1> DEFINE detail == IF net[i].out.ok THEN net[i].out.body ELSE NoDetail
             new == LoadsHistory(panel'.detail)
  <1>1. TypeInv' /\ CallsOK
    BY OnDetailType DEF Inv, TypeInv
  <1>2. net[i].op = "detail" /\ net[i].arg = selected
    BY DEF OnDetail, Inv, Asked, Current, LiveAreOf
  <1>3. (detail \in Item /\ detail.id = selected) \/ detail = NoDetail
    BY <1>1, <1>2, BackIs DEF OnDetail, Typed, OfOne
  <1>4. /\ panel' = [Showing(panel, detail) EXCEPT !.loading = FALSE, !.error = ~net[i].out.ok]
        /\ snapshot' = SnapshotAfter(snapshot, detail)
        /\ \/ detail.id = panel.detail.id /\ UNCHANGED history
           \/ detail = NoDetail /\ UNCHANGED history
           \/ history' = [history EXCEPT !.loading = TRUE]
        /\ UNCHANGED <<server, view, list, selected, bulk, own, left>>
    BY DEF OnDetail
  <1> HIDE DEF detail
  <1>5. /\ panel'.detail = detail /\ panel'.busy = panel.busy /\ panel'.open = panel.open
        /\ ~panel'.loading
    BY <1>3, <1>4 DEF Showing, Panel, Inv, TypeInv, StateOK
  <1>6. /\ snapshot'.loading = snapshot.loading
        /\ detail # NoDetail => snapshot'.of = NoDoc
    BY <1>4 DEF SnapshotAfter, Inv, TypeInv, StateOK
  <1>7. /\ Only(net, net', new)
        /\ panel'.detail.id # panel.detail.id => LiveAreOf(net', "history", panel'.detail.id)
        /\ panel'.detail.id = panel.detail.id => new = {}
    BY DetailCalls DEF Inv, TypeInv, CallsOK, StateOK, LoadsHistory
  <1>8. /\ Unanswered(new)
        /\ NoneNew(new, ModalOps \cup BulkOps \cup {"list", "detail", "snapshot"})
    BY NoneNewFresh, FreshUnanswered, NoneNewEmpty DEF LoadsHistory, ModalOps, BulkOps, Many
  <1> HIDE DEF new
  <1>9. Asked'
    <2>1. Current'
      BY <1>1, <1>4, <1>7, <1>8, CurrentStays DEF Inv, Asked, NoneNew
    <2>2. HistoryIsOfDetail'
      <3>1. CASE detail.id = panel.detail.id /\ UNCHANGED history
        <4>1. detail # NoDetail => panel.detail # NoDetail
          BY <1>3, <3>1, DocsAssumption DEF NoDetail, Item
        <4> QED BY <1>5, <3>1, <4>1 DEF Inv, Asked, HistoryIsOfDetail
      <3>2. CASE detail = NoDetail
        BY <1>5, <3>2 DEF HistoryIsOfDetail
      <3>3. CASE history' = [history EXCEPT !.loading = TRUE]
        BY <3>3 DEF HistoryIsOfDetail, Inv, TypeInv, StateOK
      <3> QED BY <1>4, <3>1, <3>2, <3>3
    <2> QED BY <1>4, <2>1, <2>2 DEF Inv, Asked, ListIsOfView
  <1>10. Told'
    BY <1>1, <1>4, <1>7, <1>8, ToldStays DEF Inv
  <1>11. OneHandler'
    BY <1>1, <1>5, <1>7, <1>8, HandlerStays DEF Inv, NoneNew
  <1>12. ASSUME left.patient PROVE PatientList' /\ PatientDetail'
    <2>1. PatientList /\ PatientDetail
      BY <1>12 DEF Inv, Patient
    <2>2. PatientList'
      BY <1>1, <1>4, <1>5, <1>7, <1>8, <2>1, ListPatience DEF PatientList, NoneNew
    <2>3. PatientDetail'
      BY <1>1, <1>3, <1>4, <1>5, <1>6, <1>7, <1>8, <2>1, DetailPatience DEF NoneNew
    <2> QED BY <2>2, <2>3
  <1> QED BY <1>1, <1>4, <1>9, <1>10, <1>11, <1>12 DEF Inv, Patient

\* The list takes the selection with it, or leaves it.
LEMMA KeptSelection ==
  ASSUME StateOK, NEW n, NEW d \in {selected, NoDoc}, SelectIn(n, panel, d)
  PROVE  /\ selected' = d
         /\ panel'.busy = panel.busy /\ panel'.open = panel.open
         /\ panel'.loading = panel.loading
         /\ snapshot'.loading = snapshot.loading
         /\ d = selected => UNCHANGED <<panel, history, snapshot>>
         /\ d # selected => panel'.detail = NoDetail
  <1>1. CASE d = selected
    BY <1>1 DEF SelectIn
  <1>2. CASE d = NoDoc /\ d # selected
    <2>1. /\ selected' = d /\ snapshot' = SnapshotAfter(snapshot, NoDetail)
          /\ panel' = [Showing(panel, NoDetail) EXCEPT !.error = FALSE]
      BY <1>2 DEF SelectIn, PanelFor, SnapshotFor
    <2>2. /\ panel'.busy = panel.busy /\ panel'.open = panel.open
          /\ panel'.loading = panel.loading /\ panel'.detail = NoDetail
      BY <2>1 DEF Showing, StateOK, Panel
    <2>3. snapshot'.loading = snapshot.loading
      BY <2>1 DEF SnapshotAfter, StateOK
    <2> QED BY <1>2, <2>1, <2>2, <2>3
  <1> QED BY <1>1, <1>2

LEMMA OnListInv ==
  ASSUME Inv, NEW i \in Slots, OnList(i)
  PROVE  Inv'
  <1> DEFINE items == IF net[i].out.ok THEN net[i].out.body.items ELSE {}
             d == IF selected \in Ids(items) THEN selected ELSE NoDoc
             n == Settle(net, i)
  <1>1. TypeInv' /\ CallsOK
    BY OnListType DEF Inv, TypeInv
  <1>2. /\ net[i].op = "list" /\ net[i].live /\ net[i].arg = view /\ list.loading
        /\ \A j \in Slots : net[j].op = "list" /\ net[j].live => j = i
    BY DEF OnList, Inv, Asked, Current, ListIsCurrent
  <1>3. Shows(items)
    BY <1>2 DEF Inv, Told, AnswersAreTrue, Honest, Shows
  <1>4. /\ list'.items = items /\ ~list'.loading /\ list'.of = net[i].arg
        /\ bulk' = [bulk EXCEPT !.chosen = KeptChoice(items)]
        /\ SelectIn(n, panel, d) /\ d \in {selected, NoDoc}
        /\ UNCHANGED <<server, view, own, left>>
    BY DEF OnList
  <1> HIDE DEF items, d, n
  <1>5. bulk'.busy = bulk.busy /\ bulk'.chosen \subseteq Ids(items)
    BY <1>4 DEF KeptChoice, Inv, TypeInv, StateOK
  <1>6. Only(net, n, {}) /\ n[i] = NoCall /\ FreeSlots(n) # {}
    BY <1>1, SettleDoes DEF n, CallsOK
  <1>7. Calls(n) /\ Loads(d) = {}
    BY <1>4, <1>6 DEF Only, Loads
  <1>8. /\ Only(n, net', {})
        /\ d # selected => LiveAreOf(net', "detail", d) /\ NoLive(net', "history")
    BY <1>4, <1>6, <1>7, SelectCalls
  <1>9. Only(net, net', {})
    <2>1. Only(net, net', {} \cup {})
      BY <1>1, <1>6, <1>8, OnlyTrans DEF CallsOK
    <2> QED BY <2>1
  <1>10. NoLive(net', "list")
    <2> SUFFICES ASSUME NEW j \in Slots, net'[j].op = "list", net'[j].live PROVE FALSE
      BY DEF NoLive
    <2>1. net'[j] = n[j] /\ net'[j] = net[j]
      BY <1>1, <1>7, <1>8, <1>9, OldCall DEF CallsOK
    <2> QED BY <1>2, <1>6, <2>1, NoCallIs
  <1>11. /\ selected' = d
         /\ panel'.busy = panel.busy /\ panel'.open = panel.open
         /\ panel'.loading = panel.loading /\ snapshot'.loading = snapshot.loading
         /\ d = selected => UNCHANGED <<panel, history, snapshot>>
         /\ d # selected => panel'.detail = NoDetail
    BY <1>4, KeptSelection DEF Inv, TypeInv
  <1>12. Asked'
    <2>1. LiveAreOf(net', "detail", selected') \/ selected' = selected
      BY <1>8, <1>11
    <2>2. \/ panel'.detail.id = panel.detail.id
          \/ LiveAreOf(net', "history", panel'.detail.id)
      BY <1>8, <1>11 DEF NoLive, LiveAreOf
    <2>3. Current'
      BY <1>1, <1>9, <1>10, <2>1, <2>2, NoneNewEmpty, CurrentStays DEF Inv, Asked
    <2>4. HistoryIsOfDetail'
      BY <1>11 DEF HistoryIsOfDetail, Inv, Asked
    <2> QED BY <1>2, <1>4, <2>3, <2>4 DEF Asked, ListIsOfView
  <1>13. Told'
    <2>1. AnswersAreTrue'
      BY <1>1, <1>4, <1>9, NoneNewEmpty, AnswersStay DEF Inv, Told
    <2>2. OwnIsTrue'
      BY <1>4 DEF Inv, Told, OwnIsTrue
    <2>3. OwnChangesShown'
      BY <1>3, <1>4 DEF Shows, OwnChangesShown
    <2> QED BY <2>1, <2>2, <2>3 DEF Told
  <1>14. OneHandler'
    BY <1>1, <1>9, <1>11, NoneNewEmpty, HandlerStays DEF Inv
  <1>15. ASSUME left.patient PROVE PatientList' /\ PatientDetail'
    <2>1. PatientList /\ PatientDetail
      BY <1>15 DEF Inv, Patient
    <2>2. ~bulk.busy /\ NoBulk(net)
      BY <1>2, <2>1 DEF PatientList, NoBulk
    <2>3. NoBulk(net')
      BY <1>1, <1>9, <2>2, NoneNewEmpty, NoBulkStays
    <2>4. PatientList'
      BY <1>4, <1>5, <1>11, <2>1, <2>2, <2>3 DEF PatientList, NoBulk
    <2>5. PatientDetail'
      BY <1>1, <1>4, <1>9, <1>11, <2>1, NoneNewEmpty, DetailPatience DEF PatientDetail
    <2> QED BY <2>4, <2>5
  <1> QED BY <1>1, <1>4, <1>12, <1>13, <1>14, <1>15 DEF Inv, Patient

LEMMA ReloadTold ==
  ASSUME CallsOK, Told, NEW new, Only(net, net', new), Unanswered(new),
         server' = server, OneLive(net', Fresh("list", view)), OwnIsTrue', list'.loading
  PROVE  Told'
  <1>1. AnswersAreTrue'
    BY AnswersStay DEF Told
  <1> QED BY <1>1 DEF Told, OwnChangesShown

\* A modal's handler that has changed a document shows it, and asks for the list
\* and the history anew.
LEMMA OnChangedInv ==
  ASSUME Inv, NEW i \in Slots, OnChanged(i)
  PROVE  Inv'
  <1> DEFINE detail == net[i].out.body
             new == NewCalls(view, detail.id)
  <1>1. TypeInv' /\ CallsOK /\ Only(net, net', new)
    BY OnChangedType DEF Inv, TypeInv
  <1>2. /\ net[i].op \in OfOne /\ net[i].op \in ModalOps
        /\ detail \in Item /\ detail.id = net[i].arg
    BY <1>1, BackIs DEF OnChanged, Typed, OfOne, ModalOps
  <1>3. detail.rev <= server[detail.id].rev
    BY <1>2 DEF OnChanged, Inv, Told, AnswersAreTrue, Honest
  <1>4. /\ net' = Refreshed(Settle(net, i), view, detail.id)
        /\ panel' = [Showing(panel, detail) EXCEPT !.busy = FALSE]
        /\ own' = Done(detail.id, detail.rev)
        /\ snapshot' = SnapshotAfter(snapshot, detail)
        /\ history' = [history EXCEPT !.loading = TRUE]
        /\ list' = Reloading(list)
        /\ UNCHANGED <<server, view, selected, bulk, left>>
        /\ HasRoom(Settle(net, i), 2)
    BY DEF OnChanged
  <1> HIDE DEF detail
  <1>5. /\ OneLive(net', Fresh("list", view)) /\ LiveAreOf(net', "history", detail.id)
        /\ net'[i].op \in {"list", "history", "none"}
    BY <1>1, <1>4, RefreshCalls DEF CallsOK
  <1>6. /\ Unanswered(new)
        /\ NoneNew(new, ModalOps \cup BulkOps \cup {"detail", "snapshot"})
    BY NewCallsAre
  <1> HIDE DEF new
  <1>7. detail # NoDetail
    BY <1>2, DocsAssumption DEF Item, NoDetail
  <1>8. /\ panel'.detail = detail /\ ~panel'.busy
        /\ list'.loading /\ history'.loading
    BY <1>4 DEF Showing, Reloading, Panel, Inv, TypeInv, StateOK
  <1>9. snapshot'.loading = snapshot.loading /\ snapshot'.of = NoDoc
    BY <1>4, <1>7 DEF SnapshotAfter, Inv, TypeInv, StateOK
  <1>10. Asked'
    <2>1. Current'
      BY <1>1, <1>4, <1>5, <1>6, <1>8, CurrentStays DEF Inv, Asked, NoneNew
    <2> QED BY <1>8, <2>1 DEF Asked, ListIsOfView, HistoryIsOfDetail
  <1>11. Told'
    <2>1. OwnIsTrue'
      <3> SUFFICES ASSUME NEW d \in Docs
                   PROVE  own'[d].rev <= server[d].rev /\ (own'[d].gone => ~server[d].live)
        BY <1>4 DEF OwnIsTrue
      <3>1. own'[d].gone = own[d].gone /\ own'[d].rev \in {own[d].rev, detail.rev}
        BY <1>2, <1>4 DEF Done, Item, Inv, TypeInv, StateOK
      <3>2. d # detail.id => own'[d] = own[d]
        BY <1>4 DEF Done, Inv, TypeInv, StateOK
      <3> QED BY <1>3, <3>1, <3>2 DEF Inv, Told, OwnIsTrue
    <2> QED BY <1>1, <1>4, <1>5, <1>6, <1>8, <2>1, ReloadTold DEF Inv
  <1>12. OneHandler'
    BY <1>1, <1>2, <1>5, <1>6, HandlerEnds DEF Inv, NoneNew, ModalOps
  <1>13. ASSUME left.patient PROVE PatientList' /\ PatientDetail'
    <2>1. PatientList /\ PatientDetail
      BY <1>13 DEF Inv, Patient
    <2>2. ~bulk.busy /\ NoBulk(net)
      BY <1>2, <2>1 DEF PatientList, NoBulk, Inv, OneHandler
    <2>3. NoBulk(net')
      BY <1>1, <1>6, <2>2, NoBulkStays DEF NoneNew
    <2>4. PatientList'
      BY <1>4, <1>8, <2>2, <2>3, ReloadPatience
    <2>5. selected # NoDoc => detail.id = selected
      BY <1>2, <2>1 DEF PatientDetail
    <2>6. PatientDetail'
      BY <1>1, <1>4, <1>6, <1>8, <1>9, <2>1, <2>5, DetailPatience DEF NoneNew
    <2> QED BY <2>4, <2>6
  <1> QED BY <1>1, <1>4, <1>10, <1>11, <1>12, <1>13 DEF Inv, Patient

\* What is dropped and what is fetched anew when a document is gone.
LEMMA DroppedKeeps ==
  ASSUME Inv, NEW i \in Slots, NEW p \in Panel, Dropped(Settle(net, i), p),
         UNCHANGED <<server, view>>, OwnIsTrue'
  PROVE  /\ Asked' /\ Told' /\ (left.patient => PatientDetail')
         /\ list'.loading /\ list'.items = list.items
         /\ panel'.open = p.open /\ panel'.busy = p.busy
         /\ net'[i].op \in {"list", "history", "none"}
         /\ \E new : Only(net, net', new) /\ NoneNew(new, ModalOps \cup BulkOps)
  <1> DEFINE new == {Fresh("list", view)}
  <1>1. /\ selected' = NoDoc /\ list' = Reloading(list)
        /\ panel'.detail = NoDetail /\ panel'.open = p.open /\ panel'.busy = p.busy
    BY DroppedType DEF Inv
  <1>2. /\ Only(net, net', new) /\ OneLive(net', Fresh("list", view))
        /\ NoLive(net', "history") /\ NoLive(net', "detail")
        /\ net'[i].op \in {"list", "history", "none"} /\ CallsOK
    BY DroppedCalls DEF Inv, TypeInv, CallsOK
  <1>3. /\ Unanswered(new)
        /\ NoneNew(new, ModalOps \cup BulkOps \cup {"detail", "history", "snapshot"})
    BY NoneNewFresh, FreshUnanswered DEF ModalOps, BulkOps, Many
  <1> HIDE DEF new
  <1>4. list'.loading /\ list'.items = list.items
    BY <1>1 DEF Reloading, Inv, TypeInv, StateOK
  <1>5. snapshot'.loading = snapshot.loading
    BY DEF Dropped, SnapshotAfter, Inv, TypeInv, StateOK
  <1>6. Asked'
    <2>1. LiveAreOf(net', "detail", selected') /\ LiveAreOf(net', "history", panel'.detail.id)
      BY <1>2 DEF NoLive, LiveAreOf
    <2>2. Current'
      BY <1>2, <1>4, <2>1, CurrentStays DEF Inv, Asked
    <2> QED BY <1>1, <1>4, <2>2 DEF Asked, ListIsOfView, HistoryIsOfDetail
  <1>7. Told'
    BY <1>2, <1>3, <1>4, ReloadTold DEF Inv
  <1>8. ASSUME left.patient PROVE PatientDetail'
    <2>1. PatientDetail
      BY <1>8 DEF Inv, Patient
    <2> QED BY <1>1, <1>2, <1>3, <1>5, <2>1, DetailPatience DEF NoneNew
  <1>9. \E k : Only(net, net', k) /\ NoneNew(k, ModalOps \cup BulkOps)
    BY <1>2, <1>3 DEF NoneNew
  <1> QED BY <1>1, <1>2, <1>4, <1>6, <1>7, <1>8, <1>9

\* A refresh that leaves the panel as it is.
LEMMA RefreshKeeps ==
  ASSUME Inv, NEW i \in Slots, HasRoom(Settle(net, i), 2),
         net' = Refreshed(Settle(net, i), view, panel.detail.id), list' = Reloading(list),
         history' = history \/ history'.loading,
         UNCHANGED <<server, view, selected, panel, snapshot>>, OwnIsTrue'
  PROVE  /\ Asked' /\ Told' /\ (left.patient => PatientDetail')
         /\ list'.loading /\ list'.items = list.items
         /\ net'[i].op \in {"list", "history", "none"}
         /\ \E new : Only(net, net', new) /\ NoneNew(new, ModalOps \cup BulkOps)
  <1> DEFINE new == NewCalls(view, panel.detail.id)
  <1>1. /\ Only(net, net', new) /\ OneLive(net', Fresh("list", view))
        /\ LiveAreOf(net', "history", panel.detail.id)
        /\ net'[i].op \in {"list", "history", "none"} /\ CallsOK
    BY RefreshCalls DEF Inv, TypeInv, CallsOK
  <1>2. Unanswered(new) /\ NoneNew(new, ModalOps \cup BulkOps \cup {"detail", "snapshot"})
    BY NewCallsAre
  <1> HIDE DEF new
  <1>3. list'.loading /\ list'.items = list.items
    BY DEF Reloading, Inv, TypeInv, StateOK
  <1>4. Asked'
    <2>1. Current'
      BY <1>1, <1>2, <1>3, CurrentStays DEF Inv, Asked, NoneNew
    <2> QED BY <1>3, <2>1 DEF Inv, Asked, ListIsOfView, HistoryIsOfDetail
  <1>5. Told'
    BY <1>1, <1>2, <1>3, ReloadTold DEF Inv
  <1>6. ASSUME left.patient PROVE PatientDetail'
    <2>1. PatientDetail
      BY <1>6 DEF Inv, Patient
    <2> QED BY <1>1, <1>2, <2>1, DetailPatience DEF PatientDetail, NoneNew
  <1>7. \E k : Only(net, net', k) /\ NoneNew(k, ModalOps \cup BulkOps)
    BY <1>1, <1>2 DEF NoneNew
  <1> QED BY <1>1, <1>3, <1>4, <1>5, <1>6, <1>7

LEMMA GoneIsTrue ==
  ASSUME Inv, NEW d \in Docs, ~server[d].live, server' = server,
         own' = [own EXCEPT ![d].gone = TRUE]
  PROVE  OwnIsTrue'
  <1> SUFFICES ASSUME NEW e \in Docs
               PROVE  own'[e].rev <= server[e].rev /\ (own'[e].gone => ~server[e].live)
    BY DEF OwnIsTrue
  <1>1. own'[e].rev = own[e].rev /\ (e # d => own'[e].gone = own[e].gone)
    BY DEF Inv, TypeInv, StateOK
  <1> QED BY <1>1 DEF Inv, Told, OwnIsTrue

LEMMA OnDeletedInv ==
  ASSUME Inv, NEW i \in Slots, OnDeleted(i)
  PROVE  Inv'
  <1> DEFINE p == [panel EXCEPT !.open = FALSE, !.busy = FALSE]
  <1>1. TypeInv' /\ CallsOK
    BY OnDeletedType DEF Inv, TypeInv
  <1>2. net[i].op = "delete" /\ net[i].op \in ModalOps /\ net[i].arg \in Docs
    BY <1>1, BackIs DEF OnDeleted, Typed, ModalOps
  <1>3. p \in Panel /\ ~p.busy
    BY DEF Inv, TypeInv, StateOK, Panel
  <1>4. Dropped(Settle(net, i), p) /\ UNCHANGED <<server, view, bulk, left>>
    BY DEF OnDeleted
  <1> HIDE DEF p
  <1>5. OwnIsTrue'
    <2>1. ~server[net[i].arg].live
      BY <1>2 DEF OnDeleted, Inv, Told, AnswersAreTrue, Honest, Removing
    <2> QED BY <1>2, <1>4, <2>1, GoneIsTrue DEF OnDeleted
  <1>6. /\ Asked' /\ Told' /\ (left.patient => PatientDetail')
        /\ list'.loading /\ ~panel'.busy
        /\ net'[i].op \in {"list", "history", "none"}
        /\ \E new : Only(net, net', new) /\ NoneNew(new, ModalOps \cup BulkOps)
    BY <1>3, <1>4, <1>5, DroppedKeeps
  <1>7. PICK new : /\ Only(net, net', new)
                   /\ NoneNew(new, ModalOps) /\ NoneNew(new, BulkOps)
    BY <1>6 DEF NoneNew
  <1>8. OneHandler'
    BY <1>1, <1>2, <1>6, <1>7, HandlerEnds DEF Inv, ModalOps
  <1>9. ASSUME left.patient PROVE PatientList'
    <2>1. ~bulk.busy /\ NoBulk(net)
      BY <1>2, <1>9 DEF Inv, Patient, PatientList, NoBulk, OneHandler
    <2>2. NoBulk(net')
      BY <1>1, <1>7, <2>1, NoBulkStays
    <2> QED BY <1>4, <1>6, <2>1, <2>2, ReloadPatience
  <1> QED BY <1>1, <1>4, <1>6, <1>8, <1>9 DEF Inv, Patient

\* A handler of the list ends.
LEMMA BulkEndsInv ==
  ASSUME Inv, TypeInv', NEW i \in Slots, net[i].op \in BulkOps,
         net'[i].op \in {"list", "history", "none"},
         \E new : Only(net, net', new) /\ NoneNew(new, ModalOps \cup BulkOps),
         Asked', Told', left.patient => PatientDetail',
         panel'.busy = panel.busy, left' = left, ~bulk'.busy,
         list'.loading \/ (list' = list /\ bulk'.chosen \subseteq bulk.chosen)
                       \/ (list' = list /\ (left.patient => bulk'.chosen \subseteq Ids(list.items)))
  PROVE  Inv'
  <1>1. PICK new : Only(net, net', new) /\ NoneNew(new, ModalOps) /\ NoneNew(new, BulkOps)
    BY DEF NoneNew
  <1>2. CallsOK /\ net'[i].op \notin BulkOps
    BY DEF Inv, TypeInv, BulkOps
  <1>3. OneHandler'
    BY <1>1, <1>2, HandlerStays DEF Inv
  <1>4. ASSUME left.patient PROVE PatientList'
    <2>1. PatientList
      BY <1>4 DEF Inv, Patient
    <2>2. ~panel'.busy /\ ~list.loading
      BY <2>1 DEF PatientList
    <2>3. NoBulk(net')
      BY <1>1, <1>2, <2>1, BulkEnds
    <2>4. ~list'.loading => bulk'.chosen \subseteq Ids(list'.items)
      BY <1>4, <2>1, <2>2 DEF PatientList
    <2> QED BY <2>2, <2>3, <2>4 DEF PatientList, NoBulk
  <1> QED BY <1>3, <1>4 DEF Inv, Patient

\* A bulk call whose calls have all failed changes nothing but the choice.
LEMMA SettleKeeps ==
  ASSUME Inv, NEW i \in Slots, net' = Settle(net, i), own' = own,
         UNCHANGED <<server, view, list, selected, panel, history, snapshot>>
  PROVE  /\ Asked' /\ Told' /\ (left.patient => PatientDetail')
         /\ net'[i].op \in {"list", "history", "none"}
         /\ \E new : Only(net, net', new) /\ NoneNew(new, ModalOps \cup BulkOps)
  <1>1. Only(net, net', {}) /\ CallsOK /\ net'[i].op = "none"
    BY SettleType DEF Inv, TypeInv
  <1>2. Asked'
    <2>1. Current'
      BY <1>1, NoneNewEmpty, CurrentStays DEF Inv, Asked
    <2> QED BY <2>1 DEF Inv, Asked, ListIsOfView, HistoryIsOfDetail
  <1>3. Told'
    BY <1>1, NoneNewEmpty, ToldStays DEF Inv
  <1>4. ASSUME left.patient PROVE PatientDetail'
    <2>1. PatientDetail
      BY <1>4 DEF Inv, Patient
    <2> QED BY <1>1, <2>1, NoneNewEmpty, DetailPatience DEF PatientDetail
  <1> QED BY <1>1, <1>2, <1>3, <1>4, NoneNewEmpty

LEMMA OnDeleteKeyInv ==
  ASSUME Inv, NEW i \in Slots, OnDeleteKey(i)
  PROVE  Inv'
  <1>1. TypeInv' /\ CallsOK
    BY OnDeleteKeyType DEF Inv, TypeInv
  <1>2. net[i].op = "deleteKey" /\ net[i].op \in BulkOps /\ net[i].arg \in Docs
    BY <1>1, BackIs DEF OnDeleteKey, Typed, BulkOps
  <1>3. UNCHANGED <<server, view, left>> /\ HasRoom(Settle(net, i), 2)
    BY DEF OnDeleteKey
  <1>4. ~bulk'.busy /\ bulk'.chosen \subseteq bulk.chosen
    BY DEF OnDeleteKey, Inv, TypeInv, StateOK
  <1>5. CASE net[i].out.ok
    <2>1. OwnIsTrue'
      <3>1. ~server[net[i].arg].live
        BY <1>2, <1>5 DEF Inv, Told, AnswersAreTrue, Honest, Removing
      <3> QED BY <1>2, <1>3, <1>5, <3>1, GoneIsTrue DEF OnDeleteKey
    <2>2. CASE selected # NoDoc
      <3>1. Dropped(Settle(net, i), panel) /\ panel \in Panel
        BY <1>5, <2>2 DEF OnDeleteKey, Inv, TypeInv, StateOK
      <3>2. /\ Asked' /\ Told' /\ (left.patient => PatientDetail')
            /\ list'.loading /\ panel'.busy = panel.busy
            /\ net'[i].op \in {"list", "history", "none"}
            /\ \E new : Only(net, net', new) /\ NoneNew(new, ModalOps \cup BulkOps)
        BY <1>3, <2>1, <3>1, DroppedKeeps
      <3> QED BY <1>1, <1>2, <1>3, <1>4, <3>2, BulkEndsInv
    <2>3. CASE selected = NoDoc
      <3>1. /\ net' = Refreshed(Settle(net, i), view, panel.detail.id)
            /\ list' = Reloading(list)
            /\ UNCHANGED <<selected, panel, history, snapshot>>
        BY <1>5, <2>3 DEF OnDeleteKey
      <3>2. /\ Asked' /\ Told' /\ (left.patient => PatientDetail')
            /\ list'.loading
            /\ net'[i].op \in {"list", "history", "none"}
            /\ \E new : Only(net, net', new) /\ NoneNew(new, ModalOps \cup BulkOps)
        BY <1>3, <2>1, <3>1, RefreshKeeps
      <3> QED BY <1>1, <1>2, <1>3, <1>4, <3>1, <3>2, BulkEndsInv
    <2> QED BY <2>2, <2>3
  <1>6. CASE ~net[i].out.ok
    <2>1. /\ net' = Settle(net, i)
          /\ UNCHANGED <<list, selected, panel, history, snapshot, own>>
      BY <1>6 DEF OnDeleteKey
    <2>2. /\ Asked' /\ Told' /\ (left.patient => PatientDetail')
          /\ net'[i].op \in {"list", "history", "none"}
          /\ \E new : Only(net, net', new) /\ NoneNew(new, ModalOps \cup BulkOps)
      BY <1>3, <2>1, SettleKeeps
    <2> QED BY <1>1, <1>2, <1>3, <1>4, <2>1, <2>2, BulkEndsInv
  <1> QED BY <1>5, <1>6

LEMMA OnBulkInv ==
  ASSUME Inv, NEW i \in Slots, OnBulk(i)
  PROVE  Inv'
  <1> DEFINE arg == net[i].arg
             good == arg.targets \ arg.failed
             p == [panel EXCEPT !.open = FALSE]
  <1>1. TypeInv' /\ CallsOK
    BY OnBulkType DEF Inv, TypeInv
  <1>2. /\ net[i].op \in BulkOps /\ Many(net[i].op)
        /\ arg \in BulkArgument /\ arg.failed \subseteq arg.targets /\ arg.todo = {}
    BY <1>1, BackIs DEF OnBulk, Typed, Many, BulkOps
  <1>3. UNCHANGED <<server, view, left>> /\ HasRoom(Settle(net, i), 2)
    BY DEF OnBulk
  <1>4. ~bulk'.busy /\ bulk'.chosen = arg.failed
    BY DEF OnBulk
  <1>5. left.patient => bulk'.chosen \subseteq Ids(list.items)
    BY <1>2, <1>4 DEF Inv, Patient, PatientList
  <1>6. own' = [d \in Docs |->
                  IF d \notin good THEN own[d]
                  ELSE IF net[i].op = "bulkDelete" THEN [own[d] EXCEPT !.gone = TRUE]
                  ELSE Done(d, arg.rev[d])[d]]
    BY DEF OnBulk
  <1>7. \A d \in good : IF net[i].op = "bulkDelete" THEN ~server[d].live
                        ELSE arg.rev[d] <= server[d].rev
    BY <1>2 DEF Inv, Told, AnswersAreTrue, Honest
  <1>8. p \in Panel /\ p.busy = panel.busy
    BY DEF Inv, TypeInv, StateOK, Panel
  <1>9. \/ good = {} /\ net' = Settle(net, i)
           /\ UNCHANGED <<list, selected, panel, history, snapshot>>
        \/ Dropped(Settle(net, i), p)
        \/ /\ net' = Refreshed(Settle(net, i), view, panel.detail.id)
           /\ list' = Reloading(list)
           /\ history' = IF panel.detail = NoDetail THEN history
                         ELSE [history EXCEPT !.loading = TRUE]
           /\ UNCHANGED <<selected, panel, snapshot>>
    BY DEF OnBulk
  <1>10. OwnIsTrue'
    <2> SUFFICES ASSUME NEW d \in Docs
                 PROVE  own'[d].rev <= server[d].rev /\ (own'[d].gone => ~server[d].live)
      BY <1>3 DEF OwnIsTrue
    <2>1. own[d].rev <= server[d].rev /\ (own[d].gone => ~server[d].live)
      BY DEF Inv, Told, OwnIsTrue
    <2>2. CASE d \notin good
      BY <1>6, <2>1, <2>2
    <2>3. CASE d \in good /\ net[i].op = "bulkDelete"
      <3>1. own'[d] = [own[d] EXCEPT !.gone = TRUE]
        BY <1>6, <2>3
      <3>2. own'[d].rev = own[d].rev
        BY <3>1 DEF Inv, TypeInv, StateOK
      <3> QED BY <1>7, <2>1, <2>3, <3>2
    <2>4. CASE d \in good /\ net[i].op # "bulkDelete"
      <3>1. own'[d] = Done(d, arg.rev[d])[d]
        BY <1>6, <2>4
      <3>2. own'[d].gone = own[d].gone /\ own'[d].rev \in {own[d].rev, arg.rev[d]}
        BY <3>1 DEF Done, Inv, TypeInv, StateOK
      <3> QED BY <1>7, <2>1, <2>4, <3>2
    <2> QED BY <2>2, <2>3, <2>4
  <1> HIDE DEF p
  <1>11. CASE /\ good = {} /\ net' = Settle(net, i)
              /\ UNCHANGED <<list, selected, panel, history, snapshot>>
    <2>1. own' = own
      BY <1>6, <1>11 DEF Inv, TypeInv, StateOK
    <2>2. /\ Asked' /\ Told' /\ (left.patient => PatientDetail')
          /\ net'[i].op \in {"list", "history", "none"}
          /\ \E new : Only(net, net', new) /\ NoneNew(new, ModalOps \cup BulkOps)
      BY <1>3, <1>11, <2>1, SettleKeeps
    <2> QED BY <1>1, <1>2, <1>3, <1>4, <1>5, <1>11, <2>2, BulkEndsInv
  <1>12. CASE Dropped(Settle(net, i), p)
    <2>1. /\ Asked' /\ Told' /\ (left.patient => PatientDetail')
          /\ list'.loading /\ panel'.busy = panel.busy
          /\ net'[i].op \in {"list", "history", "none"}
          /\ \E new : Only(net, net', new) /\ NoneNew(new, ModalOps \cup BulkOps)
      BY <1>3, <1>8, <1>10, <1>12, DroppedKeeps
    <2> QED BY <1>1, <1>2, <1>3, <1>4, <2>1, BulkEndsInv
  <1>13. CASE /\ net' = Refreshed(Settle(net, i), view, panel.detail.id)
              /\ list' = Reloading(list)
              /\ history' = IF panel.detail = NoDetail THEN history
                            ELSE [history EXCEPT !.loading = TRUE]
              /\ UNCHANGED <<selected, panel, snapshot>>
    <2>1. history' = history \/ history'.loading
      BY <1>13 DEF Inv, TypeInv, StateOK
    <2>2. /\ Asked' /\ Told' /\ (left.patient => PatientDetail')
          /\ list'.loading
          /\ net'[i].op \in {"list", "history", "none"}
          /\ \E new : Only(net, net', new) /\ NoneNew(new, ModalOps \cup BulkOps)
      BY <1>3, <1>10, <1>13, <2>1, RefreshKeeps
    <2> QED BY <1>1, <1>2, <1>3, <1>4, <1>13, <2>2, BulkEndsInv
  <1> QED BY <1>9, <1>11, <1>12, <1>13

-----------------------------------------------------------------------------
(* What the server keeps.                                                   *)

\* Revisions only grow, and what is gone stays gone.
Grows == \A d \in Docs : server[d].rev <= server'[d].rev /\ (server'[d].live => server[d].live)

LEMMA WrittenGrows ==
  ASSUME StateOK, NEW op, NEW d \in Docs, server[d].live,
         server' = server \/ server' = Written(op, d)
  PROVE  Grows
  <1> SUFFICES ASSUME NEW e \in Docs
               PROVE  server[e].rev <= server'[e].rev /\ (server'[e].live => server[e].live)
    BY DEF Grows
  <1>1. server[e].rev \in Nat
    BY DEF StateOK
  <1>2. CASE server' = server
    BY <1>1, <1>2
  <1>3. CASE server' = Written(op, d) /\ e # d
    BY <1>1, <1>3, WrittenType
  <1>4. CASE server' = Written(op, d) /\ e = d
    <2>1. server'[e].rev \in {server[e].rev, server[e].rev + 1}
      BY <1>4, WrittenType
    <2> QED BY <1>1, <1>4, <2>1
  <1> QED BY <1>2, <1>3, <1>4

LEMMA OwnStaysTrue ==
  ASSUME StateOK, OwnIsTrue, Grows, server' \in [Docs -> [live : BOOLEAN, rev : Nat]], own' = own
  PROVE  OwnIsTrue'
  <1> SUFFICES ASSUME NEW d \in Docs
               PROVE  own[d].rev <= server'[d].rev /\ (own[d].gone => ~server'[d].live)
    BY DEF OwnIsTrue
  <1>1. own[d].rev \in Nat /\ server[d].rev \in Nat /\ server'[d].rev \in Nat
    BY DEF StateOK
  <1> QED BY <1>1 DEF OwnIsTrue, Grows

\* A call that is what it was is as true as it was.
LEMMA HonestStays ==
  ASSUME StateOK, Grows, server' \in [Docs -> [live : BOOLEAN, rev : Nat]], own' = own,
         NEW j \in Slots, Honest(net[j]), net[j].op # "none" => Typed(net[j]),
         net'[j] = net[j]
  PROVE  Honest(net[j])'
  <1> DEFINE c == net[j]
  <1>1. CASE c.op = "none"
    BY <1>1 DEF Honest, OfOne, Removing, Many
  <1>2. CASE c.op # "none"
    <2>1. Typed(c)
      BY <1>2
    <2>2. c.op = "list" /\ c.live /\ c.out.ok => Shows(c.out.body.items)'
      BY DEF Honest, Shows
    <2>3. c.op \in OfOne /\ c.out.ok => c.out.body.rev <= server'[c.arg].rev
      <3> SUFFICES ASSUME c.op \in OfOne, c.out.ok
                   PROVE  c.out.body.rev <= server'[c.arg].rev
        OBVIOUS
      <3>1. c.arg \in Docs /\ c.out.body.rev \in Nat /\ c.out.body.rev <= server[c.arg].rev
        BY <2>1 DEF Typed, Item, Honest
      <3>2. server[c.arg].rev \in Nat /\ server'[c.arg].rev \in Nat
        BY <3>1 DEF StateOK
      <3> QED BY <3>1, <3>2 DEF Grows
    <2>4. c.op \in Removing /\ c.out.ok => ~server'[c.arg].live
      BY <2>1 DEF Typed, Removing, Honest, Grows
    <2>5. ASSUME Many(c.op), NEW d \in (c.arg.targets \ c.arg.failed) \ c.arg.todo
          PROVE  IF c.op = "bulkDelete" THEN ~server'[d].live ELSE c.arg.rev[d] <= server'[d].rev
      <3>1. d \in Docs /\ c.arg.rev[d] \in Nat
        BY <2>1, <2>5 DEF Typed, BulkArgument
      <3>2. server[d].rev \in Nat /\ server'[d].rev \in Nat
        BY <3>1 DEF StateOK
      <3>3. IF c.op = "bulkDelete" THEN ~server[d].live ELSE c.arg.rev[d] <= server[d].rev
        BY <2>5 DEF Honest
      <3> QED BY <3>1, <3>2, <3>3 DEF Grows
    <2>6. Many(c.op) =>
            \A d \in (c.arg.targets \ c.arg.failed) \ c.arg.todo :
               IF c.op = "bulkDelete" THEN ~server'[d].live ELSE c.arg.rev[d] <= server'[d].rev
      BY <2>5
    <2> QED BY <2>2, <2>3, <2>4, <2>6 DEF Honest
  <1> QED BY <1>1, <1>2

\* One call is answered, in whole or in part: what the page has and the calls it
\* has sent stay.
LEMMA AnsweredInv ==
  ASSUME Inv, TypeInv', NEW i \in Slots, AnsweredAt(i),
         ~Many(net[i].op) => net'[i].arg = net[i].arg,
         Many(net[i].op) => net'[i].arg.targets = net[i].arg.targets,
         UNCHANGED <<view, list, selected, panel, history, snapshot, bulk, own>>,
         left'.patient = left.patient, Grows, Honest(net[i])'
  PROVE  Inv'
  <1>1. /\ \A j \in Slots : net'[j].op = net[j].op /\ net'[j].live = net[j].live
        /\ \A j \in Slots : ~Many(net[j].op) => net'[j].arg = net[j].arg
        /\ \A j \in Slots : Many(net[j].op) => net'[j].arg.targets = net[j].arg.targets
    BY DEF AnsweredAt
  <1>2. \A op \in {"list", "detail", "history", "snapshot"} \cup ModalOps : ~Many(op)
    BY DEF Many, ModalOps
  <1>3. Asked'
    <2>1. ListIsCurrent'
      BY <1>1, <1>2 DEF Inv, Asked, Current, ListIsCurrent
    <2>2. LiveAreOf(net, "detail", selected)'
      BY <1>1, <1>2 DEF Inv, Asked, Current, LiveAreOf
    <2>3. LiveAreOf(net, "history", panel.detail.id)'
      BY <1>1, <1>2 DEF Inv, Asked, Current, LiveAreOf
    <2> QED BY <2>1, <2>2, <2>3
            DEF Inv, Asked, Current, ListIsOfView, HistoryIsOfDetail
  <1>4. Told'
    <2>1. OwnIsTrue'
      BY OwnStaysTrue DEF Inv, TypeInv, StateOK, Told
    <2>2. ASSUME NEW j \in Slots PROVE Honest(net[j])'
      <3>1. CASE j = i
        BY <3>1
      <3>2. CASE j # i
        <4>1. /\ StateOK /\ server' \in [Docs -> [live : BOOLEAN, rev : Nat]]
              /\ Honest(net[j]) /\ (net[j].op # "none" => Typed(net[j]))
          BY DEF Inv, TypeInv, CallsOK, StateOK, Told, AnswersAreTrue
        <4>2. net'[j] = net[j]
          BY <3>2 DEF AnsweredAt
        <4> QED BY <4>1, <4>2, HonestStays
      <3> QED BY <3>1, <3>2
    <2>3. OwnChangesShown'
      BY DEF Inv, Told, OwnChangesShown
    <2> QED BY <2>1, <2>2, <2>3 DEF Told, AnswersAreTrue
  <1>5. OneHandler'
    BY <1>1 DEF Inv, OneHandler
  <1>6. ASSUME left.patient PROVE PatientList' /\ PatientDetail'
    <2>1. PatientList /\ PatientDetail
      BY <1>6 DEF Inv, Patient
    <2>2. PatientList'
      BY <1>1, <2>1 DEF PatientList
    <2>3. \A j \in Slots : net[j].op \in ModalOps \cup {"snapshot"} =>
             net'[j].arg = net[j].arg
      BY <1>1, <1>2
    <2>4. PatientDetail'
      <3>1. \A j \in Slots : net'[j].op = "snapshot" =>
              /\ snapshot'.loading
              /\ \A k \in Slots : net'[k].op = "snapshot" => k = j
        BY <1>1, <2>1 DEF PatientDetail
      <3>2. ASSUME selected # NoDoc
            PROVE  /\ \A j \in Slots : net'[j].op \in ModalOps => net'[j].arg = selected
                   /\ \A j \in Slots : net'[j].op = "snapshot" => net'[j].arg.id = selected
        BY <1>1, <2>1, <2>3, <3>2 DEF PatientDetail
      <3>3. selected # NoDoc /\ ~panel.loading /\ panel.detail # NoDetail =>
              panel.detail.id = selected /\ snapshot.of \in {NoDoc, selected}
        BY <2>1 DEF PatientDetail
      <3> QED BY <3>1, <3>2, <3>3 DEF PatientDetail
    <2> QED BY <2>2, <2>4
  <1> QED BY <1>3, <1>4, <1>5, <1>6 DEF Inv, Patient

LEMMA FailureIsHonest ==
  ASSUME NEW i \in Slots, net'[i].out = Failure, ~Many(net'[i].op)
  PROVE  Honest(net[i])'
  BY FailureIs DEF Honest

LEMMA ServeInv ==
  ASSUME Inv, NEW i \in Slots, Serve(i)
  PROVE  Inv'
  <1> DEFINE op == net[i].op
             arg == net[i].arg
             found == IF op = "list" THEN TRUE ELSE server[DocOf(op, arg)].live
  <1>1. /\ TypeInv' /\ AnsweredAt(i) /\ net'[i].arg = arg
        /\ left'.patient = left.patient
    BY ServeType DEF Inv
  <1>2. CallsOK /\ StateOK /\ IsOpen(net, i) /\ ~Many(op)
    BY DEF Serve, Inv, TypeInv
  <1>3. Typed(net[i])
    BY <1>2, OpenIs
  <1>4. op \in Changing \cup Removing => arg \in Docs
    BY <1>3 DEF Typed, Changing, Removing, OfOne
  <1>5. server' = IF op \in Changing \cup Removing /\ server[arg].live
                  THEN Written(op, arg) ELSE server
    BY DEF Serve
  <1>6. Grows
    <2>1. CASE op \in Changing \cup Removing /\ server[arg].live
      BY <1>2, <1>4, <1>5, <2>1, WrittenGrows
    <2>2. CASE ~(op \in Changing \cup Removing /\ server[arg].live)
      BY <1>2, <1>5, <2>2 DEF Grows, StateOK
    <2> QED BY <2>1, <2>2
  <1>7. Honest(net[i])'
    <2>1. PICK out : /\ net' = ComeBack(net, i, out)
                     /\ out = Failure \/ (found /\ out = Success(Body(op, arg)))
      BY DEF Serve
    <2>2. out = Failure \/ out = Success(out.body)
      BY <2>1 DEF Success
    <2>3. net'[i].out = out /\ net'[i].op = op
      BY <1>2, <2>1, <2>2, ComeBackDoes DEF AnsweredAt
    <2>4. CASE out = Failure
      BY <1>2, <2>3, <2>4, FailureIsHonest
    <2>5. CASE found /\ out = Success(Body(op, arg))
      <3>1. net'[i].out.body = Body(op, arg)
        BY <2>3, <2>5 DEF Success
      <3>2. op = "list" => Shows(net[i].out.body.items)'
        <4> SUFFICES ASSUME op = "list", NEW x \in Body("list", arg).items
                     PROVE  ~own[x.id].gone /\ x.rev >= own[x.id].rev
          BY <3>1 DEF Shows, Serve
        <4>1. x.id \in Docs /\ server[x.id].live /\ x.rev = server[x.id].rev
          BY <1>2, ListBody
        <4>2. own[x.id].rev \in Nat /\ server[x.id].rev \in Nat
          BY <1>2, <4>1 DEF StateOK
        <4> QED BY <4>1, <4>2 DEF Inv, Told, OwnIsTrue
      <3>3. op \in OfOne => Body(op, arg).rev <= server'[arg].rev
        <4> SUFFICES ASSUME op \in OfOne PROVE Body(op, arg).rev <= server'[arg].rev
          OBVIOUS
        <4>1. arg \in Docs /\ server[arg].live /\ server[arg].rev \in Nat
          BY <1>2, <1>3, <2>5 DEF Typed, OfOne, DocOf, StateOK
        <4>2. Body(op, arg).rev = IF op \in Changing THEN server[arg].rev + 1
                                  ELSE server[arg].rev
          BY <1>2, <4>1, OneBody
        <4>3. op \notin Removing
          BY DEF OfOne, Removing
        <4>4. op \in Changing => server'[arg].rev = server[arg].rev + 1
          BY <1>2, <1>5, <4>1, WrittenType
        <4> QED BY <1>5, <4>1, <4>2, <4>3, <4>4
      <3>4. op \in Removing => ~server'[arg].live
        <4> SUFFICES ASSUME op \in Removing PROVE ~server'[arg].live
          OBVIOUS
        <4>1. server[arg].live
          BY <2>5 DEF Removing, DocOf
        <4> QED BY <1>2, <1>4, <1>5, <4>1, WrittenType
      <3> QED BY <1>1, <1>2, <2>3, <3>1, <3>2, <3>3, <3>4 DEF Honest
    <2> QED BY <2>1, <2>4, <2>5
  <1> QED BY <1>1, <1>2, <1>6, <1>7, AnsweredInv DEF Serve

LEMMA RefuseInv ==
  ASSUME Inv, NEW i \in Slots, Refuse(i)
  PROVE  Inv'
  <1>1. /\ TypeInv' /\ AnsweredAt(i) /\ net'[i].arg = net[i].arg
        /\ net'[i].out = Failure /\ left'.patient = left.patient
    BY RefuseType DEF Inv
  <1>2. ~Many(net[i].op) /\ net'[i].op = net[i].op
    BY <1>1 DEF Refuse, AnsweredAt
  <1>3. Honest(net[i])'
    BY <1>1, <1>2, FailureIsHonest
  <1>4. Grows
    BY DEF Refuse, Grows, Inv, TypeInv, StateOK
  <1> QED BY <1>1, <1>2, <1>3, <1>4, AnsweredInv DEF Refuse

LEMMA ServeOneInv ==
  ASSUME Inv, NEW i \in Slots, NEW d \in Docs, ServeOne(i, d)
  PROVE  Inv'
  <1> DEFINE arg == net[i].arg
             new == net'[i].arg
  <1>1. /\ TypeInv' /\ AnsweredAt(i) /\ Many(net[i].op)
        /\ arg \in BulkArgument /\ new \in BulkArgument /\ net'[i].out = Failure
        /\ new.targets = arg.targets /\ new.todo = arg.todo \ {d}
        /\ left'.patient = left.patient
    BY ServeOneType DEF Inv
  <1>2. PICK op \in {"delete", "save"}, good \in BOOLEAN :
              /\ op = "delete" <=> net[i].op = "bulkDelete"
              /\ new.failed = IF good THEN arg.failed ELSE arg.failed \cup {d}
              /\ new.rev = [arg.rev EXCEPT ![d] = IF good THEN server[d].rev + 1 ELSE @]
              /\ server' = server \/ (server' = Written(op, d) /\ server[d].live)
              /\ good => server' = Written(op, d)
    BY ServeOneType DEF Inv
  <1>3. StateOK /\ net'[i].op = net[i].op
    BY <1>1 DEF Inv, TypeInv, AnsweredAt
  <1>4. Grows
    <2>1. CASE server' = server
      BY <1>3, <2>1 DEF Grows, StateOK
    <2>2. CASE server' = Written(op, d) /\ server[d].live
      BY <1>3, <2>2, WrittenGrows
    <2> QED BY <1>2, <2>1, <2>2
  <1> HIDE DEF new
  <1>5. ASSUME NEW e \in (new.targets \ new.failed) \ new.todo
        PROVE  IF net[i].op = "bulkDelete" THEN ~server'[e].live
               ELSE new.rev[e] <= server'[e].rev
    <2>1. e \in Docs /\ server[e].rev \in Nat /\ server'[e].rev \in Nat
      BY <1>1, <1>3, <1>5 DEF BulkArgument, TypeInv, StateOK
    <2>2. CASE e = d
      <3>1. good /\ server' = Written(op, d)
        BY <1>2, <1>5, <2>2
      <3>2. op = "delete" => ~server'[d].live
        BY <1>3, <3>1, WrittenType DEF Removing
      <3>3. op = "save" => server'[d].rev = server[d].rev + 1
        BY <1>3, <3>1, WrittenType DEF Changing
      <3>4. new.rev[d] = server[d].rev + 1
        BY <1>1, <1>2, <3>1 DEF BulkArgument
      <3> QED BY <1>2, <2>1, <2>2, <3>2, <3>3, <3>4
    <2>3. CASE e # d
      <3>1. e \in (arg.targets \ arg.failed) \ arg.todo
        BY <1>1, <1>2, <1>5, <2>3
      <3>2. IF net[i].op = "bulkDelete" THEN ~server[e].live ELSE arg.rev[e] <= server[e].rev
        BY <1>1, <3>1 DEF Inv, Told, AnswersAreTrue, Honest
      <3>3. new.rev[e] = arg.rev[e] /\ arg.rev[e] \in Nat
        BY <1>1, <1>2, <2>1, <2>3 DEF BulkArgument
      <3> QED BY <1>4, <2>1, <3>2, <3>3 DEF Grows
    <2> QED BY <2>2, <2>3
  <1>6. Honest(net[i])'
    <2>1. net'[i].op \notin OfOne \cup Removing \cup {"list"} /\ ~net'[i].out.ok
      BY <1>1, <1>3, FailureIs DEF Many, OfOne, Removing
    <2>2. \A e \in (net'[i].arg.targets \ net'[i].arg.failed) \ net'[i].arg.todo :
             IF net'[i].op = "bulkDelete" THEN ~server'[e].live
             ELSE net'[i].arg.rev[e] <= server'[e].rev
      BY <1>3, <1>5 DEF new
    <2> QED BY <2>1, <2>2 DEF Honest
  <1>7. UNCHANGED <<view, list, selected, panel, history, snapshot, bulk, own>>
    BY DEF ServeOne
  <1> QED BY <1>1, <1>4, <1>6, <1>7, AnsweredInv DEF new

LEMMA ElsewhereInv ==
  ASSUME Inv, NEW d \in Docs, Elsewhere(d)
  PROVE  Inv'
  <1>1. TypeInv' /\ left'.patient = left.patient
    BY ElsewhereType DEF Inv
  <1>2. UNCHANGED <<net, view, list, selected, panel, history, snapshot, bulk, own>>
    BY DEF Elsewhere
  <1>3. Grows
    BY WrittenGrows DEF Elsewhere, Inv, TypeInv
  <1>4. Told'
    <2>1. OwnIsTrue'
      BY <1>1, <1>2, <1>3, OwnStaysTrue DEF Inv, TypeInv, StateOK, Told
    <2>2. ASSUME NEW j \in Slots PROVE Honest(net[j])'
      <3>1. /\ StateOK /\ server' \in [Docs -> [live : BOOLEAN, rev : Nat]]
            /\ Honest(net[j]) /\ (net[j].op # "none" => Typed(net[j]))
        BY <1>1 DEF Inv, TypeInv, CallsOK, StateOK, Told, AnswersAreTrue
      <3> QED BY <1>2, <1>3, <3>1, HonestStays
    <2>3. OwnChangesShown'
      BY <1>2 DEF Inv, Told, OwnChangesShown
    <2> QED BY <2>1, <2>2, <2>3 DEF Told, AnswersAreTrue
  <1>5. Asked' /\ OneHandler'
    BY <1>2 DEF Inv, Asked, Current, ListIsCurrent, LiveAreOf, ListIsOfView,
                HistoryIsOfDetail, OneHandler
  <1>6. ASSUME left.patient PROVE PatientList' /\ PatientDetail'
    BY <1>2, <1>6 DEF Inv, Patient, PatientList, PatientDetail
  <1> QED BY <1>1, <1>4, <1>5, <1>6 DEF Inv, Patient

-----------------------------------------------------------------------------
(* The page opens with one call, for its list.                             *)

LEMMA InitCalls ==
  ASSUME Init
  PROVE  /\ Calls(net)
         /\ \E j \in Slots : /\ net[j] = Fresh("list", view)
                             /\ \A i \in Slots \ {j} : net[i] = NoCall
  <1> DEFINE n == [i \in Slots |-> NoCall]
  <1>1. Calls(n) /\ \A i \in Slots : n[i] = NoCall
    BY DEF Calls
  <1>2. 1 \in FreeSlots(n)
    BY MaxCallsAssumption, NoCallIs DEF FreeSlots, Slots
  <1>3. net = Send(n, "list", view)
    BY DEF Init
  <1> HIDE DEF n
  <1>4. /\ Only(n, net, {Fresh("list", view)})
        /\ Sent(n, net, Fresh("list", view))
    BY <1>1, <1>2, <1>3, SendDoes
  <1> QED BY <1>1, <1>4 DEF Only, Sent, FreeSlots

LEMMA InitType ==
  ASSUME Init
  PROVE  TypeInv
  <1>1. view \in Views
    BY DEF Init, Views
  <1>2. StateOK
    <2>1. server \in [Docs -> [live : BOOLEAN, rev : Nat]]
      BY DEF Init
    <2>2. list \in [items : SUBSET Item, total : Nat, loading : BOOLEAN, error : BOOLEAN,
                    of : Views]
      BY <1>1 DEF Init
    <2>3. panel \in Panel
      BY DEF Init, Panel
    <2>4. /\ history \in [of : Docs \cup {NoDoc}, loading : BOOLEAN]
          /\ snapshot \in [wanted : Nat, of : Docs \cup {NoDoc}, number : Nat,
                           loading : BOOLEAN]
          /\ bulk \in [chosen : SUBSET Docs, busy : BOOLEAN]
          /\ selected \in Docs \cup {NoDoc}
      BY DEF Init
    <2>5. own \in [Docs -> [rev : Nat, gone : BOOLEAN]]
      BY DEF Init
    <2>6. left \in Setting
      BY SettingsAssumption DEF Init
    <2> QED BY <1>1, <2>1, <2>2, <2>3, <2>4, <2>5, <2>6 DEF StateOK
  <1>3. Typed(Fresh("list", view))
    BY <1>1, FreshTyped DEF OfOne, Many
  <1>4. CallsOK
    BY <1>3, InitCalls, NoCallIs DEF CallsOK
  <1> QED BY <1>2, <1>4 DEF TypeInv

LEMMA InitInv ==
  ASSUME Init
  PROVE  Inv
  <1>1. TypeInv
    BY InitType
  <1>2. PICK j \in Slots : /\ net[j] = Fresh("list", view)
                           /\ \A i \in Slots \ {j} : net[i] = NoCall
    BY InitCalls
  <1>3. /\ \A i \in Slots : \/ net[i].op = "list" /\ ~net[i].out.ok
                            \/ net[i].op = "none"
        /\ \A i \in Slots : net[i].op = "list" => i = j /\ net[i].arg = view
    BY <1>2, NoCallIs, FreshIs, FailureIs
  <1>4. Asked
    <2>1. ListIsCurrent
      BY <1>3 DEF Init, ListIsCurrent
    <2>2. LiveAreOf(net, "detail", selected) /\ LiveAreOf(net, "history", panel.detail.id)
      BY <1>3 DEF LiveAreOf
    <2> QED BY <2>1, <2>2 DEF Init, Asked, Current, ListIsOfView, HistoryIsOfDetail
  <1>5. Told
    <2>1. OwnIsTrue
      BY DEF Init, OwnIsTrue
    <2>2. AnswersAreTrue
      BY <1>3 DEF AnswersAreTrue, Honest, OfOne, Removing, Many
    <2>3. OwnChangesShown
      BY DEF Init, OwnChangesShown
    <2> QED BY <2>1, <2>2, <2>3 DEF Told
  <1>6. OneHandler
    BY <1>3 DEF OneHandler, ModalOps
  <1>7. PatientList
    BY <1>3 DEF Init, PatientList, BulkOps
  <1>8. PatientDetail
    BY <1>3 DEF Init, PatientDetail, ModalOps
  <1> QED BY <1>1, <1>4, <1>5, <1>6, <1>7, <1>8 DEF Inv, Patient

LEMMA StutterInv ==
  ASSUME Inv, UNCHANGED vars
  PROVE  Inv'
  <1>1. TypeInv'
    BY DEF vars, Inv, TypeInv, CallsOK, StateOK
  <1>2. Asked' /\ OneHandler'
    BY DEF vars, Inv, Asked, Current, ListIsCurrent, LiveAreOf, ListIsOfView,
           HistoryIsOfDetail, OneHandler
  <1>3. Told'
    <2>1. OwnIsTrue' /\ OwnChangesShown'
      BY DEF vars, Inv, Told, OwnIsTrue, OwnChangesShown
    <2>2. AnswersAreTrue'
      BY DEF vars, Inv, Told, AnswersAreTrue, Honest, Shows
    <2> QED BY <2>1, <2>2 DEF Told
  <1>4. Patient'
    BY DEF vars, Inv, Patient, PatientList, PatientDetail
  <1> QED BY <1>1, <1>2, <1>3, <1>4 DEF Inv

LEMMA NextInv ==
  ASSUME Inv, [Next]_vars
  PROVE  Inv'
  <1>1. ASSUME User PROVE Inv'
    <2>1. CASE \/ \E f \in Filters : ChangeFilter(f)
               \/ ClearFilters
               \/ \E p \in 1 .. Cardinality(Docs) : TurnPage(p)
      BY <2>1, ViewInv
    <2>2. CASE \E d \in Docs : Open(d) \/ ArrowKey(d)
      BY <2>2, OpenInv
    <2>3. CASE CloseModal \/ Edit \/ ResetEditor
      BY <2>3, PanelOnlyInv
    <2>4. CASE \E op \in {"save", "files", "resolve", "delete"} : Ask(op)
      BY <2>4, AskInv
    <2>5. CASE \E n \in 1 .. panel.detail.rev : LoadSnapshot(n)
      BY <2>5, LoadSnapshotInv
    <2>6. CASE \E S \in SUBSET Docs : Choose(S)
      BY <2>6, ChooseInv
    <2>7. CASE \E op \in {"bulkDelete", "bulkReview"} : AskBulk(op)
      BY <2>7, AskBulkInv
    <2>8. CASE DeleteKey
      BY <2>8, DeleteKeyInv
    <2> QED BY <1>1, <2>1, <2>2, <2>3, <2>4, <2>5, <2>6, <2>7, <2>8 DEF User
  <1>2. ASSUME NEW i \in Slots, Served(i) PROVE Inv'
    BY <1>2, ServeInv, RefuseInv, ServeOneInv DEF Served
  <1>3. ASSUME NEW i \in Slots, Answered(i) PROVE Inv'
    BY <1>3, LateInv, OnListInv, OnDetailInv, OnSnapshotInv, FailsInv, OnChangedInv,
       OnResolvedInv, OnDeletedInv, OnDeleteKeyInv, OnBulkInv DEF Answered
  <1>4. ASSUME NEW d \in Docs, Elsewhere(d) PROVE Inv'
    BY <1>4, ElsewhereInv
  <1> QED BY <1>1, <1>2, <1>3, <1>4, StutterInv DEF Next

\* The inductive invariant: the calls under way are of what is on the screen, and
\* true; one handler of the modal at a time; with a patient user one of the list.
THEOREM InvAlways == Spec => []Inv
  <1>1. Init => Inv
    BY InitInv
  <1>2. Inv /\ [Next]_vars => Inv'
    BY NextInv
  <1> QED BY <1>1, <1>2, PTL DEF Spec

\* Every value the page, the server and their calls take is of its type, for every
\* set of documents and filters.
THEOREM TypesHold == Spec => []TypeOK
  <1>1. Inv => TypeOK
    BY DEF Inv, TypeInv, StateOK, TypeOK, Panel
  <1> QED BY <1>1, InvAlways, PTL

\* What is on the screen answers what was asked last, in whatever order the answers
\* have come: the list its filters and page, the history the document; and for a
\* user who leaves the selection alone meanwhile, detail and snapshot the selection.
THEOREM ScreenIsCurrent == Spec => []ShowsWhatWasAsked
  <1>1. Inv => ShowsWhatWasAsked
    BY DEF Inv, Asked, ListIsOfView, HistoryIsOfDetail, Patient, PatientDetail,
           ShowsWhatWasAsked, DetailShown
  <1> QED BY <1>1, InvAlways, PTL

\* A list on the screen shows everything the page has been told it has done: no
\* document it has deleted, none as it was before the page changed it.
THEOREM OwnChangesAreShown == Spec => []OwnChangesShown
  <1>1. Inv => OwnChangesShown
    BY DEF Inv, Told
  <1> QED BY <1>1, InvAlways, PTL

\* What is chosen for a bulk action is on the list shown, for a user who does not
\* turn the page during one.
THEOREM ChoiceIsListed == Spec => []ChosenIsListed
  <1>1. Inv => ChosenIsListed
    BY DEF Inv, Patient, PatientList, ChosenIsListed
  <1> QED BY <1>1, InvAlways, PTL
=============================================================================
