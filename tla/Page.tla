-------------------------------- MODULE Page --------------------------------
(* What the pages of the frontend have in common: one page is mounted at a     *)
(* time, it has calls under way, and the server answers them in any order,      *)
(* refuses some, or carries one out and the answer is lost. A page module says   *)
(* what the server holds for it (`db`), what its state is (`ui`), and how its    *)
(* calls read and change what the server holds.                                 *)
EXTENDS Client, Sequences

CONSTANT None           \* null, in the state of a page

VARIABLES
    net,            \* calls under way
    db,             \* what the server holds
    ui,             \* the state of the page that is mounted
    left            \* what the behaviour may still do: see Setting

vars == <<net, db, ui, left>>

\* acts: clicks and keys; errors: calls refused; lost: answers lost; others:
\* changes made elsewhere. A patient user starts nothing while a call of his is
\* under way.
Setting == [acts : Nat, errors : Nat, lost : Nat, others : Nat, patient : BOOLEAN]

\* Array.filter: the members of s that are in S, in their order.
Keeping(s, S) ==
    LET kept[n \in 0 .. Len(s)] ==
            IF n = 0 THEN <<>>
            ELSE IF s[n] \in S THEN Append(kept[n - 1], s[n]) ELSE kept[n - 1]
    IN  kept[Len(s)]

NoCalls == [i \in Slots |-> NoCall]
Quiet == \A i \in Slots : net[i].op = "none"
Under(ops) == \E i \in Slots : net[i].op \in ops
Back(i, op) == IsBack(net, i) /\ net[i].op = op
Good(i, op) == Back(i, op) /\ net[i].out.ok
Bad(i, op) == Back(i, op) /\ ~net[i].out.ok

\* The user does something that may send as many as n calls.
Acts(n) == left.acts > 0 /\ HasRoom(net, n) /\ (left.patient => Quiet)
Spent == [left EXCEPT !.acts = @ - 1]

\* The server carries call i out; after is what it holds then, found whether it
\* does not answer by 404, body what it answers.
Serve(i, found, body, after) ==
    /\ IsOpen(net, i)
    /\ db' = IF found THEN after ELSE db
    /\ \/ /\ net' = ComeBack(net, i, IF found THEN Success(body) ELSE Failure)
          /\ left' = left
       \/ /\ left.lost > 0 /\ found /\ after # db
          /\ net' = ComeBack(net, i, Failure)
          /\ left' = [left EXCEPT !.lost = @ - 1]
    /\ ui' = ui

\* The server refuses call i, or cannot be reached.
Refuse(i) ==
    /\ IsOpen(net, i) /\ left.errors > 0
    /\ net' = ComeBack(net, i, Failure)
    /\ left' = [left EXCEPT !.errors = @ - 1]
    /\ UNCHANGED <<db, ui>>

\* The continuation of a cancelled effect, or of a page that was left: nothing.
Late(i) ==
    /\ IsBack(net, i) /\ ~net[i].live
    /\ net' = Settle(net, i)
    /\ UNCHANGED <<db, ui, left>>
=============================================================================
