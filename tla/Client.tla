------------------------------- MODULE Client -------------------------------
(* The calls a page of the web frontend has under way, as lib/api-client.ts   *)
(* makes them: a fetch is sent, the server answers it or it fails, and the     *)
(* handler that awaits it goes on. Nothing orders the answers of two calls.    *)
(* An effect that is run again, or a page that is left, does not stop the      *)
(* fetches it has sent: its clean-up sets a flag (`cancelled`), and their      *)
(* continuations look at it. `live` is that flag; a handler that is not an     *)
(* effect has none and goes on whatever happened meanwhile.                    *)
EXTENDS Integers, FiniteSets

CONSTANT MaxCalls       \* calls under way at once

ASSUME MaxCallsAssumption == MaxCalls \in Nat \ {0}

Slots == 1 .. MaxCalls
NoCall == [op |-> "none"]

\* What a fetch comes back with: the body of a 2xx answer, or the error that
\* apiFetch throws for every other status, a body that is no JSON, a lost answer.
Failure == [ok |-> FALSE]
Success(body) == [ok |-> TRUE, body |-> body]

\* The calls of a kind, those that await the server, those that have come back.
CallsOf(net, op) == {i \in Slots : net[i].op = op}
IsOpen(net, i) == net[i].op # "none" /\ ~net[i].back
IsBack(net, i) == net[i].op # "none" /\ net[i].back

FreeSlots(net) == {i \in Slots : net[i].op = "none"}
HasRoom(net, n) == Cardinality(FreeSlots(net)) >= n

\* A fetch is sent. The slot is a name for it: which one is taken is irrelevant.
Send(net, op, arg) ==
    LET i == CHOOSE j \in FreeSlots(net) : TRUE
    IN  [net EXCEPT ![i] = [op |-> op, arg |-> arg, live |-> TRUE, back |-> FALSE,
                            out |-> Failure]]

\* The server's answer or an error reaches the browser.
ComeBack(net, i, out) == [net EXCEPT ![i].back = TRUE, ![i].out = out]

\* The handler that awaited call i goes on.
Settle(net, i) == [net EXCEPT ![i] = NoCall]

\* Fault: the effect returns no clean-up.
Cancel_NoFlag(net, op) == net

\* The clean-up of the effect that sends calls of this kind.
Cancel(net, op) ==
    [i \in Slots |-> IF net[i].op = op THEN [net[i] EXCEPT !.live = FALSE] ELSE net[i]]

\* Fault: one flag serves all runs of the effect, and the clean-up sets it.
Rerun_OneFlag(net, op, arg) == Cancel(Send(net, op, arg), op)

\* An effect is run again: clean-up, then a new fetch.
Rerun(net, op, arg) == Send(Cancel(net, op), op, arg)
=============================================================================
