---------------------------- MODULE FormsProofs ----------------------------
(***************************************************************************)
(* The calls of a page, for every number of calls under way: what the proofs *)
(* about every page rest on. With that, what holds of the rules page, of    *)
(* the backup page, of the form for a post made by hand, of the media       *)
(* gallery and of the mind map, whatever they show and whatever the user    *)
(* does.                                                                    *)
(***************************************************************************)
EXTENDS RulesWorkspace, AdminBackupManager, ManualPostComposer,
        MediaWorkspace, MindMapWorkspace, FiniteSetTheorems, SequenceTheorems,
        WellFoundedInduction, TLAPS

-----------------------------------------------------------------------------
(* One call under way: what a user who waits has.                           *)

Fresh(op, arg) == [op |-> op, arg |-> arg, live |-> TRUE, back |-> FALSE, out |-> Failure]
Answer(c, out) == [c EXCEPT !.back = TRUE, !.out = out]

IsCall(c) ==
    /\ c \in [op : {c.op}, arg : {c.arg}, live : BOOLEAN, back : BOOLEAN, out : {c.out}]
    /\ c.op # "none"
    /\ c.out = Failure \/ c.out = Success(c.out.body)
    /\ ~c.back => c.out = Failure

Alone(i, c) == [j \in Slots |-> IF j = i THEN c ELSE NoCall]

LEMMA NoCallIs == NoCall.op = "none"
  BY DEF NoCall

LEMMA OutcomeIs ==
  ASSUME NEW body
  PROVE  /\ ~Failure.ok /\ Success(body).ok /\ Success(body).body = body
         /\ Failure # Success(body)
  BY DEF Failure, Success

LEMMA OkIs ==
  ASSUME NEW c, IsCall(c)
  PROVE  c.out.ok \in BOOLEAN
  <1>1. Failure.ok = FALSE /\ \A x : Success(x).ok = TRUE
    BY DEF Failure, Success
  <1>2. CASE c.out = Failure
    BY <1>1, <1>2
  <1>3. CASE c.out = Success(c.out.body)
    <2>1. PICK x : c.out = Success(x)
      BY <1>3
    <2> QED BY <1>1, <2>1
  <1> QED BY <1>2, <1>3 DEF IsCall

LEMMA FreshIs ==
  ASSUME NEW op, op # "none", NEW arg
  PROVE  /\ IsCall(Fresh(op, arg))
         /\ Fresh(op, arg).op = op /\ Fresh(op, arg).arg = arg /\ Fresh(op, arg).live
         /\ ~Fresh(op, arg).back /\ Fresh(op, arg).out = Failure /\ ~Fresh(op, arg).out.ok
  BY DEF Fresh, IsCall, Failure

LEMMA AnswerIs ==
  ASSUME NEW c, IsCall(c), NEW out, out = Failure \/ out = Success(out.body)
  PROVE  /\ IsCall(Answer(c, out))
         /\ Answer(c, out).op = c.op /\ Answer(c, out).arg = c.arg
         /\ Answer(c, out).live = c.live
         /\ Answer(c, out).back /\ Answer(c, out).out = out
  BY DEF Answer, IsCall

\* The first call.
LEMMA SendAlone ==
  ASSUME NEW op, NEW arg
  PROVE  \E i \in Slots : Send(NoCalls, op, arg) = Alone(i, Fresh(op, arg))
  <1> DEFINE k == CHOOSE j \in FreeSlots(NoCalls) : TRUE
  <1>1. 1 \in Slots
    BY MaxCallsAssumption DEF Slots
  <1>2. FreeSlots(NoCalls) = Slots
    BY NoCallIs DEF FreeSlots, NoCalls
  <1>3. k \in Slots
    BY <1>1, <1>2
  <1>4. Send(NoCalls, op, arg) = [NoCalls EXCEPT ![k] = Fresh(op, arg)]
    BY DEF Send, Fresh
  <1> HIDE DEF k
  <1>5. [NoCalls EXCEPT ![k] = Fresh(op, arg)] = Alone(k, Fresh(op, arg))
    BY <1>3 DEF NoCalls, Alone
  <1> QED BY <1>3, <1>4, <1>5

\* The call there is, when it is answered and when its handler goes on.
LEMMA AloneIs ==
  ASSUME NEW i \in Slots, NEW c, NEW n, n = Alone(i, c), NEW j \in Slots
  PROVE  /\ n[j].op # "none" => j = i
         /\ n[i] = c
         /\ \A out : ComeBack(n, i, out) = Alone(i, Answer(c, out))
         /\ Settle(n, i) = NoCalls
  <1>1. n[i] = c /\ (j # i => n[j] = NoCall)
    BY DEF Alone
  <1>2. ASSUME NEW out
        PROVE  ComeBack(n, i, out) = Alone(i, Answer(c, out))
    BY DEF ComeBack, Alone, Answer
  <1>3. Settle(n, i) = NoCalls
    BY DEF Settle, Alone, NoCalls
  <1> QED BY <1>1, <1>2, <1>3, NoCallIs

LEMMA AloneOpen ==
  ASSUME NEW i \in Slots, NEW c, NEW n, n = Alone(i, c), NEW j \in Slots,
         IsOpen(n, j) \/ IsBack(n, j)
  PROVE  /\ j = i /\ n[i] = c
         /\ IsOpen(n, j) => c.op # "none" /\ ~c.back
         /\ IsBack(n, j) => c.op # "none" /\ c.back
  BY AloneIs DEF IsOpen, IsBack

LEMMA AloneNotQuiet ==
  ASSUME NEW i \in Slots, NEW c, c.op # "none", net = Alone(i, c)
  PROVE  ~Quiet
  BY AloneIs DEF Quiet

LEMMA NoCallsQuiet ==
  ASSUME net = NoCalls, NEW i \in Slots
  PROVE  ~IsOpen(net, i) /\ ~IsBack(net, i)
  BY NoCallIs DEF NoCalls, IsOpen, IsBack

-----------------------------------------------------------------------------
(* Many calls under way.                                                    *)

\* The calls under way, of the page and at the steps of an update.
Calls(n) ==
    /\ n = [i \in Slots |-> n[i]]
    /\ \A i \in Slots : n[i] = NoCall \/ IsCall(n[i])

\* One slot has changed, to c.
Changed(n, m, i, c) ==
    /\ Calls(m)
    /\ m[i] = c /\ \A j \in Slots \ {i} : m[j] = n[j]

LEMMA NoCallsAre == Calls(NoCalls) /\ \A i \in Slots : NoCalls[i] = NoCall /\ NoCalls[i].op = "none"
  BY NoCallIs DEF Calls, NoCalls

LEMMA QuietIs ==
  ASSUME Calls(net), Quiet
  PROVE  net = NoCalls
  BY DEF Calls, Quiet, NoCalls, IsCall

LEMMA CallIs ==
  ASSUME NEW n, Calls(n), NEW i \in Slots, n[i].op # "none"
  PROVE  IsCall(n[i])
  BY NoCallIs DEF Calls

LEMMA Changes ==
  ASSUME NEW n, Calls(n), NEW i \in Slots, NEW c, c = NoCall \/ IsCall(c)
  PROVE  Changed(n, [n EXCEPT ![i] = c], i, c)
  <1> DEFINE m == [n EXCEPT ![i] = c]
  <1>1. m = [j \in Slots |-> m[j]] /\ m[i] = c /\ \A j \in Slots \ {i} : m[j] = n[j]
    BY DEF Calls
  <1> HIDE DEF m
  <1>2. Calls(m)
    BY <1>1 DEF Calls
  <1>3. Changed(n, m, i, c)
    BY <1>1, <1>2 DEF Changed
  <1> QED BY <1>3 DEF m

LEMMA SettleChanges ==
  ASSUME NEW n, Calls(n), NEW i \in Slots
  PROVE  /\ Changed(n, Settle(n, i), i, NoCall)
         /\ i \in FreeSlots(Settle(n, i))
  <1>1. Changed(n, Settle(n, i), i, NoCall)
    BY Changes DEF Settle
  <1> QED BY <1>1, NoCallIs DEF Changed, FreeSlots

LEMMA ComeBackChanges ==
  ASSUME NEW n, Calls(n), NEW i \in Slots, IsOpen(n, i), NEW out,
         out = Failure \/ out = Success(out.body)
  PROVE  /\ Changed(n, ComeBack(n, i, out), i, Answer(n[i], out))
         /\ IsCall(n[i])
  <1>1. IsCall(n[i])
    BY CallIs DEF IsOpen
  <1>2. ComeBack(n, i, out) = [n EXCEPT ![i] = Answer(n[i], out)]
    BY DEF ComeBack, Answer, Calls
  <1>3. IsCall(Answer(n[i], out))
    BY <1>1, AnswerIs
  <1> QED BY <1>1, <1>2, <1>3, Changes

LEMMA SendChanges ==
  ASSUME NEW n, Calls(n), FreeSlots(n) # {}, NEW op, op # "none", NEW arg
  PROVE  \E i \in FreeSlots(n) : Changed(n, Send(n, op, arg), i, Fresh(op, arg))
  <1> DEFINE k == CHOOSE j \in FreeSlots(n) : TRUE
  <1>1. k \in FreeSlots(n) /\ k \in Slots
    BY DEF FreeSlots
  <1>2. Send(n, op, arg) = [n EXCEPT ![k] = Fresh(op, arg)]
    BY DEF Send, Fresh
  <1> HIDE DEF k
  <1>3. IsCall(Fresh(op, arg))
    BY FreshIs
  <1>4. Changed(n, [n EXCEPT ![k] = Fresh(op, arg)], k, Fresh(op, arg))
    BY <1>1, <1>3, Changes
  <1> QED BY <1>1, <1>2, <1>4

LEMMA Room ==
  ASSUME NEW n, HasRoom(n, 1) \/ HasRoom(n, 2)
  PROVE  FreeSlots(n) # {}
  <1>1. Cardinality({}) = 0
    BY FS_EmptySet
  <1> QED BY <1>1 DEF HasRoom

LEMMA RoomForMore ==
  ASSUME NEW n, HasRoom(n, 2), NEW j \in FreeSlots(n)
  PROVE  FreeSlots(n) \ {j} # {}
  <1>1. IsFiniteSet(Slots)
    BY MaxCallsAssumption, FS_Interval DEF Slots
  <1>2. IsFiniteSet(FreeSlots(n))
    BY <1>1, FS_Subset DEF FreeSlots
  <1>3. Cardinality(FreeSlots(n) \ {j}) = Cardinality(FreeSlots(n)) - 1
    BY <1>2, FS_RemoveElement
  <1>4. Cardinality({}) = 0 /\ Cardinality(FreeSlots(n)) \in Nat
    BY <1>2, FS_EmptySet, FS_CardinalityType
  <1> QED BY <1>3, <1>4 DEF HasRoom

\* Nothing of a kind is under way.
NoneOf(n, op) == \A i \in Slots : n[i].op # op

\* The clean-up of an effect: its calls no longer count, the others are as they were.
LEMMA CancelIs ==
  ASSUME NEW n, Calls(n), NEW op, op # "none"
  PROVE  /\ Calls(Cancel(n, op))
         /\ \A i \in Slots : /\ n[i].op # op => Cancel(n, op)[i] = n[i]
                             /\ Cancel(n, op)[i].op = n[i].op
                             /\ n[i].op = op => ~Cancel(n, op)[i].live
         /\ FreeSlots(Cancel(n, op)) = FreeSlots(n)
         /\ NoneOf(n, op) => Cancel(n, op) = n
  <1> DEFINE m == Cancel(n, op)
             k(i) == [n[i] EXCEPT !.live = FALSE]
  <1>1. ASSUME NEW i \in Slots, n[i].op = op
        PROVE  IsCall(k(i)) /\ k(i).op = op /\ ~k(i).live
    <2>1. IsCall(n[i])
      BY <1>1, CallIs
    <2> QED BY <1>1, <2>1 DEF IsCall
  <1> HIDE DEF k
  <1>2. m = [i \in Slots |-> IF n[i].op = op THEN k(i) ELSE n[i]]
    BY DEF Cancel, k
  <1>3. \A i \in Slots : m[i] = IF n[i].op = op THEN k(i) ELSE n[i]
    BY <1>2
  <1>4. m = [i \in Slots |-> m[i]]
    BY <1>2
  <1>5. NoneOf(n, op) => m = n
    BY <1>2 DEF NoneOf, Calls
  <1> HIDE DEF m
  <1>6. \A i \in Slots : /\ n[i].op # op => m[i] = n[i]
                         /\ m[i].op = n[i].op
                         /\ n[i].op = op => ~m[i].live
    BY <1>1, <1>3
  <1>7. Calls(m)
    BY <1>1, <1>3, <1>4 DEF Calls
  <1>8. FreeSlots(m) = FreeSlots(n)
    BY <1>6 DEF FreeSlots
  <1> QED BY <1>5, <1>6, <1>7, <1>8 DEF m

LEMMA SpentIs ==
  ASSUME left \in Setting, left' = Spent, left.acts > 0
  PROVE  left' \in Setting /\ left'.patient = left.patient
  BY DEF Setting, Spent

LEMMA LeftIs ==
  ASSUME left \in Setting, NEW j, NEW found, NEW body, NEW after,
         Serve(j, found, body, after) \/ Refuse(j)
  PROVE  left' \in Setting /\ left'.patient = left.patient
  <1>1. \/ left' = left
        \/ left.lost > 0 /\ left' = [left EXCEPT !.lost = @ - 1]
        \/ left.errors > 0 /\ left' = [left EXCEPT !.errors = @ - 1]
    BY DEF Serve, Refuse
  <1> QED BY <1>1 DEF Setting

LEMMA HasMaximum ==
  ASSUME NEW n \in Nat, NEW S, S \subseteq 0 .. n, S # {}
  PROVE  \E v \in S : \A w \in S : w <= v
  <1> DEFINE T == {n - v : v \in S}
             R == OpToRel(<, Nat)
  <1> HIDE DEF R
  <1>1. T \subseteq Nat /\ T # {}
    <2>1. \A v \in S : v \in Nat /\ n - v \in Nat
      OBVIOUS
    <2>2. PICK v \in S : TRUE
      OBVIOUS
    <2>3. n - v \in T
      BY <2>2
    <2>4. T \subseteq Nat
      BY <2>1
    <2> QED BY <2>3, <2>4
  <1>2. PICK x \in T : \A y \in T : ~(<<y, x>> \in R)
    BY <1>1, NatLessThanWellFounded, WFMin DEF R
  <1>3. PICK v \in S : x = n - v
    BY <1>2
  <1>4. ASSUME NEW w \in S
        PROVE  w <= v
    <2>1. n - w \in T /\ n - w \in Nat /\ x \in Nat
      BY <1>1, <1>2
    <2>2. ~(<<n - w, x>> \in R)
      BY <1>2, <2>1
    <2>3. ~(n - w < x)
      BY <2>1, <2>2 DEF OpToRel, R
    <2>4. v \in Nat /\ w \in Nat
      OBVIOUS
    <2> QED BY <1>3, <2>3, <2>4
  <1> QED BY <1>4

LEMMA CallsRoom == Calls(NoCalls) /\ FreeSlots(NoCalls) # {} /\ Slots # {}
  <1>1. 1 \in Slots
    BY MaxCallsAssumption DEF Slots
  <1> QED BY <1>1, NoCallsAre DEF FreeSlots

\* Induction over the naturals, for a set: the least number not in it.
LEMMA Induction ==
  ASSUME NEW P, 0 \in P, \A n \in Nat : n \in P => n + 1 \in P
  PROVE  Nat \subseteq P
  <1> DEFINE T == Nat \ P
             R == OpToRel(<, Nat)
  <1> HIDE DEF R
  <1>1. SUFFICES ASSUME T # {} PROVE FALSE
    OBVIOUS
  <1>2. PICK x \in T : \A y \in T : ~(<<y, x>> \in R)
    BY <1>1, NatLessThanWellFounded, WFMin DEF R
  <1>3. x \in Nat /\ x # 0 /\ x - 1 \in Nat /\ (x - 1) + 1 = x
    BY <1>2
  <1>4. <<x - 1, x>> \in R
    BY <1>3 DEF OpToRel, R
  <1>5. x - 1 \in P
    BY <1>2, <1>3, <1>4
  <1> QED BY <1>2, <1>3, <1>5

\* What is kept; two places of it were two places of the list.
LEMMA KeepingIs ==
  ASSUME NEW T, NEW s \in Seq(T), NEW S
  PROVE  LET t == Keeping(s, S)
         IN  /\ t \in Seq(T)
             /\ \A x : x \in ToSet(t) <=> x \in ToSet(s) /\ x \in S
             /\ \A m, n \in DOMAIN t : m # n =>
                   \E i, j \in DOMAIN s : i # j /\ t[m] = s[i] /\ t[n] = s[j]
  <1> DEFINE Step(g, n) ==
               IF n = 0 THEN <<>>
               ELSE IF s[n] \in S THEN Append(g[n - 1], s[n]) ELSE g[n - 1]
             Is(g, k) == g = [n \in 0 .. k |-> Step(g, n)]
             kept == CHOOSE g : Is(g, Len(s))
  <1>0. Len(s) \in Nat /\ DOMAIN s = 1 .. Len(s) /\ \A n \in DOMAIN s : s[n] \in T
    BY LenProperties, ElementOfSeq
  <1>1. Keeping(s, S) = kept[Len(s)]
    BY DEF Keeping
  <1> HIDE DEF kept
  <1>2. \E g : Is(g, Len(s))
    <2> DEFINE P == {k \in Nat : \E g : Is(g, k)}
    <2>1. 0 \in P
      <3> DEFINE g == [n \in 0 .. 0 |-> <<>>]
      <3>1. g = [n \in 0 .. 0 |-> Step(g, n)]
        OBVIOUS
      <3> QED BY <3>1
    <2>2. ASSUME NEW k \in Nat, k \in P
          PROVE  k + 1 \in P
      <3>1. PICK g : Is(g, k)
        BY <2>2
      <3> HIDE DEF Step
      <3> DEFINE h == [n \in 0 .. k + 1 |-> IF n = k + 1 THEN Step(g, n) ELSE g[n]]
      <3>2. \A n \in 0 .. k + 1 : Step(h, n) = Step(g, n)
        BY DEF Step
      <3>3. \A n \in 0 .. k : g[n] = Step(g, n)
        BY <3>1
      <3>4. \A n \in 0 .. k + 1 : h[n] = Step(h, n)
        <4> \A n \in 0 .. k + 1 : n # k + 1 => n \in 0 .. k
          OBVIOUS
        <4> QED BY <3>2, <3>3
      <3>5. h = [n \in 0 .. k + 1 |-> h[n]]
        OBVIOUS
      <3> HIDE DEF h
      <3>6. Is(h, k + 1)
        BY <3>4, <3>5
      <3> QED BY <3>6
    <2> HIDE DEF P, Is
    <2>3. Nat \subseteq P
      BY SMTT(60), <2>1, <2>2, Induction
    <2> QED BY <1>0, <2>3 DEF P
  <1>3. Is(kept, Len(s))
    BY ZenonT(60), <1>2 DEF kept
  <1>4. \A n \in 0 .. Len(s) : kept[n] = Step(kept, n)
    BY <1>3
  <1>5. kept[0] = <<>>
    BY <1>0, <1>4
  <1>6. \A n \in 1 .. Len(s) : kept[n] = IF s[n] \in S THEN Append(kept[n - 1], s[n]) ELSE kept[n - 1]
    BY <1>0, <1>4
  <1> HIDE DEF Is, Step
  <1> DEFINE Of(t, k) ==
               /\ t \in Seq(T)
               /\ \A x : x \in ToSet(t) <=> x \in S /\ \E i \in 1 .. k : s[i] = x
               /\ \A m, n \in DOMAIN t : m # n =>
                     \E i, j \in 1 .. k : i # j /\ t[m] = s[i] /\ t[n] = s[j]
             Right(k) == Of(kept[k], k)
             Fine == {k \in Nat : k <= Len(s) => Right(k)}
  <1>7. 0 \in Fine
    <2>1. \A x : ~(x \in ToSet(<<>>))
      BY DEF ToSet
    <2>2. PICK e : e = kept[0]
      OBVIOUS
    <2>3. e \in Seq(T) /\ Len(e) = 0
      BY <1>5, <2>2
    <2>4. DOMAIN e = {} /\ \A i : ~(i \in 1 .. 0)
      BY <2>3, LenProperties
    <2>5. \A x : ~(x \in ToSet(e))
      BY <1>5, <2>1, <2>2
    <2> QED BY <2>2, <2>3, <2>4, <2>5
  <1>8. ASSUME NEW k \in Nat, k \in Fine
        PROVE  k + 1 \in Fine
    <2>1. SUFFICES ASSUME k + 1 <= Len(s) PROVE Right(k + 1)
      OBVIOUS
    <2>2. Right(k) /\ k + 1 \in 1 .. Len(s) /\ (k + 1) - 1 = k
      BY <1>0, <1>8, <2>1
    <2>3. PICK x : x = s[k + 1]
      OBVIOUS
    <2>4. PICK t : t = kept[k]
      OBVIOUS
    <2>5. PICK u : u = kept[k + 1]
      OBVIOUS
    <2>6. x \in T
      BY <1>0, <2>2, <2>3
    <2>7. /\ t \in Seq(T)
          /\ \A y : y \in ToSet(t) <=> y \in S /\ \E i \in 1 .. k : s[i] = y
          /\ \A m, n \in DOMAIN t : m # n =>
                \E i, j \in 1 .. k : i # j /\ t[m] = s[i] /\ t[n] = s[j]
      BY <2>2, <2>4
    <2>8. /\ u \in Seq(T)
          /\ \A y : y \in ToSet(u) <=> y \in S /\ \E i \in 1 .. k + 1 : s[i] = y
          /\ \A m, n \in DOMAIN u : m # n =>
                \E i, j \in 1 .. k + 1 : i # j /\ u[m] = s[i] /\ u[n] = s[j]
      <3>0. \A i : i \in 1 .. k + 1 <=> i \in 1 .. k \/ i = k + 1
        OBVIOUS
      <3>1. CASE x \notin S
        <4>1. u = t
          BY <1>6, <2>2, <2>3, <2>4, <2>5, <3>1
        <4>2. \A y : y \in S => ((\E i \in 1 .. k : s[i] = y) <=> (\E i \in 1 .. k + 1 : s[i] = y))
          BY <2>3, <3>0, <3>1
        <4>3. \A y : y \in ToSet(u) <=> y \in S /\ \E i \in 1 .. k + 1 : s[i] = y
          BY <2>7, <4>1, <4>2
        <4>4. \A i \in 1 .. k : i \in 1 .. k + 1
          BY <3>0
        <4>5. ASSUME NEW m \in DOMAIN u, NEW n \in DOMAIN u, m # n
              PROVE  \E i, j \in 1 .. k + 1 : i # j /\ u[m] = s[i] /\ u[n] = s[j]
          BY <2>7, <4>1, <4>4, <4>5
        <4> QED BY <2>7, <4>1, <4>3, <4>5
      <3>2. CASE x \in S
        <4>1. u = Append(t, x)
          BY <1>6, <2>2, <2>3, <2>4, <2>5, <3>2
        <4>2. /\ u \in Seq(T) /\ Len(u) = Len(t) + 1
              /\ (\A i \in 1 .. Len(t) : u[i] = t[i]) /\ u[Len(t) + 1] = x
          BY <2>6, <2>7, <4>1, AppendProperties
        <4>3. Len(t) \in Nat /\ DOMAIN t = 1 .. Len(t) /\ DOMAIN u = 1 .. Len(t) + 1
          BY <2>7, <4>2, LenProperties
        <4>4. \A n : n \in DOMAIN u <=> n \in DOMAIN t \/ n = Len(t) + 1
          BY <4>3
        <4>5. \A n \in DOMAIN t : u[n] = t[n] /\ n # Len(t) + 1
          BY <4>2, <4>3
        <4>6. ASSUME NEW y
              PROVE  y \in ToSet(u) <=> y \in S /\ \E i \in 1 .. k + 1 : s[i] = y
          <5>1. y \in ToSet(u) <=> y \in ToSet(t) \/ y = x
            BY <4>2, <4>4, <4>5 DEF ToSet
          <5> QED BY <2>3, <2>7, <3>0, <3>2, <5>1
        <4>7. \A n \in DOMAIN t : \E i \in 1 .. k : t[n] = s[i]
          <5>1. \A n \in DOMAIN t : t[n] \in ToSet(t)
            BY DEF ToSet
          <5> QED BY <2>7, <5>1
        <4>8. ASSUME NEW m \in DOMAIN u, NEW n \in DOMAIN u, m # n
              PROVE  \E i, j \in 1 .. k + 1 : i # j /\ u[m] = s[i] /\ u[n] = s[j]
          <5>1. CASE m \in DOMAIN t /\ n \in DOMAIN t
            BY <2>7, <3>0, <4>5, <4>8, <5>1
          <5>2. CASE m \in DOMAIN t /\ n = Len(t) + 1
            <6>1. PICK i \in 1 .. k : t[m] = s[i]
              BY <4>7, <5>2
            <6>2. i # k + 1 /\ i \in 1 .. k + 1 /\ k + 1 \in 1 .. k + 1
              OBVIOUS
            <6> QED BY <2>3, <4>2, <4>5, <5>2, <6>1, <6>2
          <5>3. CASE m = Len(t) + 1 /\ n \in DOMAIN t
            <6>1. PICK i \in 1 .. k : t[n] = s[i]
              BY <4>7, <5>3
            <6>2. i # k + 1 /\ i \in 1 .. k + 1 /\ k + 1 \in 1 .. k + 1
              OBVIOUS
            <6> QED BY <2>3, <4>2, <4>5, <5>3, <6>1, <6>2
          <5> QED BY <4>4, <4>8, <5>1, <5>2, <5>3
        <4> QED BY <4>2, <4>6, <4>8
      <3> QED BY <3>1, <3>2
    <2> QED BY <2>5, <2>8
  <1> HIDE DEF Of, Right, Fine
  <1>9. Nat \subseteq Fine
    BY <1>7, <1>8, Induction
  <1>10. Right(Len(s))
    BY <1>0, <1>9 DEF Fine
  <1>11. PICK t : t = Keeping(s, S)
    OBVIOUS
  <1>12. /\ t \in Seq(T)
         /\ \A x : x \in ToSet(t) <=> x \in S /\ \E i \in 1 .. Len(s) : s[i] = x
         /\ \A m, n \in DOMAIN t : m # n =>
               \E i, j \in 1 .. Len(s) : i # j /\ t[m] = s[i] /\ t[n] = s[j]
    <2>1. Of(t, Len(s))
      BY <1>1, <1>10, <1>11 DEF Right
    <2> QED BY <2>1 DEF Of
  <1>13. \A x : x \in ToSet(s) <=> \E i \in 1 .. Len(s) : s[i] = x
    BY <1>0 DEF ToSet
  <1> QED BY SMTT(60), <1>0, <1>11, <1>12, <1>13

-----------------------------------------------------------------------------
(* The rules page.                                                          *)

RulesVersion == [set : Rulesets, rules : RulesJson, active : BOOLEAN]

RulesInit ==
    /\ left \in Setting
    /\ \E sets \in SUBSET Rulesets, versions \in Seq(RulesVersion), mode \in {"form", "json"} :
          MountRules(sets, versions, mode)

RulesSpec == RulesInit /\ [][RulesNext]_vars

RulesTyped ==
    /\ db \in [sets : SUBSET Rulesets, versions : Seq(RulesVersion)]
    /\ ui \in [page : {"rules"}, sets : SUBSET Rulesets, set : Rulesets \cup {None},
               detail : [of : Rulesets \cup {None}, versions : SUBSET [id : Nat, active : BOOLEAN]],
               version : Nat \cup {None}, shown : Nat \cup {None},
               editor : [form : RulesJson, json : RulesJson], mode : {"form", "json"},
               listing : BOOLEAN, busy : {ui.busy}]

\* The rulesets there are: the page knows of no other.
RulesKnown == ui.sets \subseteq db.sets /\ ui.set \in db.sets \cup {None}

\* What is shown is of the selected ruleset; its version has been put in the editor
\* or will be.
DetailBelongs ==
    /\ ui.detail.of \in {None, ui.set}
    /\ ui.version # None /\ ui.detail.of # None =>
          \E x \in ui.detail.versions : x.id = ui.version
    /\ \A x \in ui.detail.versions : x.id \in VersionsOf(ui.set)
EditorBelongs == ui.shown \in {None, ui.version}

\* The call of a patient user, at whatever point of its action it is.
ListFits(c) ==
    /\ DetailBelongs /\ EditorBelongs
    /\ \/ c.arg = ForItself
       \/ \E r \in db.sets : c.arg = ToSelect(r)
       \/ c.arg = ToReload(ui.set) /\ ui.set # None
    /\ c.out.ok => c.out.body = db.sets

DetailFits(c) ==
    /\ EditorBelongs
    /\ ui.set # None
    /\ \/ c.arg = [set |-> ui.set, of |-> ForItself]
       \/ \E v \in VersionsOf(ui.set) \cup {None} : c.arg = [set |-> ui.set, of |-> ToSelect(v)]
    /\ c.out.ok => c.out.body = DetailOf(ui.set)

VersionFits(c) ==
    /\ DetailBelongs
    /\ c.arg = ui.version /\ ui.version \in 1 .. Len(db.versions)
    /\ c.out.ok => c.out.body \in [id : {ui.version}, rules : RulesJson]

WriteFits(c) ==
    /\ DetailBelongs /\ EditorBelongs
    /\ \/ /\ c.op \in {"createRuleset", "import"}
          /\ \E r \in Rulesets : c.arg = [set |-> r]
          /\ c.out.ok => c.arg.set \in db.sets
       \/ c.op = "updateRuleset" /\ c.arg = [set |-> ui.set] /\ ui.set # None
       \/ /\ c.op = "createVersion" /\ ui.set # None
          /\ \E rules \in RulesJson : c.arg = [set |-> ui.set, rules |-> rules]
          /\ c.out.ok => c.out.body \in VersionsOf(ui.set)
       \/ /\ c.op = "activate" /\ ui.set # None
          /\ \E v \in VersionsOf(ui.set) : c.arg = [version |-> v, set |-> ui.set]
       \/ c.op \in RulesReads

RulesFits(c) ==
    /\ IsCall(c)
    /\ c.op = "rulesets" => ListFits(c)
    /\ c.op = "rulesDetail" => DetailFits(c)
    /\ c.op = "ruleVersion" => VersionFits(c)
    /\ c.op \notin {"rulesets", "rulesDetail", "ruleVersion"} => WriteFits(c)

RulesWaits ==
    \/ net = NoCalls /\ DetailBelongs /\ EditorBelongs
    \/ \E i \in Slots : \E c \in {net[i]} : net = Alone(i, c) /\ RulesFits(c)

RulesInv ==
    /\ left \in Setting
    /\ left.patient => RulesTyped /\ RulesKnown /\ RulesWaits

RulesGood == RulesTyped /\ RulesKnown /\ RulesWaits
RulesIdle == net = NoCalls /\ DetailBelongs /\ EditorBelongs

LEMMA RulesAtRest ==
  ASSUME RulesGood, Quiet
  PROVE  RulesIdle
  <1>1. ASSUME NEW i \in Slots, NEW c, net = Alone(i, c), RulesFits(c)
        PROVE  FALSE
    BY <1>1, AloneNotQuiet DEF RulesFits, IsCall
  <1> QED BY <1>1 DEF RulesGood, RulesWaits, RulesIdle

LEMMA RulesSent ==
  ASSUME NEW i \in Slots, NEW c, net' = Alone(i, c), RulesFits(c)'
  PROVE  RulesWaits'
  <1>1. net'[i] = c
    BY DEF Alone
  <1> QED BY <1>1 DEF RulesWaits

\* A call is sent by a page at rest.
LEMMA RulesSends ==
  ASSUME RulesIdle, NEW op, op # "none", NEW arg, net' = Send(net, op, arg),
         RulesFits(Fresh(op, arg))'
  PROVE  RulesWaits'
  <1>1. PICK i \in Slots : net' = Alone(i, Fresh(op, arg))
    BY SendAlone DEF RulesIdle
  <1> QED BY <1>1, RulesSent

LEMMA RulesStays ==
  ASSUME RulesIdle, net' = net, DetailBelongs', EditorBelongs'
  PROVE  RulesWaits'
  BY DEF RulesIdle, RulesWaits

LEMMA EditorStays ==
  ASSUME RulesTyped, RulesKnown, RulesIdle, UNCHANGED <<net, db>>,
         NEW e \in [form : RulesJson, json : RulesJson], ui' = [ui EXCEPT !.editor = e]
  PROVE  RulesGood'
  <1>1. RulesTyped'
    BY DEF RulesTyped
  <1>2. RulesKnown'
    BY DEF RulesTyped, RulesKnown
  <1>3. DetailBelongs' /\ EditorBelongs'
    BY DEF RulesTyped, RulesIdle, DetailBelongs, EditorBelongs, VersionsOf
  <1> QED BY <1>1, <1>2, <1>3, RulesStays DEF RulesGood

LEMMA RefreshRulesetsStep ==
  ASSUME RulesGood, RulesIdle, RefreshRulesets
  PROVE  RulesGood'
  <1> USE DEF RefreshRulesets, RulesGood
  <1>1. RulesTyped' /\ RulesKnown'
    BY DEF RulesTyped, RulesKnown
  <1>2. DetailBelongs' /\ EditorBelongs'
    BY DEF RulesTyped, RulesIdle, DetailBelongs, EditorBelongs, VersionsOf
  <1>3. RulesFits(Fresh("rulesets", ForItself))'
    BY <1>2, FreshIs DEF RulesFits, ListFits
  <1> QED BY <1>1, <1>3, RulesSends

LEMMA ChooseRulesetStep ==
  ASSUME RulesGood, RulesIdle, NEW r \in Rulesets, ChooseRuleset(r)
  PROVE  RulesGood'
  <1> USE DEF ChooseRuleset, RulesGood
  <1> DEFINE arg == [set |-> r, of |-> ForItself]
  <1>1. RulesTyped' /\ RulesKnown' /\ ui'.set = r
    BY DEF RulesTyped, RulesKnown
  <1>2. EditorBelongs'
    BY DEF RulesTyped, RulesIdle, EditorBelongs
  <1>3. RulesFits(Fresh("rulesDetail", arg))'
    BY <1>1, <1>2, FreshIs, RulesetsAssumption DEF RulesFits, DetailFits
  <1>4. net' = Send(net, "rulesDetail", arg)
    BY RulesetsAssumption DEF SelectSet
  <1> QED BY <1>1, <1>3, <1>4, RulesSends

LEMMA ChooseVersionStep ==
  ASSUME RulesGood, RulesIdle, NEW v, ChooseVersion(v)
  PROVE  RulesGood'
  <1> USE DEF ChooseVersion, RulesGood
  <1>1. PICK x \in ui.detail.versions : x.id = v /\ v # ui.version
    OBVIOUS
  <1>2. v \in Nat /\ v # None /\ v \in 1 .. Len(db.versions)
    BY <1>1, RulesetsAssumption DEF RulesTyped, RulesIdle, DetailBelongs, VersionsOf
  <1>3. RulesTyped' /\ RulesKnown' /\ ui'.version = v
    BY <1>2 DEF RulesTyped, RulesKnown
  <1>4. DetailBelongs'
    BY <1>1 DEF RulesTyped, RulesIdle, DetailBelongs, VersionsOf
  <1>5. RulesFits(Fresh("ruleVersion", v))'
    BY <1>2, <1>3, <1>4, FreshIs DEF RulesFits, VersionFits
  <1>6. net' = Send(net, "ruleVersion", v)
    BY <1>1, <1>2 DEF SelectVersion
  <1> QED BY <1>3, <1>5, <1>6, RulesSends

LEMMA EditFormStep ==
  ASSUME RulesGood, RulesIdle, NEW t \in Texts, EditForm(t)
  PROVE  RulesGood'
  <1> DEFINE form == [ui.editor.form EXCEPT !.text = t]
             e == [ui.editor EXCEPT !.form = form, !.json = form]
  <1>1. form \in RulesJson /\ ui.editor \in [form : RulesJson, json : RulesJson]
    BY DEF RulesGood, RulesTyped, RulesJson
  <1>2. ui' = [ui EXCEPT !.editor = e] /\ UNCHANGED <<net, db>>
    BY DEF EditForm
  <1> HIDE DEF form
  <1>3. e \in [form : RulesJson, json : RulesJson]
    BY <1>1
  <1> HIDE DEF e
  <1> QED BY <1>2, <1>3, EditorStays DEF RulesGood

LEMMA EditJsonStep ==
  ASSUME RulesGood, RulesIdle, NEW t \in Texts, EditJson(t)
  PROVE  RulesGood'
  <1> DEFINE json == [ui.editor.json EXCEPT !.text = t]
             e == [ui.editor EXCEPT !.json = json]
  <1>1. json \in RulesJson /\ ui.editor \in [form : RulesJson, json : RulesJson]
    BY DEF RulesGood, RulesTyped, RulesJson
  <1>2. ui' = [ui EXCEPT !.editor = e] /\ UNCHANGED <<net, db>>
    BY DEF EditJson
  <1> HIDE DEF json
  <1>3. e \in [form : RulesJson, json : RulesJson]
    BY <1>1
  <1> HIDE DEF e
  <1> QED BY <1>2, <1>3, EditorStays DEF RulesGood

LEMMA ApplyJsonStep ==
  ASSUME RulesGood, RulesIdle, ApplyJson
  PROVE  RulesGood'
  <1> DEFINE form == ToForm(ui.editor.json)
             e == [ui.editor EXCEPT !.form = form, !.json = form]
  <1>1. form \in RulesJson /\ ui.editor \in [form : RulesJson, json : RulesJson]
    BY DEF RulesGood, RulesTyped, RulesJson, ToForm
  <1>2. ui' = [ui EXCEPT !.editor = e] /\ UNCHANGED <<net, db>>
    BY DEF ApplyJson
  <1> HIDE DEF form
  <1>3. e \in [form : RulesJson, json : RulesJson]
    BY <1>1
  <1> HIDE DEF e
  <1> QED BY <1>2, <1>3, EditorStays DEF RulesGood

\* An action of the page: it changes the busy flag, and the editor when it posts it.
LEMMA ActionStarts ==
  ASSUME RulesGood, RulesIdle, NEW action, NEW op, op # "none", NEW arg,
         NEW e \in [form : RulesJson, json : RulesJson],
         ui' = [ui EXCEPT !.busy = action, !.editor = e], db' = db,
         net' = Send(net, op, arg),
         op \notin {"rulesets", "rulesDetail", "ruleVersion"},
         DetailBelongs' /\ EditorBelongs' /\ ui'.set = ui.set => WriteFits(Fresh(op, arg))'
  PROVE  RulesGood'
  <1>1. RulesTyped' /\ RulesKnown' /\ ui'.set = ui.set
    BY DEF RulesGood, RulesTyped, RulesKnown
  <1>2. DetailBelongs' /\ EditorBelongs'
    BY DEF RulesGood, RulesTyped, RulesIdle, DetailBelongs, EditorBelongs, VersionsOf
  <1>3. RulesFits(Fresh(op, arg))'
    BY <1>1, <1>2, FreshIs DEF RulesFits
  <1> QED BY <1>1, <1>3, RulesSends DEF RulesGood

LEMMA RunsAction ==
  ASSUME RulesGood, RulesIdle, NEW action, action.op # "none", NEW arg, RunAction(action, arg),
         action.op \notin {"rulesets", "rulesDetail", "ruleVersion"},
         DetailBelongs' /\ EditorBelongs' /\ ui'.set = ui.set => WriteFits(Fresh(action.op, arg))'
  PROVE  RulesGood'
  <1>1. PICK e : e = ui.editor
    OBVIOUS
  <1>2. e \in [form : RulesJson, json : RulesJson]
    BY <1>1 DEF RulesGood, RulesTyped
  <1>3. ui' = [ui EXCEPT !.busy = action, !.editor = e] /\ db' = db
    BY <1>1 DEF RunAction, RulesGood, RulesTyped
  <1>4. net' = Send(net, action.op, arg)
    BY DEF RunAction
  <1> QED BY <1>2, <1>3, <1>4, ActionStarts

LEMMA CreateRulesetStep ==
  ASSUME RulesGood, RulesIdle, NEW r \in Rulesets, NEW op, CreateRuleset(op, r)
  PROVE  RulesGood'
  <1>1. PICK arg : arg = [set |-> r]
    OBVIOUS
  <1>2. PICK action : action = Action(op, None)
    OBVIOUS
  <1>3. action.op = op /\ op \in {"createRuleset", "import"} /\ RunAction(action, arg)
    BY <1>1, <1>2 DEF CreateRuleset, Action
  <1>4. DetailBelongs' /\ EditorBelongs' => WriteFits(Fresh(action.op, arg))'
    BY <1>1, <1>3, FreshIs DEF WriteFits
  <1> QED BY <1>3, <1>4, RunsAction

LEMMA UpdateRulesetStep ==
  ASSUME RulesGood, RulesIdle, UpdateRuleset
  PROVE  RulesGood'
  <1>1. PICK arg : arg = [set |-> ui.set]
    OBVIOUS
  <1>2. PICK action : action = Action("updateRuleset", None)
    OBVIOUS
  <1>3. action.op = "updateRuleset" /\ RunAction(action, arg)
    BY <1>1, <1>2 DEF UpdateRuleset, Action
  <1>4. ui.set # None
    BY RulesetsAssumption DEF UpdateRuleset, RulesGood, RulesTyped
  <1>5. DetailBelongs' /\ EditorBelongs' /\ ui'.set = ui.set => WriteFits(Fresh(action.op, arg))'
    BY <1>1, <1>3, <1>4, FreshIs DEF WriteFits
  <1> QED BY <1>3, <1>5, RunsAction

LEMMA CreateVersionStep ==
  ASSUME RulesGood, RulesIdle, CreateVersion
  PROVE  RulesGood'
  <1> DEFINE posted == IF ui.mode = "json" THEN ui.editor.json ELSE ui.editor.form
  <1>1. posted \in RulesJson
    BY DEF RulesGood, RulesTyped
  <1>2. PICK rules \in RulesJson : rules = posted
    BY <1>1
  <1>3. PICK arg : arg = [set |-> ui.set, rules |-> rules]
    OBVIOUS
  <1>4. PICK action : action = Action("createVersion", None)
    OBVIOUS
  <1>5. PICK e : e = Editing(rules)
    OBVIOUS
  <1>6. e \in [form : RulesJson, json : RulesJson]
    BY <1>5 DEF Editing, ToForm, RulesJson
  <1>7. /\ ui' = [ui EXCEPT !.busy = action, !.editor = e] /\ db' = db
        /\ net' = Send(net, "createVersion", arg) /\ ui.set # None
    BY <1>2, <1>3, <1>4, <1>5 DEF CreateVersion
  <1>8. DetailBelongs' /\ EditorBelongs' /\ ui'.set = ui.set
          => WriteFits(Fresh("createVersion", arg))'
    BY <1>3, <1>7, FreshIs DEF WriteFits
  <1> QED BY <1>6, <1>7, <1>8, ActionStarts

LEMMA ActivateVersionStep ==
  ASSUME RulesGood, RulesIdle, NEW v, ActivateVersion(v)
  PROVE  RulesGood'
  <1>1. PICK arg : arg = [version |-> v, set |-> ui.set]
    OBVIOUS
  <1>2. PICK action : action = Action("activate", v)
    OBVIOUS
  <1>3. action.op = "activate" /\ RunAction(action, arg) /\ db' = db
    BY <1>1, <1>2 DEF ActivateVersion, Action, RunAction
  <1>4. v \in VersionsOf(ui.set)
    BY DEF ActivateVersion, RulesIdle, DetailBelongs
  <1>5. ui.set # None
    <2>1. db.versions \in Seq(RulesVersion)
      BY DEF RulesGood, RulesTyped
    <2>2. db.versions[v] \in RulesVersion /\ db.versions[v].set = ui.set
      BY <1>4, <2>1 DEF VersionsOf
    <2> QED BY <2>2, RulesetsAssumption DEF RulesVersion
  <1>6. ui'.set = ui.set => v \in VersionsOf(ui.set)'
    BY <1>3, <1>4 DEF VersionsOf
  <1>7. DetailBelongs' /\ EditorBelongs' /\ ui'.set = ui.set => WriteFits(Fresh(action.op, arg))'
    BY <1>1, <1>3, <1>5, <1>6, FreshIs DEF WriteFits
  <1> QED BY <1>3, <1>7, RunsAction

LEMMA ExamineStep ==
  ASSUME RulesGood, RulesIdle, NEW op \in RulesReads, Examine(op)
  PROVE  RulesGood'
  <1>1. PICK arg : arg = [of |-> IF op = "export" THEN ui.set ELSE ui.version]
    OBVIOUS
  <1>2. PICK action : action = Action(op, None)
    OBVIOUS
  <1>3. action.op = op /\ RunAction(action, arg)
    BY <1>1, <1>2 DEF Examine, Action
  <1>4. op \notin {"none", "rulesets", "rulesDetail", "ruleVersion"}
    BY ReadsAssumption
  <1>5. DetailBelongs' /\ EditorBelongs' => WriteFits(Fresh(action.op, arg))'
    BY <1>3, <1>4, FreshIs DEF WriteFits
  <1> QED BY <1>3, <1>4, <1>5, RunsAction

\* A user who waits starts from a page at rest.
LEMMA RulesUserStep ==
  ASSUME RulesInv, left.patient, RulesUser
  PROVE  RulesInv'
  <1>1. left.acts > 0 /\ Quiet /\ left' = Spent
    BY ZenonT(60) DEF RulesUser, RefreshRulesets, ChooseRuleset, ChooseVersion, EditForm, EditJson,
           ApplyJson, CreateRuleset, UpdateRuleset, CreateVersion, ActivateVersion, Examine,
           RunAction, OnRules, Acts
  <1>2. RulesGood /\ RulesIdle
    BY <1>1, RulesAtRest DEF RulesInv, RulesGood
  <1>3. RulesGood'
    BY <1>2, RefreshRulesetsStep, ChooseRulesetStep, ChooseVersionStep, EditFormStep,
       EditJsonStep, ApplyJsonStep, CreateRulesetStep, UpdateRulesetStep, CreateVersionStep,
       ActivateVersionStep, ExamineStep DEF RulesUser
  <1> QED BY ZenonT(60), <1>1, <1>3, SpentIs DEF RulesInv, RulesGood, RulesTyped

\* What the server holds only grows; a load leaves it as it is.
LEMMA RulesAfterIs ==
  ASSUME RulesTyped, NEW c, RulesFits(c), RulesKnown, db' \in {db, RulesAfter(c.op, c.arg)}
  PROVE  /\ db' \in [sets : SUBSET Rulesets, versions : Seq(RulesVersion)]
         /\ db.sets \subseteq db'.sets
         /\ Len(db'.versions) >= Len(db.versions)
         /\ \A v \in 1 .. Len(db.versions) : db'.versions[v].set = db.versions[v].set
         /\ c.op \notin {"createRuleset", "import", "createVersion", "activate"} => db' = db
  <1>1. /\ db \in [sets : SUBSET Rulesets, versions : Seq(RulesVersion)]
        /\ db.versions \in Seq(RulesVersion)
    BY DEF RulesTyped
  <1>2. CASE db' = db
    BY <1>1, <1>2
  <1>3. CASE c.op \in {"createRuleset", "import"} /\ db' = RulesAfter(c.op, c.arg)
    <2>1. c.arg.set \in Rulesets
      <3>1. c.op \notin RulesReads /\ WriteFits(c)
        BY <1>3, ReadsAssumption DEF RulesFits
      <3>2. PICK r \in Rulesets : c.arg = [set |-> r]
        BY <1>3, <3>1 DEF WriteFits
      <3> QED BY <3>2
    <2>2. db' = [db EXCEPT !.sets = db.sets \cup {c.arg.set}]
      BY <1>3 DEF RulesAfter
    <2> QED BY <1>1, <1>3, <2>1, <2>2
  <1>4. CASE c.op = "createVersion" /\ db' = RulesAfter(c.op, c.arg)
    <2>1. PICK rules \in RulesJson : c.arg = [set |-> ui.set, rules |-> rules]
      BY <1>4, ReadsAssumption DEF RulesFits, WriteFits
    <2>2. PICK row : row = [set |-> c.arg.set, rules |-> c.arg.rules, active |-> FALSE]
      OBVIOUS
    <2>3. row \in RulesVersion
      BY <1>4, <2>1, <2>2, ReadsAssumption DEF RulesVersion, RulesTyped, RulesFits, WriteFits
    <2>4. db' = [db EXCEPT !.versions = Append(db.versions, row)]
      BY <1>4, <2>2 DEF RulesAfter
    <2>5. /\ Append(db.versions, row) \in Seq(RulesVersion)
          /\ Len(Append(db.versions, row)) = Len(db.versions) + 1
          /\ \A v \in 1 .. Len(db.versions) : Append(db.versions, row)[v] = db.versions[v]
      BY <1>1, <2>3
    <2>6. /\ db' \in [sets : SUBSET Rulesets, versions : Seq(RulesVersion)]
          /\ db'.sets = db.sets /\ db'.versions = Append(db.versions, row)
      BY <1>1, <2>4, <2>5
    <2> QED BY <1>1, <1>4, <2>5, <2>6
  <1>5. CASE c.op = "activate" /\ db' = RulesAfter(c.op, c.arg)
    <2> DEFINE after == [v \in DOMAIN db.versions |->
                 IF db.versions[v].set = db.versions[c.arg.version].set
                 THEN [db.versions[v] EXCEPT !.active = (v = c.arg.version)]
                 ELSE db.versions[v]]
    <2>1. db' = [db EXCEPT !.versions = after]
      BY <1>5 DEF RulesAfter
    <2>2. DOMAIN db.versions = 1 .. Len(db.versions) /\ Len(db.versions) \in Nat
      BY <1>1
    <2>3. ASSUME NEW v \in 1 .. Len(db.versions)
          PROVE  after[v] \in RulesVersion /\ after[v].set = db.versions[v].set
      <3>1. db.versions[v] \in RulesVersion
        BY <1>1
      <3>2. PICK b \in BOOLEAN : b = (v = c.arg.version)
        OBVIOUS
      <3>3. [db.versions[v] EXCEPT !.active = b] \in RulesVersion
        BY <3>1 DEF RulesVersion
      <3>4. [db.versions[v] EXCEPT !.active = b].set = db.versions[v].set
        BY <3>1 DEF RulesVersion
      <3> QED BY <2>2, <3>1, <3>2, <3>3, <3>4
    <2>4. DOMAIN after = 1 .. Len(db.versions)
      BY <2>2
    <2>5. after = [v \in 1 .. Len(db.versions) |-> after[v]]
      BY <2>2
    <2> HIDE DEF after
    <2>6. after \in Seq(RulesVersion) /\ Len(after) = Len(db.versions)
      <3>1. after \in [1 .. Len(db.versions) -> RulesVersion]
        BY <2>3, <2>5
      <3> QED BY <2>2, <3>1
    <2>7. /\ db' \in [sets : SUBSET Rulesets, versions : Seq(RulesVersion)]
          /\ db'.sets = db.sets /\ db'.versions = after
      BY <1>1, <2>1, <2>6
    <2> QED BY <1>1, <1>5, <2>2, <2>3, <2>6, <2>7
  <1>6. CASE c.op \notin {"createRuleset", "import", "createVersion", "activate"}
    BY <1>1, <1>6 DEF RulesAfter
  <1> QED BY <1>2, <1>3, <1>4, <1>5, <1>6

\* What belongs together stays together while the server's tables grow.
LEMMA BelongsStays ==
  ASSUME RulesTyped, UNCHANGED ui,
         Len(db'.versions) >= Len(db.versions), Len(db.versions) \in Nat, Len(db'.versions) \in Nat,
         \A v \in 1 .. Len(db.versions) : db'.versions[v].set = db.versions[v].set
  PROVE  /\ \A r : VersionsOf(r) \subseteq VersionsOf(r)'
         /\ DetailBelongs => DetailBelongs'
         /\ EditorBelongs => EditorBelongs'
  <1>1. \A r : VersionsOf(r) \subseteq VersionsOf(r)'
    BY DEF VersionsOf
  <1>2. DetailBelongs => DetailBelongs'
    BY <1>1 DEF DetailBelongs
  <1> QED BY <1>1, <1>2 DEF EditorBelongs

LEMMA RulesBodyIs ==
  ASSUME NEW arg
  PROVE  /\ RulesBody("rulesets", arg) = db.sets
         /\ RulesBody("rulesDetail", arg) = DetailOf(arg.set)
         /\ RulesBody("ruleVersion", arg) = [id |-> arg, rules |-> db.versions[arg].rules]
         /\ RulesBody("createVersion", arg) = Len(db.versions) + 1
  BY Zenon DEF RulesBody

\* The call of a patient user comes back, answered, lost or refused.
LEMMA RulesComesBack ==
  ASSUME RulesTyped, RulesKnown, NEW i \in Slots, NEW c, RulesFits(c), NEW out,
         net = Alone(i, c), net' = ComeBack(net, i, out), ui' = ui,
         \/ out = Failure /\ db' \in {db, RulesAfter(c.op, c.arg)}
         \/ /\ out = Success(RulesBody(c.op, c.arg))
            /\ db' = RulesAfter(c.op, c.arg)
  PROVE  RulesGood'
  <1> DEFINE a == Answer(c, out)
  <1>1. /\ db' \in [sets : SUBSET Rulesets, versions : Seq(RulesVersion)]
        /\ db.sets \subseteq db'.sets
        /\ Len(db'.versions) >= Len(db.versions)
        /\ \A v \in 1 .. Len(db.versions) : db'.versions[v].set = db.versions[v].set
        /\ c.op \notin {"createRuleset", "import", "createVersion", "activate"} => db' = db
    BY RulesAfterIs
  <1>2. /\ db.versions \in Seq(RulesVersion) /\ db'.versions \in Seq(RulesVersion)
        /\ Len(db.versions) \in Nat /\ Len(db'.versions) \in Nat
    BY <1>1 DEF RulesTyped
  <1>3. /\ \A r : VersionsOf(r) \subseteq VersionsOf(r)'
        /\ DetailBelongs => DetailBelongs'
        /\ EditorBelongs => EditorBelongs'
    BY <1>1, <1>2, BelongsStays
  <1>4. /\ a.op = c.op /\ a.arg = c.arg /\ a.out = out /\ IsCall(a)
        /\ out.ok => out = Success(RulesBody(c.op, c.arg)) /\ db' = RulesAfter(c.op, c.arg)
        /\ out.ok => out.body = RulesBody(c.op, c.arg)
    BY AnswerIs, OutcomeIs DEF RulesFits
  <1>5. net' = Alone(i, a)
    BY AloneIs
  <1>6. RulesTyped' /\ RulesKnown'
    BY <1>1 DEF RulesTyped, RulesKnown
  <1>7. PICK d : d = a
    OBVIOUS
  <1> HIDE DEF a
  <1>8. ASSUME c.op = "rulesets"
        PROVE  RulesFits(d)'
    <2>1. ListFits(c) /\ db' = db
      BY <1>1, <1>8 DEF RulesFits
    <2>2. out.ok => out.body = db.sets
      BY <1>4, <1>8, RulesBodyIs
    <2>3. ListFits(d)'
      BY <1>3, <1>4, <1>7, <2>1, <2>2 DEF ListFits
    <2> QED BY <1>4, <1>7, <1>8, <2>3 DEF RulesFits
  <1>9. ASSUME c.op = "rulesDetail"
        PROVE  RulesFits(d)'
    <2>1. DetailFits(c) /\ db' = db
      BY <1>1, <1>9 DEF RulesFits
    <2>2. out.ok => out.body = DetailOf(ui.set)
      <3>1. c.arg.set = ui.set
        <4>1. PICK of : c.arg = [set |-> ui.set, of |-> of]
          BY <2>1 DEF DetailFits
        <4> QED BY <4>1
      <3>2. RulesBody(c.op, c.arg) = DetailOf(c.arg.set)
        BY <1>9, RulesBodyIs
      <3> QED BY <1>4, <3>1, <3>2
    <2>3. DetailOf(ui.set)' = DetailOf(ui.set) /\ \A r : VersionsOf(r)' = VersionsOf(r)
      BY <2>1 DEF DetailOf, VersionsOf
    <2>4. DetailFits(d)'
      BY <1>3, <1>4, <1>7, <2>1, <2>2, <2>3 DEF DetailFits
    <2> QED BY <1>4, <1>7, <1>9, <2>4 DEF RulesFits
  <1>10. ASSUME c.op = "ruleVersion"
        PROVE  RulesFits(d)'
    <2>1. VersionFits(c) /\ db' = db
      BY <1>1, <1>10 DEF RulesFits
    <2>2. db.versions[ui.version].rules \in RulesJson
      <3>1. ui.version \in 1 .. Len(db.versions)
        BY <2>1 DEF VersionFits
      <3>2. db.versions[ui.version] \in RulesVersion
        BY <1>2, <3>1
      <3> QED BY <3>2 DEF RulesVersion
    <2>3. ASSUME out.ok
          PROVE  out.body \in [id : {ui.version}, rules : RulesJson]
      BY <1>4, <1>10, <2>1, <2>2, <2>3, RulesBodyIs DEF VersionFits
    <2>4. VersionFits(d)'
      BY <1>3, <1>4, <1>7, <2>1, <2>3 DEF VersionFits
    <2> QED BY <1>4, <1>7, <1>10, <2>4 DEF RulesFits
  <1>11. ASSUME c.op \notin {"rulesets", "rulesDetail", "ruleVersion"}
        PROVE  RulesFits(d)'
    <2>1. WriteFits(c)
      BY <1>11 DEF RulesFits
    <2>2. ASSUME c.op \in {"createRuleset", "import"}, out.ok
          PROVE  c.arg.set \in db'.sets
      <3>1. db' = [db EXCEPT !.sets = db.sets \cup {c.arg.set}]
        BY <1>4, <2>2 DEF RulesAfter
      <3> QED BY <3>1 DEF RulesTyped
    <2>3. ASSUME c.op = "createVersion", out.ok
          PROVE  out.body \in VersionsOf(ui.set)'
      <3>1. PICK rules \in RulesJson : c.arg = [set |-> ui.set, rules |-> rules]
        BY <2>1, <2>3, ReadsAssumption DEF WriteFits
      <3>2. PICK row : row = [set |-> c.arg.set, rules |-> c.arg.rules, active |-> FALSE]
        OBVIOUS
      <3>3. row \in RulesVersion /\ row.set = ui.set
        BY <2>1, <2>3, <3>1, <3>2, ReadsAssumption DEF RulesVersion, RulesTyped, WriteFits
      <3>4. db' = [db EXCEPT !.versions = Append(db.versions, row)]
        BY <1>4, <2>3, <3>2 DEF RulesAfter
      <3>5. db'.versions = Append(db.versions, row)
        BY <3>4 DEF RulesTyped
      <3>6. out.body = Len(db.versions) + 1
        BY <1>4, <2>3, RulesBodyIs
      <3>7. Len(db'.versions) = Len(db.versions) + 1 /\ db'.versions[Len(db.versions) + 1] = row
        BY <1>2, <3>3, <3>5
      <3> QED BY <1>2, <3>3, <3>6, <3>7 DEF VersionsOf
    <2>4. WriteFits(d)'
      BY <1>3, <1>4, <1>7, <2>1, <2>2, <2>3 DEF WriteFits
    <2> QED BY <1>4, <1>7, <1>11, <2>4 DEF RulesFits
  <1>12. RulesFits(d)'
    BY <1>8, <1>9, <1>10, <1>11
  <1> QED BY <1>5, <1>6, <1>7, <1>12, RulesSent DEF RulesGood

LEMMA RulesSendsNext ==
  ASSUME NEW op, op # "none", NEW arg, net' = Send(NoCalls, op, arg), RulesFits(Fresh(op, arg))'
  PROVE  RulesWaits'
  <1>1. PICK i \in Slots : net' = Alone(i, Fresh(op, arg))
    BY SendAlone
  <1> QED BY <1>1, RulesSent

\* The call that is answered or whose handler goes on is the only one.
LEMMA RulesHas ==
  ASSUME RulesGood, NEW j \in Slots, IsOpen(net, j) \/ IsBack(net, j)
  PROVE  \E c : /\ net = Alone(j, c) /\ net[j] = c /\ RulesFits(c) /\ IsCall(c)
                /\ Settle(net, j) = NoCalls
  <1>1. PICK i \in Slots : \E c : net = Alone(i, c) /\ RulesFits(c)
    BY NoCallsQuiet DEF RulesGood, RulesWaits
  <1>2. PICK c : net = Alone(i, c) /\ RulesFits(c)
    BY <1>1
  <1> QED BY <1>2, AloneOpen, AloneIs DEF RulesFits

LEMMA RulesServedStep ==
  ASSUME RulesInv, left.patient, NEW j \in Slots, RulesServed(j) \/ Refuse(j)
  PROVE  RulesInv'
  <1>1. IsOpen(net, j)
    BY DEF RulesServed, Serve, Refuse
  <1>2. PICK c : net = Alone(j, c) /\ net[j] = c /\ RulesFits(c) /\ IsCall(c)
    BY <1>1, RulesHas DEF RulesInv, RulesGood
  <1>3. PICK out : /\ net' = ComeBack(net, j, out) /\ ui' = ui
                   /\ \/ out = Failure /\ db' \in {db, RulesAfter(c.op, c.arg)}
                      \/ /\ out = Success(RulesBody(c.op, c.arg))
                         /\ db' = RulesAfter(c.op, c.arg)
    <2>1. CASE Refuse(j)
      BY <2>1 DEF Refuse
    <2>2. CASE RulesServed(j)
      <3>1. Serve(j, RulesFound(c.op, c.arg), RulesBody(c.op, c.arg), RulesAfter(c.op, c.arg))
        BY <1>2, <2>2 DEF RulesServed
      <3> QED BY <3>1 DEF Serve
    <2> QED BY <2>1, <2>2
  <1>4. RulesGood'
    BY <1>2, <1>3, RulesComesBack DEF RulesInv
  <1>5. left' \in Setting /\ left'.patient = left.patient
    BY LeftIs DEF RulesInv, RulesServed
  <1> QED BY <1>4, <1>5 DEF RulesInv, RulesGood, RulesTyped

LEMMA OnRulesetsStep ==
  ASSUME RulesGood, NEW j \in Slots, OnRulesets(j)
  PROVE  RulesGood'
  <1>1. Back(j, "rulesets") /\ IsBack(net, j) /\ net[j].op = "rulesets"
    BY DEF OnRulesets, Back
  <1>2. PICK c : net[j] = c /\ RulesFits(c) /\ Settle(net, j) = NoCalls
    BY <1>1, RulesHas
  <1>3. ListFits(c)
    BY <1>1, <1>2 DEF RulesFits
  <1> DEFINE ok == c.out.ok
             sets == IF ok THEN c.out.body ELSE ui.sets
             kept == IF ui.set \in sets \/ ~ok THEN ui.set
                     ELSE IF sets = {} THEN None ELSE CHOOSE r \in sets : TRUE
             next == IF c.arg.select = None THEN kept ELSE c.arg.select
             n == SelectSet(NoCalls, next)
             busy == IF c.arg.action /\ c.arg.reload = None THEN None ELSE ui.busy
  <1>4. /\ net' = IF c.arg.reload = None THEN n
                  ELSE Send(n, "rulesDetail", [set |-> c.arg.reload, of |-> ToSelect(None)])
        /\ ui' = [ui EXCEPT !.sets = sets, !.set = next, !.listing = FALSE, !.busy = busy]
        /\ db' = db
    BY <1>2 DEF OnRulesets
  <1>5. sets \subseteq db.sets /\ db.sets \subseteq Rulesets /\ None \notin db.sets
    BY <1>3, RulesetsAssumption DEF ListFits, RulesGood, RulesKnown, RulesTyped
  <1>6. kept \in db.sets \cup {None} /\ (ui.set # None => kept = ui.set)
    BY <1>3, <1>5 DEF ListFits, RulesGood, RulesKnown
  <1>7. \/ c.arg.select = None /\ c.arg.reload = None
        \/ c.arg.select \in db.sets /\ c.arg.reload = None
        \/ c.arg.select = None /\ c.arg.reload = ui.set /\ ui.set # None
    <2>1. CASE c.arg = ForItself
      BY <2>1 DEF ForItself
    <2>2. ASSUME NEW r \in db.sets, c.arg = ToSelect(r)
          PROVE  c.arg.select \in db.sets /\ c.arg.reload = None
      BY <2>2 DEF ToSelect
    <2>3. CASE c.arg = ToReload(ui.set) /\ ui.set # None
      BY <2>3 DEF ToReload
    <2> QED BY <1>3, <2>1, <2>2, <2>3 DEF ListFits
  <1>8. next \in db.sets \cup {None} /\ (next = ui.set \/ next # None)
    BY <1>5, <1>6, <1>7
  <1>9. c.arg.reload # None => next = ui.set /\ c.arg.reload = next /\ next # None
    BY <1>5, <1>6, <1>7
  <1> HIDE DEF sets, kept, next, busy
  <1>10. /\ ui'.sets = sets /\ ui'.set = next /\ ui'.detail = ui.detail
         /\ ui'.version = ui.version /\ ui'.shown = ui.shown
    BY <1>4 DEF RulesGood, RulesTyped
  <1>11. RulesTyped' /\ RulesKnown'
    BY <1>4, <1>5, <1>8 DEF RulesGood, RulesTyped, RulesKnown
  <1>12. EditorBelongs'
    BY <1>3, <1>10 DEF ListFits, EditorBelongs
  <1>13. CASE c.arg.reload = None /\ next = ui.set
    <2>1. net' = NoCalls
      BY <1>4, <1>13 DEF SelectSet
    <2>2. DetailBelongs'
      BY <1>3, <1>4, <1>10, <1>13 DEF ListFits, DetailBelongs, VersionsOf
    <2> QED BY <1>11, <1>12, <2>1, <2>2 DEF RulesGood, RulesWaits
  <1>14. CASE c.arg.reload = None /\ next # ui.set
    <2>1. PICK arg : arg = [set |-> next, of |-> ForItself]
      OBVIOUS
    <2>2. net' = Send(NoCalls, "rulesDetail", arg)
      BY <1>4, <1>8, <1>14, <2>1 DEF SelectSet
    <2>3. RulesFits(Fresh("rulesDetail", arg))'
      BY <1>8, <1>10, <1>12, <1>14, <2>1, FreshIs DEF RulesFits, DetailFits
    <2> QED BY <1>11, <2>2, <2>3, RulesSendsNext DEF RulesGood
  <1>15. CASE c.arg.reload # None
    <2>1. PICK arg : arg = [set |-> next, of |-> ToSelect(None)]
      OBVIOUS
    <2>2. net' = Send(NoCalls, "rulesDetail", arg)
      BY <1>4, <1>9, <1>15, <2>1 DEF SelectSet
    <2>3. arg = [set |-> ui'.set, of |-> ToSelect(None)] /\ ui'.set # None
      BY <1>9, <1>10, <1>15, <2>1
    <2>4. RulesFits(Fresh("rulesDetail", arg))'
      BY <1>12, <2>3, FreshIs DEF RulesFits, DetailFits
    <2> QED BY <1>11, <2>2, <2>4, RulesSendsNext DEF RulesGood
  <1> QED BY <1>13, <1>14, <1>15

\* The selected version is one of the ruleset's, if it has any.
LEMMA PickVersionIs ==
  ASSUME NEW n \in Nat, NEW versions, NEW prev,
         \A x \in versions : x.id \in 1 .. n
  PROVE  \/ \E x \in versions : x.id = PickVersion(prev, versions)
         \/ PickVersion(prev, versions) = None
  <1> DEFINE ids == {x.id : x \in versions}
             active == {x \in versions : x.active}
             last == CHOOSE v \in ids : \A w \in ids : w <= v
  <1>1. active # {} => \E x \in versions : x.id = (CHOOSE y \in active : TRUE).id
    OBVIOUS
  <1>2. ASSUME ids # {}
        PROVE  last \in ids
    <2>1. ids \subseteq 0 .. n
      OBVIOUS
    <2> HIDE DEF ids
    <2>2. \E v \in ids : \A w \in ids : w <= v
      BY <1>2, <2>1, HasMaximum
    <2> QED BY <2>2
  <1>3. PickVersion(prev, versions) =
          IF prev \in ids THEN prev
          ELSE IF active # {} THEN (CHOOSE x \in active : TRUE).id
          ELSE IF ids # {} THEN last ELSE None
    BY DEF PickVersion
  <1> HIDE DEF last
  <1> QED BY <1>1, <1>2, <1>3

LEMMA OnRulesDetailStep ==
  ASSUME RulesGood, NEW j \in Slots, OnRulesDetail(j)
  PROVE  RulesGood'
  <1>1. IsBack(net, j) /\ net[j].op = "rulesDetail"
    BY DEF OnRulesDetail, Back
  <1>2. PICK c : net[j] = c /\ RulesFits(c) /\ IsCall(c) /\ Settle(net, j) = NoCalls
    BY <1>1, RulesHas
  <1>3. DetailFits(c)
    BY <1>1, <1>2 DEF RulesFits
  <1> DEFINE ok == c.out.ok
             of == c.arg.of
             detail == IF ok THEN c.out.body ELSE NoDetail
             v == IF of.select # None THEN of.select
                  ELSE IF ok THEN PickVersion(ui.version, detail.versions) ELSE None
             shown == ShownFor(v)
             busy == IF of.action THEN None ELSE ui.busy
  <1>4. /\ net' = SelectVersion(NoCalls, v)
        /\ ui' = [ui EXCEPT !.detail = detail, !.version = v, !.shown = shown, !.busy = busy]
        /\ db' = db
    BY <1>2 DEF OnRulesDetail
  <1>5. db.versions \in Seq(RulesVersion) /\ Len(db.versions) \in Nat
        /\ ui.set \in Rulesets \cup {None} /\ ui.version \in Nat \cup {None}
        /\ ui.shown \in Nat \cup {None}
    BY DEF RulesGood, RulesTyped
  <1>6. of.select \in VersionsOf(ui.set) \cup {None}
    <2>1. CASE c.arg = [set |-> ui.set, of |-> ForItself]
      BY <2>1 DEF ForItself
    <2>2. ASSUME NEW w \in VersionsOf(ui.set) \cup {None},
                 c.arg = [set |-> ui.set, of |-> ToSelect(w)]
          PROVE  of.select \in VersionsOf(ui.set) \cup {None}
      BY <2>2 DEF ToSelect
    <2> QED BY <1>3, <2>1, <2>2 DEF DetailFits
  <1>7. ok => detail = DetailOf(ui.set)
    BY <1>3 DEF DetailFits
  <1>8. /\ detail.of \in {None, ui.set}
        /\ ~ok => detail = NoDetail /\ detail.of = None /\ detail.versions = {}
        /\ detail \in [of : Rulesets \cup {None}, versions : SUBSET [id : Nat, active : BOOLEAN]]
        /\ \A x \in detail.versions : x.id \in VersionsOf(ui.set)
        /\ ok => \A w \in VersionsOf(ui.set) : \E x \in detail.versions : x.id = w
    <2>1. CASE ok
      <3>1. \A w \in VersionsOf(ui.set) : w \in Nat /\ db.versions[w].active \in BOOLEAN
        <4>1. \A w \in 1 .. Len(db.versions) : db.versions[w] \in RulesVersion
          BY <1>5
        <4> QED BY <1>5, <4>1 DEF VersionsOf, RulesVersion
      <3> HIDE DEF detail
      <3> DEFINE row(w) == [id |-> w, active |-> db.versions[w].active]
      <3>2. detail.of = ui.set /\ detail.versions = {row(w) : w \in VersionsOf(ui.set)}
            /\ detail = [of |-> detail.of, versions |-> detail.versions]
        BY <1>7, <2>1 DEF DetailOf
      <3>3. \A w \in VersionsOf(ui.set) : row(w).id = w /\ row(w) \in [id : Nat, active : BOOLEAN]
        BY <3>1
      <3> HIDE DEF row
      <3>4. detail.versions \subseteq [id : Nat, active : BOOLEAN]
        BY <3>2, <3>3
      <3>5. /\ \A x \in detail.versions : x.id \in VersionsOf(ui.set)
            /\ \A w \in VersionsOf(ui.set) : \E x \in detail.versions : x.id = w
        BY <3>2, <3>3
      <3> QED BY <1>5, <2>1, <3>2, <3>4, <3>5
    <2>2. CASE ~ok
      BY <1>5, <2>2 DEF NoDetail
    <2> QED BY <2>1, <2>2
  <1>9. VersionsOf(ui.set) \subseteq 1 .. Len(db.versions)
    BY DEF VersionsOf
  <1> HIDE DEF detail, of
  <1>10. /\ v \in VersionsOf(ui.set) \cup {None}
         /\ v # None /\ detail.of # None => \E x \in detail.versions : x.id = v
    <2>1. CASE of.select # None
      BY <1>6, <1>8, <2>1
    <2>2. CASE of.select = None /\ ok
      <3>1. \A x \in detail.versions : x.id \in 1 .. Len(db.versions)
        BY <1>8, <1>9
      <3>2. \/ \E x \in detail.versions : x.id = PickVersion(ui.version, detail.versions)
            \/ PickVersion(ui.version, detail.versions) = None
        BY <1>5, <3>1, PickVersionIs
      <3> QED BY <1>8, <2>2, <3>2
    <2>3. CASE of.select = None /\ ~ok
      BY <2>3
    <2> QED BY <2>1, <2>2, <2>3
  <1>11. shown \in Nat \cup {None} /\ (v = None => shown = None) /\ (v # None => shown = ui.shown)
    BY <1>5 DEF ShownFor
  <1> HIDE DEF v, shown, busy
  <1>12. /\ ui'.detail = detail /\ ui'.version = v /\ ui'.shown = shown
         /\ ui'.set = ui.set /\ ui'.sets = ui.sets
    BY <1>4 DEF RulesGood, RulesTyped
  <1>13. RulesTyped' /\ RulesKnown'
    <2>1. v \in Nat \cup {None}
      BY <1>9, <1>10
    <2> QED BY <1>4, <1>8, <1>11, <1>12, <2>1 DEF RulesGood, RulesTyped, RulesKnown
  <1>14. DetailBelongs'
    BY <1>4, <1>8, <1>10, <1>12 DEF DetailBelongs, VersionsOf
  <1>15. CASE v = ui.version \/ v = None
    <2>1. net' = NoCalls
      BY <1>4, <1>15 DEF SelectVersion
    <2>2. EditorBelongs'
      BY <1>3, <1>11, <1>12, <1>15 DEF DetailFits, EditorBelongs
    <2> QED BY <1>13, <1>14, <2>1, <2>2 DEF RulesGood, RulesWaits
  <1>16. CASE v # ui.version /\ v # None
    <2>1. PICK arg : arg = v
      OBVIOUS
    <2>2. net' = Send(NoCalls, "ruleVersion", arg)
      BY <1>4, <1>16, <2>1 DEF SelectVersion
    <2>3. RulesFits(Fresh("ruleVersion", arg))'
      BY <1>4, <1>9, <1>10, <1>12, <1>14, <1>16, <2>1, FreshIs DEF RulesFits, VersionFits
    <2> QED BY <1>13, <2>2, <2>3, RulesSendsNext DEF RulesGood
  <1> QED BY <1>15, <1>16

LEMMA OnRuleVersionStep ==
  ASSUME RulesGood, NEW j \in Slots, OnRuleVersion(j)
  PROVE  RulesGood'
  <1>1. IsBack(net, j) /\ net[j].op = "ruleVersion"
    BY DEF OnRuleVersion, Back
  <1>2. PICK c : net[j] = c /\ RulesFits(c) /\ Settle(net, j) = NoCalls
    BY <1>1, RulesHas
  <1>3. VersionFits(c)
    BY <1>1, <1>2 DEF RulesFits
  <1>4. net' = NoCalls /\ db' = db
    BY <1>2 DEF OnRuleVersion
  <1>5. CASE c.out.ok
    <2>1. PICK e : e = Editing(c.out.body.rules)
      OBVIOUS
    <2>2. c.out.body.id = ui.version /\ c.out.body.rules \in RulesJson
      BY <1>3, <1>5 DEF VersionFits
    <2>3. e \in [form : RulesJson, json : RulesJson]
      BY <2>1, <2>2 DEF Editing, ToForm, RulesJson
    <2>4. ui' = [ui EXCEPT !.shown = ui.version, !.editor = e]
      BY <1>2, <1>5, <2>1, <2>2 DEF OnRuleVersion
    <2>5. RulesTyped' /\ RulesKnown'
      BY <1>4, <2>3, <2>4 DEF RulesGood, RulesTyped, RulesKnown
    <2>6. DetailBelongs' /\ EditorBelongs'
      BY <1>3, <1>4, <2>4 DEF RulesGood, RulesTyped, VersionFits, DetailBelongs, EditorBelongs,
                              VersionsOf
    <2> QED BY <1>4, <2>5, <2>6 DEF RulesGood, RulesWaits
  <1>6. CASE ~c.out.ok
    <2>1. ui' = [ui EXCEPT !.shown = None]
      BY <1>2, <1>6 DEF OnRuleVersion
    <2>2. RulesTyped' /\ RulesKnown'
      BY <1>4, <2>1 DEF RulesGood, RulesTyped, RulesKnown
    <2>3. DetailBelongs' /\ EditorBelongs'
      BY <1>3, <1>4, <2>1 DEF RulesGood, RulesTyped, VersionFits, DetailBelongs, EditorBelongs,
                              VersionsOf
    <2> QED BY <1>4, <2>2, <2>3 DEF RulesGood, RulesWaits
  <1> QED BY <1>5, <1>6

LEMMA OnRulesetWrittenStep ==
  ASSUME RulesGood, NEW j \in Slots, OnRulesetWritten(j)
  PROVE  RulesGood'
  <1>1. IsBack(net, j) /\ net[j].op \in {"createRuleset", "import", "updateRuleset"}
        /\ net[j].out.ok
    BY DEF OnRulesetWritten, Good, Back
  <1>2. PICK c : net[j] = c /\ RulesFits(c) /\ Settle(net, j) = NoCalls
    BY <1>1, RulesHas
  <1>3. WriteFits(c) /\ c.op \notin RulesReads
    BY <1>1, <1>2, ReadsAssumption DEF RulesFits
  <1>4. PICK arg : arg = IF c.op = "updateRuleset" THEN ToReload(c.arg.set) ELSE ToSelect(c.arg.set)
    OBVIOUS
  <1>5. net' = Send(NoCalls, "rulesets", arg) /\ ui' = [ui EXCEPT !.listing = TRUE] /\ db' = db
    BY <1>2, <1>4 DEF OnRulesetWritten
  <1>6. \/ \E r \in db.sets : arg = ToSelect(r)
        \/ arg = ToReload(ui.set) /\ ui.set # None
    <2>1. CASE c.op = "updateRuleset"
      BY <1>3, <1>4, <2>1 DEF WriteFits
    <2>2. CASE c.op # "updateRuleset"
      BY <1>1, <1>2, <1>3, <1>4, <2>2 DEF WriteFits
    <2> QED BY <2>1, <2>2
  <1>7. RulesTyped' /\ RulesKnown' /\ ui'.set = ui.set
    BY <1>5 DEF RulesGood, RulesTyped, RulesKnown
  <1>8. DetailBelongs' /\ EditorBelongs'
    BY <1>3, <1>5 DEF RulesGood, RulesTyped, WriteFits, DetailBelongs, EditorBelongs, VersionsOf
  <1>9. RulesFits(Fresh("rulesets", arg))'
    <2>1. \/ \E r \in db'.sets : arg = ToSelect(r)
          \/ arg = ToReload(ui'.set) /\ ui'.set # None
      BY <1>5, <1>6, <1>7
    <2> QED BY <1>8, <2>1, FreshIs DEF RulesFits, ListFits
  <1> QED BY <1>5, <1>7, <1>9, RulesSendsNext DEF RulesGood

LEMMA OnVersionWrittenStep ==
  ASSUME RulesGood, NEW j \in Slots, OnVersionWritten(j)
  PROVE  RulesGood'
  <1>1. IsBack(net, j) /\ net[j].op \in {"createVersion", "activate"} /\ net[j].out.ok
    BY DEF OnVersionWritten, Good, Back
  <1>2. PICK c : net[j] = c /\ RulesFits(c) /\ Settle(net, j) = NoCalls
    BY <1>1, RulesHas
  <1>3. WriteFits(c) /\ c.op \notin RulesReads
    BY <1>1, <1>2, ReadsAssumption DEF RulesFits
  <1>4. PICK v : v = IF c.op = "activate" THEN c.arg.version ELSE c.out.body
    OBVIOUS
  <1>5. v \in VersionsOf(ui.set) /\ c.arg.set = ui.set /\ ui.set # None
    <2>1. CASE c.op = "activate"
      <3>1. PICK w \in VersionsOf(ui.set) : c.arg = [version |-> w, set |-> ui.set]
        BY <1>3, <2>1 DEF WriteFits
      <3> QED BY <1>3, <1>4, <2>1, <3>1 DEF WriteFits
    <2>2. CASE c.op = "createVersion"
      <3>1. PICK rules \in RulesJson : c.arg = [set |-> ui.set, rules |-> rules]
        BY <1>3, <2>2 DEF WriteFits
      <3> QED BY <1>1, <1>2, <1>3, <1>4, <2>2, <3>1 DEF WriteFits
    <2> QED BY <1>1, <1>2, <2>1, <2>2
  <1>6. PICK arg : arg = [set |-> ui.set, of |-> ToSelect(v)]
    OBVIOUS
  <1>7. net' = Send(NoCalls, "rulesDetail", arg) /\ ui' = ui /\ db' = db
    BY <1>2, <1>4, <1>5, <1>6 DEF OnVersionWritten
  <1>8. RulesTyped' /\ RulesKnown'
    BY <1>7 DEF RulesGood, RulesTyped, RulesKnown
  <1>9. EditorBelongs'
    BY <1>3, <1>7 DEF WriteFits, EditorBelongs
  <1>10. RulesFits(Fresh("rulesDetail", arg))'
    <2>1. ui'.set = ui.set /\ v \in VersionsOf(ui.set)'
      BY <1>5, <1>7 DEF VersionsOf
    <2>2. arg = [set |-> ui'.set, of |-> ToSelect(v)] /\ ui'.set # None
      BY <1>5, <1>6, <2>1
    <2> QED BY <1>9, <2>1, <2>2, FreshIs DEF RulesFits, DetailFits
  <1> QED BY <1>7, <1>8, <1>10, RulesSendsNext DEF RulesGood

LEMMA RulesActionEnds ==
  ASSUME RulesGood, NEW j \in Slots, OnExamined(j) \/ RulesActionFails(j)
  PROVE  RulesGood'
  <1>1. IsBack(net, j) /\ net[j].op \notin {"rulesets", "rulesDetail", "ruleVersion"}
    BY ReadsAssumption DEF OnExamined, RulesActionFails, RulesWrites
  <1>2. PICK c : net[j] = c /\ RulesFits(c) /\ Settle(net, j) = NoCalls
    BY <1>1, RulesHas
  <1>3. WriteFits(c)
    BY <1>1, <1>2 DEF RulesFits
  <1>4. net' = NoCalls /\ ui' = [ui EXCEPT !.busy = None] /\ db' = db
    BY <1>2 DEF OnExamined, RulesActionFails
  <1>5. RulesTyped' /\ RulesKnown'
    BY <1>4 DEF RulesGood, RulesTyped, RulesKnown
  <1>6. DetailBelongs' /\ EditorBelongs'
    BY <1>3, <1>4 DEF RulesGood, RulesTyped, WriteFits, DetailBelongs, EditorBelongs, VersionsOf
  <1> QED BY <1>4, <1>5, <1>6 DEF RulesGood, RulesWaits

\* The page is mounted with the load of the list.
LEMMA RulesStarts ==
  ASSUME RulesInit
  PROVE  RulesInv
  <1>1. PICK sets \in SUBSET Rulesets, versions \in Seq(RulesVersion), mode \in {"form", "json"} :
            MountRules(sets, versions, mode)
    BY DEF RulesInit
  <1>2. Template \in RulesJson
    BY TextsAssumption DEF Template, RulesJson
  <1>3. Editing(Template) \in [form : RulesJson, json : RulesJson]
    BY <1>2 DEF Editing, ToForm, RulesJson
  <1>4. NoDetail \in [of : {None}, versions : {{}}]
    BY DEF NoDetail
  <1>5. RulesTyped /\ RulesKnown
    BY <1>1, <1>3, <1>4 DEF MountRules, RulesDb, RulesTyped, RulesKnown
  <1>6. DetailBelongs /\ EditorBelongs
    BY <1>1, <1>4 DEF MountRules, DetailBelongs, EditorBelongs
  <1>7. PICK i \in Slots : net = Alone(i, Fresh("rulesets", ForItself))
    BY <1>1, SendAlone DEF MountRules
  <1>8. net[i] = Fresh("rulesets", ForItself)
    BY <1>7 DEF Alone
  <1>9. RulesFits(Fresh("rulesets", ForItself))
    BY <1>6, FreshIs DEF RulesFits, ListFits
  <1> QED BY <1>5, <1>7, <1>8, <1>9 DEF RulesInv, RulesWaits, RulesInit, RulesTyped

LEMMA RulesKeeps ==
  ASSUME RulesInv, [RulesNext]_vars
  PROVE  RulesInv'
  <1>1. CASE UNCHANGED vars
    <2>1. UNCHANGED <<net, db, ui, left>>
      BY <1>1 DEF vars
    <2>2. RulesTyped => RulesTyped'
      BY <2>1 DEF RulesTyped
    <2>3. RulesKnown => RulesKnown'
      BY <2>1 DEF RulesKnown
    <2>4. (DetailBelongs => DetailBelongs') /\ (EditorBelongs => EditorBelongs')
      BY <2>1 DEF DetailBelongs, EditorBelongs, VersionsOf
    <2>5. ASSUME NEW c, RulesFits(c)
          PROVE  RulesFits(c)'
      <3>1. ListFits(c) => ListFits(c)'
        BY <2>1, <2>4 DEF ListFits
      <3>2. DetailFits(c) => DetailFits(c)'
        BY <2>1, <2>4 DEF DetailFits, VersionsOf, DetailOf
      <3>3. VersionFits(c) => VersionFits(c)'
        BY <2>1, <2>4 DEF VersionFits
      <3>4. WriteFits(c) => WriteFits(c)'
        BY <2>1, <2>4 DEF WriteFits, VersionsOf
      <3> QED BY <2>5, <3>1, <3>2, <3>3, <3>4 DEF RulesFits
    <2>6. RulesWaits => RulesWaits'
      <3>1. CASE net = NoCalls /\ DetailBelongs /\ EditorBelongs
        BY <2>1, <2>4, <3>1 DEF RulesWaits
      <3>2. ASSUME NEW i \in Slots, NEW c, net = Alone(i, c), RulesFits(c)
            PROVE  RulesWaits'
        BY <2>1, <2>5, <3>2, RulesSent
      <3> QED BY <3>1, <3>2 DEF RulesWaits
    <2> QED BY <2>1, <2>2, <2>3, <2>6 DEF RulesInv
  <1>2. CASE RulesNext /\ left.patient
    <2>1. CASE RulesUser
      BY <1>2, <2>1, RulesUserStep
    <2>2. ASSUME NEW j \in Slots, RulesServed(j) \/ Refuse(j)
          PROVE  RulesInv'
      BY <1>2, <2>2, RulesServedStep
    <2>3. ASSUME NEW j \in Slots, RulesAnswered(j)
          PROVE  RulesInv'
      <3>1. left' = left
        BY <2>3 DEF RulesAnswered, OnRulesets, OnRulesDetail, OnRuleVersion, OnRulesetWritten,
                    OnVersionWritten, OnExamined, RulesActionFails
      <3>2. RulesGood
        BY <1>2 DEF RulesInv, RulesGood
      <3>3. RulesGood'
        BY <2>3, <3>2, OnRulesetsStep, OnRulesDetailStep, OnRuleVersionStep, OnRulesetWrittenStep,
           OnVersionWrittenStep, RulesActionEnds DEF RulesAnswered
      <3> QED BY SMTT(60), <3>1, <3>3 DEF RulesInv, RulesGood, RulesTyped
    <2> QED BY <1>2, <2>1, <2>2, <2>3 DEF RulesNext
  <1>3. CASE RulesNext /\ ~left.patient
    <2>1. \/ left.acts > 0 /\ left' = Spent
          \/ left' = left
          \/ \E j \in Slots : RulesServed(j) \/ Refuse(j)
      BY ZenonT(60), <1>3 DEF RulesNext, RulesUser, RefreshRulesets, ChooseRuleset, ChooseVersion, EditForm,
              EditJson, ApplyJson, CreateRuleset, UpdateRuleset, CreateVersion, ActivateVersion,
              Examine, RunAction, OnRules, Acts, RulesAnswered, OnRulesets, OnRulesDetail,
              OnRuleVersion, OnRulesetWritten, OnVersionWritten, OnExamined, RulesActionFails
    <2>2. left' \in Setting /\ left'.patient = left.patient
      BY <2>1, SpentIs, LeftIs DEF RulesInv, RulesServed
    <2> QED BY SMTT(60), <1>3, <2>2 DEF RulesInv
  <1> QED BY <1>1, <1>2, <1>3

\* The rules page never shows a patient user things of two rulesets at rest.
THEOREM RulesAreOfOneSet == RulesSpec => []RulesBelongTogether
  <1>1. RulesInv => RulesBelongTogether
    <2>1. ASSUME RulesInv, left.patient, Quiet
          PROVE  RulesBelongTogether
      BY <2>1, RulesAtRest DEF RulesInv, RulesGood, RulesIdle, DetailBelongs, EditorBelongs,
                               RulesBelongTogether, VersionsOf
    <2> QED BY <2>1 DEF RulesBelongTogether
  <1> QED BY <1>1, RulesStarts, RulesKeeps, PTL DEF RulesSpec

-----------------------------------------------------------------------------
(* The backup page. All lists are loaded at once: as many calls as there are *)
(* kinds, and the schedule.                                                  *)

\* Every call was there before or is one of the loads.
IsLoad(c, of) ==
    \/ c = Fresh("plan", of)
    \/ \E k \in Kinds : c = Fresh("files", [kind |-> k, of |-> of])
Refreshed(n, m, of) ==
    /\ Calls(m)
    /\ \A i \in Slots : m[i] = n[i] \/ IsLoad(m[i], of)

LEMMA FreeIs ==
  ASSUME NEW n
  PROVE  IsFiniteSet(FreeSlots(n)) /\ Cardinality(FreeSlots(n)) \in Nat
  <1>1. IsFiniteSet(Slots)
    BY MaxCallsAssumption, FS_Interval DEF Slots
  <1>2. IsFiniteSet(FreeSlots(n))
    BY <1>1, FS_Subset DEF FreeSlots
  <1> QED BY <1>2, FS_CardinalityType

\* One more load takes one of the free slots.
LEMMA LoadAdds ==
  ASSUME NEW n, NEW m, NEW of, Refreshed(n, m, of), Cardinality(FreeSlots(m)) > 0,
         NEW op, op # "none", NEW arg, IsLoad(Fresh(op, arg), of)
  PROVE  /\ Refreshed(n, Send(m, op, arg), of)
         /\ Cardinality(FreeSlots(Send(m, op, arg))) = Cardinality(FreeSlots(m)) - 1
  <1>1. FreeSlots(m) # {}
    BY FS_EmptySet, FreeIs
  <1>2. PICK i \in FreeSlots(m) : Changed(m, Send(m, op, arg), i, Fresh(op, arg))
    BY <1>1, SendChanges DEF Refreshed
  <1>3. PICK p : p = Send(m, op, arg)
    OBVIOUS
  <1>4. /\ Calls(p) /\ p[i] = Fresh(op, arg) /\ \A j \in Slots \ {i} : p[j] = m[j]
    BY <1>2, <1>3 DEF Changed
  <1>5. Refreshed(n, p, of)
    BY <1>4 DEF Refreshed
  <1>6. FreeSlots(p) = FreeSlots(m) \ {i}
    BY <1>4, FreshIs DEF FreeSlots
  <1>7. Cardinality(FreeSlots(p)) = Cardinality(FreeSlots(m)) - 1
    BY <1>6, FreeIs, FS_RemoveElement
  <1> QED BY <1>3, <1>5, <1>7

\* The fold over the kinds, by induction over how many are left.
LEMMA RefreshIs ==
  ASSUME NEW n, Calls(n), HasRoom(n, RefreshSize), NEW of
  PROVE  Refreshed(n, RefreshAll(n, of), of)
  <1> DEFINE base == Send(n, "plan", of)
             Pick(s) == CHOOSE x \in s : TRUE
             Step(g, s) == IF s = {} THEN base ELSE LoadKind(g[s \ {Pick(s)}], Pick(s), of)
             Small(k) == {s \in SUBSET Kinds : Cardinality(s) <= k}
             Is(g, k) == g = [s \in Small(k) |-> Step(g, s)]
             iter == CHOOSE g : g = [s \in SUBSET Kinds |-> Step(g, s)]
             size == Cardinality(Kinds)
  <1>0. size \in Nat /\ \A s \in SUBSET Kinds : /\ IsFiniteSet(s) /\ Cardinality(s) \in Nat
                                                /\ Cardinality(s) <= size
    BY BackupsAssumption, FS_Subset, FS_CardinalityType
  <1>1. RefreshAll(n, of) = iter[Kinds]
    BY DEF RefreshAll, FoldSet, MapThenFoldSet
  <1>2. \A s \in SUBSET Kinds : s # {} => /\ Pick(s) \in s /\ Pick(s) \in Kinds
                                          /\ s \ {Pick(s)} \in SUBSET Kinds
                                          /\ Cardinality(s \ {Pick(s)}) = Cardinality(s) - 1
    <2>1. ASSUME NEW s \in SUBSET Kinds, s # {}
          PROVE  Pick(s) \in s
      BY <2>1
    <2> HIDE DEF Pick
    <2> QED BY <1>0, <2>1, FS_RemoveElement
  <1>3. \A s \in SUBSET Kinds : Cardinality(s) = 0 => s = {}
    BY <1>0, FS_EmptySet
  <1> HIDE DEF iter, base, Pick, size
  <1>4. \E g : g = [s \in SUBSET Kinds |-> Step(g, s)]
    <2> DEFINE P == {k \in Nat : \E g : Is(g, k)}
    <2>1. 0 \in P
      <3> DEFINE g == [s \in Small(0) |-> base]
      <3>1. \A s \in Small(0) : s = {}
        BY <1>0, <1>3
      <3>2. g = [s \in Small(0) |-> Step(g, s)]
        BY <3>1
      <3> QED BY <3>2
    <2>2. ASSUME NEW k \in Nat, k \in P
          PROVE  k + 1 \in P
      <3>1. PICK g : Is(g, k)
        BY <2>2
      <3> DEFINE h == [s \in Small(k + 1) |-> IF s \in Small(k) THEN g[s] ELSE Step(g, s)]
      <3>2. \A s \in Small(k + 1) : s # {} => s \ {Pick(s)} \in Small(k)
        BY <1>0, <1>2
      <3>3. Small(k) \subseteq Small(k + 1)
        BY <1>0
      <3>4. \A s \in Small(k) : g[s] = Step(g, s)
        BY <3>1
      <3> HIDE DEF Small
      <3>5. \A s \in Small(k) : h[s] = g[s]
        BY <3>3
      <3>6. \A s \in Small(k + 1) \ Small(k) : h[s] = Step(g, s)
        OBVIOUS
      <3>7. h = [s \in Small(k + 1) |-> h[s]]
        OBVIOUS
      <3> HIDE DEF h
      <3>8. ASSUME NEW s \in Small(k + 1)
            PROVE  h[s] = Step(h, s)
        <4>1. Step(h, s) = Step(g, s)
          <5>1. CASE s = {}
            BY <5>1
          <5>2. CASE s # {}
            <6>1. h[s \ {Pick(s)}] = g[s \ {Pick(s)}]
              BY <3>2, <3>5, <5>2
            <6> QED BY <5>2, <6>1
          <5> QED BY <5>1, <5>2
        <4> QED BY <3>4, <3>5, <3>6, <4>1
      <3> HIDE DEF Step
      <3>9. h = [s \in Small(k + 1) |-> Step(h, s)]
        BY <3>7, <3>8
      <3> QED BY <3>9
    <2> HIDE DEF P, Is
    <2>3. Nat \subseteq P
      BY <2>1, <2>2, Induction
    <2>4. PICK g : Is(g, size)
      BY <1>0, <2>3 DEF P
    <2>5. Small(size) = SUBSET Kinds
      BY <1>0
    <2> QED BY <2>4, <2>5 DEF Is
  <1>5. \A s \in SUBSET Kinds : iter[s] = Step(iter, s)
    <2>1. iter = [s \in SUBSET Kinds |-> Step(iter, s)]
      BY <1>4 DEF iter
    <2> QED BY <2>1
  <1> DEFINE Of(s) == /\ Refreshed(n, iter[s], of)
                      /\ Cardinality(FreeSlots(iter[s])) >= size - Cardinality(s)
             Fine == {k \in Nat : \A s \in SUBSET Kinds : Cardinality(s) = k => Of(s)}
  <1>6. 0 \in Fine
    <2>1. iter[{}] = base
      BY <1>5
    <2>2. Refreshed(n, n, of) /\ Cardinality(FreeSlots(n)) >= size + 1
      BY DEF Refreshed, HasRoom, RefreshSize, size
    <2>3. IsLoad(Fresh("plan", of), of)
      BY DEF IsLoad
    <2>4. Refreshed(n, base, of) /\ Cardinality(FreeSlots(base)) >= size
      <3>1. Cardinality(FreeSlots(n)) > 0
        BY <1>0, <2>2, FreeIs
      <3>2. PICK op, arg : op = "plan" /\ arg = of
        OBVIOUS
      <3>3. Refreshed(n, Send(n, op, arg), of) /\ Cardinality(FreeSlots(Send(n, op, arg))) = Cardinality(FreeSlots(n)) - 1
        BY <2>2, <2>3, <3>1, <3>2, LoadAdds
      <3> QED BY <1>0, <2>2, <3>2, <3>3, FreeIs DEF base
    <2>5. Of({})
      BY <1>0, <2>1, <2>4, FS_EmptySet
    <2> QED BY <1>3, <2>5
  <1>7. ASSUME NEW k \in Nat, k \in Fine
        PROVE  k + 1 \in Fine
    <2>1. ASSUME NEW s \in SUBSET Kinds, Cardinality(s) = k + 1
          PROVE  Of(s)
      <3>1. s # {}
        BY <2>1, FS_EmptySet
      <3>2. PICK x, t : x = Pick(s) /\ t = s \ {x}
        OBVIOUS
      <3>3. x \in Kinds /\ t \in SUBSET Kinds /\ Cardinality(t) = k
        BY <1>2, <2>1, <3>1, <3>2
      <3>4. iter[s] = LoadKind(iter[t], x, of)
        BY <1>5, <3>1, <3>2
      <3>5. Of(t)
        BY <1>7, <3>3
      <3>6. PICK arg, op, m : arg = [kind |-> x, of |-> of] /\ op = "files" /\ m = iter[t]
        OBVIOUS
      <3>7. iter[s] = Send(m, op, arg)
        BY <3>4, <3>6 DEF LoadKind
      <3>8. IsLoad(Fresh(op, arg), of)
        BY <3>3, <3>6 DEF IsLoad
      <3>9. k + 1 <= size /\ Cardinality(FreeSlots(m)) \in Nat /\ Cardinality(FreeSlots(m)) >= size - k
        BY <1>0, <2>1, <3>3, <3>5, <3>6, FreeIs
      <3>10. Cardinality(FreeSlots(m)) > 0
        BY <1>0, <3>9
      <3>11. Refreshed(n, m, of) /\ op # "none"
        BY <3>5, <3>6
      <3>12. /\ Refreshed(n, Send(m, op, arg), of)
             /\ Cardinality(FreeSlots(Send(m, op, arg))) = Cardinality(FreeSlots(m)) - 1
        BY <3>8, <3>10, <3>11, LoadAdds
      <3> QED BY <1>0, <2>1, <3>7, <3>9, <3>12
    <2> HIDE DEF Of
    <2> QED BY <2>1
  <1> HIDE DEF Of, Fine
  <1>8. Nat \subseteq Fine
    BY <1>6, <1>7, Induction
  <1>9. Of(Kinds)
    BY <1>0, <1>8 DEF Fine, size
  <1> QED BY <1>1, <1>9 DEF Of

-----------------------------------------------------------------------------
BackupsInit == left \in Setting /\ \E n \in Nat : MountBackups(n)
BackupsSpec == BackupsInit /\ [][BackupsNext]_vars

BackupsPage(u) ==
    u \in [page : {"backups"}, files : [Kinds -> SUBSET Nat], file : [Kinds -> Nat \cup {None}],
           choice : [Kinds -> Nat \cup {None}], plan : {u.plan}, planLoading : BOOLEAN,
           planSaving : BOOLEAN, running : BackupOps \cup {None},
           progress : {"none", "going", "done", "failed"}, hide : BOOLEAN]
BackupsHeld(d) ==
    /\ d \in [files : [Kinds -> SUBSET Nat], made : [Kinds -> Nat], plan : {d.plan}]
    /\ \A k \in Kinds : d.files[k] \subseteq 1 .. d.made[k]

\* The page knows of no file that was not made.
FilesKnown(d, u) ==
    \A k \in Kinds : /\ u.files[k] \subseteq 1 .. d.made[k]
                     /\ u.choice[k] \in {None} \cup 1 .. d.made[k]

\* The bar of an action that overwrites data, and no timer of an earlier bar.
BarShown(u) == u.running \in ProgressOps => u.progress = "going" /\ ~u.hide

\* The deletion of a file, and the load that is part of it.
Deletes(of) == of # None /\ of.op = "deleteFile"
Deleting(c) == c.op = "deleteFile" \/ (c.op = "files" /\ Deletes(c.arg.of))
DeletionOf(c) == IF c.op = "deleteFile" THEN c.arg ELSE c.arg.of.arg
Deletion(k) == [kind : {k}, file : Nat, selected : Nat \cup {None}]

BackupFits(c, d) ==
    /\ IsCall(c)
    /\ c.op = "files" => /\ c.arg \in [kind : Kinds, of : {c.arg.of}]
                         /\ c.out.ok => c.out.body \subseteq 1 .. d.made[c.arg.kind]
                         /\ Deletes(c.arg.of) => c.arg.of.arg \in Deletion(c.arg.kind)
    /\ c.op \in {"run", "upload"} => c.arg \in [kind : Kinds]
    /\ c.op = "upload" /\ c.out.ok => c.out.body \in 1 .. d.made[c.arg.kind]
    /\ c.op = "deleteFile" => c.arg.kind \in Kinds /\ c.arg \in Deletion(c.arg.kind)

BackupsGood(n, d, u) ==
    /\ Calls(n) /\ \A i \in Slots : n[i].op # "none" => BackupFits(n[i], d)
    /\ BackupsHeld(d) /\ BackupsPage(u) /\ FilesKnown(d, u) /\ BarShown(u)

\* A file that was deleted, and that no list under way still has.
IsGone(n, d, u, k, f) ==
    /\ f \notin d.files[k] /\ f \notin u.files[k]
    /\ \A i \in Slots : n[i].op = "files" /\ n[i].arg.kind = k /\ n[i].out.ok => f \notin n[i].out.body

\* What the user chose is selected, or gone.
ChoiceKept(n, d, u) ==
    \A k \in Kinds : \/ u.choice[k] \in {None, u.file[k]}
                     \/ IsGone(n, d, u, k, u.choice[k])

\* A patient user has one deletion under way, and nothing else; the file he has
\* selected is still the one that was selected when he clicked.
DeletionFits(c, d, u) ==
    \E k \in Kinds : \E f \in 1 .. d.made[k] :
        /\ DeletionOf(c) = [kind |-> k, file |-> f, selected |-> u.file[k]]
        /\ c.op = "files" => c.arg.kind = k
        /\ c.op = "files" \/ c.out.ok => f \notin d.files[k]
        /\ c.op = "files" /\ c.out.ok => f \notin c.out.body
DeletionAlone(n, d, u) ==
    \A i \in Slots : Deleting(n[i]) => n = Alone(i, n[i]) /\ DeletionFits(n[i], d, u)

BackupsInv ==
    /\ left \in Setting
    /\ BackupsGood(net, db, ui)
    /\ left.patient => ChoiceKept(net, db, ui) /\ DeletionAlone(net, db, ui)

LEMMA NoneIs == None \notin Nat /\ None \notin BackupOps /\ None \notin ProgressOps
  BY BackupsAssumption DEF BackupOps

LEMMA NotCallIs == ~Deleting(NoCall) /\ NoCall.op # "files"
  BY DEF Deleting, NoCall

\* What changes of the page leaves the files alone.
Same(u, v) == v.files = u.files /\ v.file = u.file /\ v.choice = u.choice

LEMMA SameGood ==
  ASSUME NEW n, NEW d, NEW u, NEW v, Same(u, v)
  PROVE  /\ FilesKnown(d, u) => FilesKnown(d, v)
         /\ ChoiceKept(n, d, u) => ChoiceKept(n, d, v)
         /\ DeletionAlone(n, d, u) => DeletionAlone(n, d, v)
  BY DEF Same, FilesKnown, ChoiceKept, IsGone, DeletionAlone, DeletionFits

\* The bar when an action begins and when it ends.
LEMMA BeginIs ==
  ASSUME NEW u, BackupsPage(u), NEW op \in BackupOps
  PROVE  LET r == [u EXCEPT !.running = op]
             v == IF op \in ProgressOps THEN BeginProgress(r) ELSE r
         IN  BackupsPage(v) /\ BarShown(v) /\ Same(u, v)
  <1>1. CASE op \in ProgressOps
    <2>1. PICK v : v = BeginProgress([u EXCEPT !.running = op])
      OBVIOUS
    <2>2. BackupsPage(v) /\ v.progress = "going" /\ ~v.hide /\ Same(u, v)
      BY <2>1 DEF BackupsPage, BeginProgress, Same
    <2> QED BY <1>1, <2>1, <2>2 DEF BarShown
  <1>2. CASE op \notin ProgressOps
    <2>1. PICK v : v = [u EXCEPT !.running = op]
      OBVIOUS
    <2>2. BackupsPage(v) /\ v.running = op /\ Same(u, v)
      BY <2>1 DEF BackupsPage, Same
    <2> QED BY <1>2, <2>1, <2>2 DEF BarShown
  <1> QED BY <1>1, <1>2

LEMMA EndIs ==
  ASSUME NEW u, BackupsPage(u), NEW op, NEW ok
  PROVE  LET v == EndAction(u, op, ok)
         IN  BackupsPage(v) /\ BarShown(v) /\ Same(u, v)
  <1>1. PICK w : w = IF op \in ProgressOps THEN FinishProgress(u, ok) ELSE u
    OBVIOUS
  <1>2. BackupsPage(w) /\ Same(u, w)
    BY <1>1 DEF BackupsPage, FinishProgress, Same
  <1>3. PICK v : v = [w EXCEPT !.running = None]
    OBVIOUS
  <1>4. BackupsPage(v) /\ v.running = None /\ Same(u, v)
    BY <1>2, <1>3 DEF BackupsPage, Same
  <1> QED BY <1>1, <1>3, <1>4, NoneIs DEF BarShown, EndAction

\* Where no file is selected the newest one is.
LEMMA DefaultedIs ==
  ASSUME NEW d, BackupsHeld(d), NEW u, BackupsPage(u), FilesKnown(d, u)
  PROVE  LET v == Defaulted(u)
         IN  /\ BackupsPage(v) /\ (BarShown(u) => BarShown(v)) /\ FilesKnown(d, v)
             /\ v.files = u.files /\ v.choice = u.choice
             /\ \A k \in Kinds : u.file[k] # None => v.file[k] = u.file[k]
  <1>1. ASSUME NEW k \in Kinds
        PROVE  Newest(u.files[k]) \in Nat \cup {None}
    <2>1. CASE u.files[k] = {}
      BY <2>1 DEF Newest
    <2>2. CASE u.files[k] # {}
      <3>1. d.made[k] \in Nat /\ u.files[k] \subseteq 1 .. d.made[k]
        BY DEF BackupsHeld, FilesKnown
      <3>2. u.files[k] \subseteq 0 .. d.made[k]
        BY <3>1
      <3>3. \E x \in u.files[k] : \A y \in u.files[k] : y <= x
        BY <2>2, <3>1, <3>2, HasMaximum
      <3>4. Max(u.files[k]) \in u.files[k]
        BY <3>1, <3>3 DEF Max
      <3> QED BY <2>2, <3>1, <3>4 DEF Newest
    <2> QED BY <2>1, <2>2
  <1>2. PICK g : g = [k \in Kinds |-> IF u.file[k] = None THEN Newest(u.files[k]) ELSE u.file[k]]
    OBVIOUS
  <1>3. g \in [Kinds -> Nat \cup {None}] /\ \A k \in Kinds : u.file[k] # None => g[k] = u.file[k]
    BY <1>1, <1>2 DEF BackupsPage
  <1>4. PICK v : v = [u EXCEPT !.file = g]
    OBVIOUS
  <1>5. Defaulted(u) = v
    BY <1>2, <1>4 DEF Defaulted
  <1>6. /\ BackupsPage(v) /\ v.file = g /\ v.files = u.files /\ v.choice = u.choice
        /\ v.running = u.running /\ v.progress = u.progress /\ v.hide = u.hide
    BY <1>3, <1>4 DEF BackupsPage
  <1> QED BY <1>3, <1>5, <1>6 DEF BarShown, FilesKnown

\* The calls under way.
BackupCalls(n, d) == Calls(n) /\ \A i \in Slots : n[i].op # "none" => BackupFits(n[i], d)

\* Calls that say nothing of the files, and delete none, change nothing.
LEMMA QuietCalls ==
  ASSUME NEW n, NEW m, NEW d, NEW u
  PROVE  /\ (\A j \in Slots : m[j] = n[j] \/ ~(m[j].op = "files" /\ m[j].out.ok)) =>
               (ChoiceKept(n, d, u) => ChoiceKept(m, d, u))
         /\ (\A j \in Slots : ~Deleting(m[j])) => DeletionAlone(m, d, u)
  <1>1. ASSUME NEW k, NEW f, IsGone(n, d, u, k, f),
               \A j \in Slots : m[j] = n[j] \/ ~(m[j].op = "files" /\ m[j].out.ok)
        PROVE  IsGone(m, d, u, k, f)
    BY <1>1 DEF IsGone
  <1>2. (\A j \in Slots : m[j] = n[j] \/ ~(m[j].op = "files" /\ m[j].out.ok)) =>
               (ChoiceKept(n, d, u) => ChoiceKept(m, d, u))
    BY <1>1 DEF ChoiceKept
  <1> QED BY <1>2 DEF DeletionAlone

LEMMA BackupSends ==
  ASSUME NEW n, NEW d, BackupCalls(n, d), FreeSlots(n) # {}, NEW op, op # "none", NEW arg,
         BackupFits(Fresh(op, arg), d)
  PROVE  /\ BackupCalls(Send(n, op, arg), d)
         /\ \A j \in Slots : Send(n, op, arg)[j] \in {n[j], Fresh(op, arg)}
  <1>1. PICK i \in FreeSlots(n) : Changed(n, Send(n, op, arg), i, Fresh(op, arg))
    BY SendChanges DEF BackupCalls
  <1>2. PICK m : m = Send(n, op, arg)
    OBVIOUS
  <1>3. Calls(m) /\ m[i] = Fresh(op, arg) /\ \A j \in Slots \ {i} : m[j] = n[j]
    BY <1>1, <1>2 DEF Changed
  <1>4. \A j \in Slots : m[j] \in {n[j], Fresh(op, arg)}
    BY <1>3
  <1>5. BackupCalls(m, d)
    BY <1>3, <1>4 DEF BackupCalls
  <1> QED BY <1>2, <1>4, <1>5

LEMMA BackupSettles ==
  ASSUME NEW n, NEW d, BackupCalls(n, d), NEW i \in Slots
  PROVE  /\ BackupCalls(Settle(n, i), d)
         /\ Settle(n, i)[i] = NoCall /\ \A j \in Slots \ {i} : Settle(n, i)[j] = n[j]
         /\ FreeSlots(Settle(n, i)) # {}
  <1>1. Changed(n, Settle(n, i), i, NoCall) /\ i \in FreeSlots(Settle(n, i))
    BY SettleChanges DEF BackupCalls
  <1>2. PICK m : m = Settle(n, i)
    OBVIOUS
  <1>3. Calls(m) /\ m[i] = NoCall /\ \A j \in Slots \ {i} : m[j] = n[j]
    BY <1>1, <1>2 DEF Changed
  <1>4. BackupCalls(m, d)
    BY <1>3, NoCallIs DEF BackupCalls
  <1> QED BY <1>1, <1>2, <1>3, <1>4

LEMMA LoadFitsIs ==
  ASSUME NEW d, NEW of, NEW c, IsLoad(c, of), ~Deletes(of)
  PROVE  /\ BackupFits(c, d) /\ ~Deleting(c) /\ ~c.out.ok /\ c.op # "none"
  <1>1. CASE c = Fresh("plan", of)
    <2>1. PICK op : op = "plan"
      OBVIOUS
    <2>2. IsCall(c) /\ c.op = op /\ ~c.out.ok
      BY <1>1, <2>1, FreshIs
    <2> QED BY <2>1, <2>2 DEF BackupFits, Deleting
  <1>2. ASSUME NEW k \in Kinds, c = Fresh("files", [kind |-> k, of |-> of])
        PROVE  /\ BackupFits(c, d) /\ ~Deleting(c) /\ ~c.out.ok /\ c.op # "none"
    <2>1. PICK op, arg : op = "files" /\ arg = [kind |-> k, of |-> of]
      OBVIOUS
    <2>2. IsCall(c) /\ c.op = op /\ c.arg = arg /\ ~c.out.ok
      BY <1>2, <2>1, FreshIs
    <2>3. arg.of = of /\ arg \in [kind : Kinds, of : {arg.of}]
      BY <2>1
    <2> QED BY <2>1, <2>2, <2>3 DEF BackupFits, Deleting
  <1> QED BY <1>1, <1>2 DEF IsLoad

\* All lists are loaded, by the page itself or as part of an action that is no deletion
\* of a file.
LEMMA BackupsLoad ==
  ASSUME NEW n, NEW d, BackupCalls(n, d), HasRoom(n, RefreshSize), NEW of, ~Deletes(of)
  PROVE  /\ BackupCalls(RefreshAll(n, of), d)
         /\ \A j \in Slots : \/ RefreshAll(n, of)[j] = n[j]
                             \/ ~Deleting(RefreshAll(n, of)[j]) /\ ~RefreshAll(n, of)[j].out.ok
  <1>1. PICK m : m = RefreshAll(n, of)
    OBVIOUS
  <1>2. Refreshed(n, m, of)
    BY <1>1, RefreshIs DEF BackupCalls
  <1>3. \A j \in Slots : m[j] = n[j] \/ (BackupFits(m[j], d) /\ ~Deleting(m[j]) /\ ~m[j].out.ok)
    BY <1>2, LoadFitsIs DEF Refreshed
  <1>4. BackupCalls(m, d)
    BY <1>2, <1>3 DEF BackupCalls, Refreshed
  <1> QED BY <1>1, <1>3, <1>4

-----------------------------------------------------------------------------
(* What the user does. One who waits has nothing under way.                  *)

LEMMA BackupsQuiet ==
  ASSUME BackupsInv, left.patient => Quiet
  PROVE  /\ BackupCalls(net, db)
         /\ left.patient => /\ net = NoCalls /\ \A j \in Slots : ~Deleting(net[j])
                            /\ ChoiceKept(net, db, ui)
  <1>1. BackupCalls(net, db)
    BY DEF BackupsInv, BackupsGood, BackupCalls
  <1>2. left.patient => net = NoCalls
    BY <1>1, QuietIs DEF BackupCalls
  <1>3. \A j \in Slots : NoCalls[j] = NoCall
    BY NoCallsAre
  <1> QED BY <1>1, <1>2, <1>3, NotCallIs DEF BackupsInv

LEMMA BackupStarts ==
  ASSUME BackupsInv, left.acts > 0, left.patient => Quiet, FreeSlots(net) # {},
         NEW op \in BackupOps, NEW arg, StartAction(op, arg), BackupFits(Fresh(op, arg), db),
         op = "deleteFile" => \E k \in Kinds : \E f \in 1 .. db.made[k] :
                                arg = [kind |-> k, file |-> f, selected |-> ui.file[k]]
  PROVE  BackupsInv'
  <1>1. op \notin {"none", "files"}
    BY DEF BackupOps, ProgressOps
  <1>2. PICK m : m = Send(net, op, arg)
    OBVIOUS
  <1>3. BackupCalls(m, db) /\ \A j \in Slots : m[j] \in {net[j], Fresh(op, arg)}
    BY <1>1, <1>2, BackupsQuiet, BackupSends
  <1>4. Fresh(op, arg).op = op /\ Fresh(op, arg).arg = arg /\ ~Fresh(op, arg).out.ok
    BY <1>1, FreshIs
  <1>5. PICK r : r = [ui EXCEPT !.running = op]
    OBVIOUS
  <1>6. PICK v : v = IF op \in ProgressOps THEN BeginProgress(r) ELSE r
    OBVIOUS
  <1>7. BackupsPage(v) /\ BarShown(v) /\ Same(ui, v)
    BY <1>5, <1>6, BeginIs DEF BackupsInv, BackupsGood
  <1>8. net' = m /\ ui' = v /\ db' = db /\ left' = Spent
    BY <1>2, <1>5, <1>6 DEF StartAction
  <1>9. BackupsGood(m, db, v)
    BY <1>3, <1>7, SameGood DEF BackupsInv, BackupsGood, BackupCalls
  <1>10. ASSUME left.patient
         PROVE  ChoiceKept(m, db, v) /\ DeletionAlone(m, db, v)
    <2>1. ChoiceKept(m, db, v)
      <3>1. \A j \in Slots : m[j] = net[j] \/ ~(m[j].op = "files" /\ m[j].out.ok)
        BY <1>3, <1>4
      <3>2. ChoiceKept(m, db, ui)
        BY <1>10, <3>1, QuietCalls DEF BackupsInv
      <3> QED BY <1>7, <3>2, SameGood
    <2>2. CASE op # "deleteFile"
      <3>1. ~Deleting(Fresh(op, arg))
        BY <1>1, <1>4, <2>2 DEF Deleting
      <3>2. \A j \in Slots : ~Deleting(m[j])
        BY <1>3, <1>10, <3>1, BackupsQuiet
      <3> QED BY <2>1, <3>2, QuietCalls
    <2>3. CASE op = "deleteFile"
      <3>0. PICK k \in Kinds : \E f \in 1 .. db.made[k] :
                   arg = [kind |-> k, file |-> f, selected |-> ui.file[k]]
        BY <2>3
      <3>1. PICK f \in 1 .. db.made[k] : arg = [kind |-> k, file |-> f, selected |-> ui.file[k]]
        BY <3>0
      <3>2. PICK i \in Slots : m = Alone(i, Fresh(op, arg))
        BY <1>2, <1>10, BackupsQuiet, SendAlone
      <3>3. DeletionFits(Fresh(op, arg), db, ui)
        BY <1>4, <2>3, <3>1 DEF DeletionFits, DeletionOf
      <3>4. m[i] = Fresh(op, arg) /\ \A j \in Slots : m[j].op # "none" => j = i
        BY <3>2, AloneIs
      <3>5. \A j \in Slots : Deleting(m[j]) => m[j].op # "none"
        BY DEF Deleting
      <3>6. DeletionAlone(m, db, ui)
        BY <3>2, <3>3, <3>4, <3>5 DEF DeletionAlone
      <3> QED BY <1>7, <2>1, <3>6, SameGood
    <2> QED BY <2>2, <2>3
  <1>11. left' \in Setting /\ left'.patient = left.patient
    BY <1>8, SpentIs DEF BackupsInv
  <1> QED BY <1>8, <1>9, <1>10, <1>11 DEF BackupsInv

LEMMA BackupsActs ==
  ASSUME NEW m \in Nat, m > 0, OnBackups(m)
  PROVE  left.acts > 0 /\ (left.patient => Quiet) /\ FreeSlots(net) # {} /\ HasRoom(net, m)
  <1>1. HasRoom(net, m) /\ Cardinality({}) = 0
    BY FS_EmptySet DEF OnBackups, Acts
  <1> QED BY <1>1 DEF OnBackups, Acts, HasRoom

LEMMA SizeIs == RefreshSize \in Nat /\ RefreshSize > 0
  <1>1. Cardinality(Kinds) \in Nat
    BY BackupsAssumption, FS_CardinalityType
  <1> QED BY <1>1 DEF RefreshSize

\* An action on one kind, or on all.
LEMMA BackupActionStep ==
  ASSUME BackupsInv,
         \/ \E k \in Kinds : RunBackup(k) \/ RestoreFile(k) \/ UploadFile(k)
         \/ \E op \in {"runAll", "runNow"} : RunAll(op)
         \/ DeleteAll
  PROVE  BackupsInv'
  <1>1. ASSUME NEW k \in Kinds, NEW op, op \in {"run", "upload"}, OnBackups(1),
               StartAction(op, [kind |-> k])
        PROVE  BackupsInv'
    <2>1. PICK arg : arg = [kind |-> k]
      OBVIOUS
    <2>2. op \in BackupOps /\ op # "none" /\ op \notin {"files", "deleteFile"}
      BY <1>1 DEF BackupOps, ProgressOps
    <2>3. IsCall(Fresh(op, arg)) /\ Fresh(op, arg).op = op /\ Fresh(op, arg).arg = arg /\ ~Fresh(op, arg).out.ok
      BY <2>2, FreshIs
    <2>4. BackupFits(Fresh(op, arg), db)
      BY <2>1, <2>2, <2>3 DEF BackupFits
    <2> QED BY <1>1, <2>1, <2>2, <2>4, BackupsActs, BackupStarts
  <1>2. ASSUME NEW op, op \in {"restore", "runAll", "runNow", "deleteAll"}, NEW m \in Nat, m > 0, OnBackups(m), NEW arg,
               StartAction(op, arg)
        PROVE  BackupsInv'
    <2>1. op \in BackupOps /\ op # "none" /\ op \notin {"files", "deleteFile", "run", "upload"}
      BY <1>2 DEF BackupOps, ProgressOps
    <2>2. IsCall(Fresh(op, arg)) /\ Fresh(op, arg).op = op
      BY <2>1, FreshIs
    <2>3. BackupFits(Fresh(op, arg), db)
      BY <2>1, <2>2 DEF BackupFits
    <2> QED BY <1>2, <2>1, <2>3, BackupsActs, BackupStarts
  <1>3. ASSUME NEW k \in Kinds, RunBackup(k) \/ UploadFile(k) \/ RestoreFile(k)
        PROVE  BackupsInv'
    BY <1>1, <1>2, <1>3 DEF RunBackup, UploadFile, RestoreFile
  <1>4. ASSUME NEW op, op \in {"runAll", "runNow"}, RunAll(op)
        PROVE  BackupsInv'
    <2>1. PICK m \in Nat : m = RefreshSize
      BY SizeIs
    <2> QED BY <1>2, <1>4, <2>1, SizeIs DEF RunAll
  <1>5. ASSUME DeleteAll
        PROVE  BackupsInv'
    <2>1. PICK m \in Nat : m = RefreshSize
      BY SizeIs
    <2>2. PICK op : op = "deleteAll"
      OBVIOUS
    <2> QED BY <1>2, <1>5, <2>1, <2>2, SizeIs DEF DeleteAll
  <1> QED BY <1>3, <1>4, <1>5

LEMMA DeleteFileStep ==
  ASSUME BackupsInv, NEW k \in Kinds, NEW f, DeleteFile(k, f)
  PROVE  BackupsInv'
  <1>1. PICK arg, op : arg = [kind |-> k, file |-> f, selected |-> ui.file[k]] /\ op = "deleteFile"
    OBVIOUS
  <1>2. f \in ui.files[k] /\ StartAction(op, arg) /\ OnBackups(1)
    BY <1>1 DEF DeleteFile
  <1>3. f \in 1 .. db.made[k] /\ f \in Nat /\ ui.file[k] \in Nat \cup {None}
    BY <1>2 DEF BackupsInv, BackupsGood, FilesKnown, BackupsHeld, BackupsPage
  <1>4. arg \in Deletion(k) /\ arg.kind = k
    BY <1>1, <1>3 DEF Deletion
  <1>5. op \in BackupOps /\ op # "none" /\ op \notin {"files", "run", "upload"}
    BY <1>1 DEF BackupOps, ProgressOps
  <1>6. IsCall(Fresh(op, arg)) /\ Fresh(op, arg).op = op /\ Fresh(op, arg).arg = arg
    BY <1>5, FreshIs
  <1>7. BackupFits(Fresh(op, arg), db)
    BY <1>4, <1>5, <1>6 DEF BackupFits
  <1>8. \E j \in Kinds : \E g \in 1 .. db.made[j] : arg = [kind |-> j, file |-> g, selected |-> ui.file[j]]
    BY <1>1, <1>3
  <1> QED BY <1>2, <1>5, <1>7, <1>8, BackupsActs, BackupStarts

LEMMA RefreshBackupsStep ==
  ASSUME BackupsInv, RefreshBackups
  PROVE  BackupsInv'
  <1>1. PICK of, m, v : of = None /\ m = RefreshAll(net, of) /\ v = [ui EXCEPT !.planLoading = TRUE]
    OBVIOUS
  <1>2. net' = m /\ ui' = v /\ db' = db /\ left' = Spent /\ OnBackups(RefreshSize)
    BY <1>1 DEF RefreshBackups
  <1>3. left.acts > 0 /\ (left.patient => Quiet) /\ HasRoom(net, RefreshSize)
    BY <1>2, SizeIs, BackupsActs
  <1>4. ~Deletes(of)
    BY <1>1 DEF Deletes
  <1>5. /\ BackupCalls(m, db)
        /\ \A j \in Slots : m[j] = net[j] \/ (~Deleting(m[j]) /\ ~m[j].out.ok)
    BY <1>1, <1>3, <1>4, BackupsLoad, BackupsQuiet
  <1>6. BackupsPage(v) /\ Same(ui, v) /\ BarShown(v)
    BY <1>1 DEF BackupsInv, BackupsGood, BackupsPage, Same, BarShown
  <1>7. BackupsGood(m, db, v)
    BY <1>5, <1>6, SameGood DEF BackupsInv, BackupsGood, BackupCalls
  <1>8. ASSUME left.patient
        PROVE  ChoiceKept(m, db, v) /\ DeletionAlone(m, db, v)
    <2>1. \A j \in Slots : ~Deleting(net[j])
      BY <1>3, <1>8, BackupsQuiet
    <2>2. ChoiceKept(m, db, ui) /\ DeletionAlone(m, db, ui)
      BY <1>3, <1>5, <1>8, <2>1, BackupsQuiet, QuietCalls
    <2> QED BY <1>6, <2>2, SameGood
  <1> QED BY <1>2, <1>3, <1>7, <1>8, SpentIs DEF BackupsInv

LEMMA ChooseFileStep ==
  ASSUME BackupsInv, NEW k \in Kinds, NEW f, ChooseFile(k, f)
  PROVE  BackupsInv'
  <1>1. /\ OnBackups(0) /\ f \in ui.files[k] /\ left' = Spent /\ net' = net /\ db' = db
        /\ ui' = [ui EXCEPT !.file[k] = f, !.choice[k] = f]
    BY DEF ChooseFile
  <1>2. left.acts > 0 /\ (left.patient => Quiet)
    BY <1>1 DEF OnBackups, Acts
  <1>3. f \in 1 .. db.made[k] /\ f \in Nat
    BY <1>1 DEF BackupsInv, BackupsGood, FilesKnown, BackupsHeld
  <1>4. PICK v : v = [ui EXCEPT !.file[k] = f, !.choice[k] = f]
    OBVIOUS
  <1>5. /\ BackupsPage(v) /\ BarShown(v) /\ v.files = ui.files
        /\ v.file[k] = f /\ v.choice[k] = f
        /\ \A j \in Kinds \ {k} : v.file[j] = ui.file[j] /\ v.choice[j] = ui.choice[j]
    BY <1>3, <1>4 DEF BackupsInv, BackupsGood, BackupsPage, BarShown
  <1>6. FilesKnown(db, v)
    BY <1>3, <1>5 DEF BackupsInv, BackupsGood, FilesKnown
  <1>7. BackupsGood(net, db, v)
    BY <1>5, <1>6 DEF BackupsInv, BackupsGood
  <1>8. ASSUME left.patient
        PROVE  ChoiceKept(net, db, v) /\ DeletionAlone(net, db, v)
    <2>1. DeletionAlone(net, db, v)
      BY <1>2, <1>8, BackupsQuiet, QuietCalls
    <2>2. \A j \in Kinds : \/ ui.choice[j] \in {None, ui.file[j]}
                           \/ IsGone(net, db, ui, j, ui.choice[j])
      BY <1>2, <1>8, BackupsQuiet DEF ChoiceKept
    <2>3. ChoiceKept(net, db, v)
      BY <1>5, <2>2 DEF ChoiceKept, IsGone
    <2> QED BY <2>1, <2>3
  <1> QED BY <1>1, <1>2, <1>4, <1>7, <1>8, SpentIs DEF BackupsInv

\* The schedule, and the timer of the bar.
LEMMA PlanStep ==
  ASSUME BackupsInv, (\E p \in Plans : EditPlan(p)) \/ SavePlan \/ HideProgress
  PROVE  BackupsInv'
  <1>1. ASSUME NEW v, Same(ui, v), BackupsPage(v), BarShown(v), ui' = v, net' = net, db' = db,
               left' \in Setting, left'.patient = left.patient
        PROVE  BackupsInv'
    <2>1. BackupsGood(net, db, v)
      BY <1>1, SameGood DEF BackupsInv, BackupsGood
    <2>2. left.patient => ChoiceKept(net, db, v) /\ DeletionAlone(net, db, v)
      BY <1>1, SameGood DEF BackupsInv
    <2> QED BY <1>1, <2>1, <2>2 DEF BackupsInv
  <1>2. ASSUME NEW p \in Plans, EditPlan(p)
        PROVE  BackupsInv'
    <2>1. PICK v : v = [ui EXCEPT !.plan = p]
      OBVIOUS
    <2>2. Same(ui, v) /\ BackupsPage(v) /\ BarShown(v)
      BY <2>1 DEF BackupsInv, BackupsGood, BackupsPage, BarShown, Same
    <2>3. ui' = v /\ net' = net /\ db' = db /\ left' = Spent /\ left.acts > 0
      BY <1>2, <2>1 DEF EditPlan, OnBackups, Acts
    <2> QED BY <1>1, <2>2, <2>3, SpentIs DEF BackupsInv
  <1>3. ASSUME HideProgress
        PROVE  BackupsInv'
    <2>1. PICK v : v = [ui EXCEPT !.progress = "none", !.hide = FALSE]
      OBVIOUS
    <2>2. ui' = v /\ net' = net /\ db' = db /\ left' = left /\ ui.hide
      BY <1>3, <2>1 DEF HideProgress
    <2>3. Same(ui, v) /\ BackupsPage(v) /\ v.running = ui.running
      BY <2>1 DEF BackupsInv, BackupsGood, BackupsPage, Same
    <2>4. BarShown(v)
      BY <2>2, <2>3 DEF BackupsInv, BackupsGood, BarShown
    <2> QED BY <1>1, <2>2, <2>3, <2>4 DEF BackupsInv
  <1>4. ASSUME SavePlan
        PROVE  BackupsInv'
    <2>1. PICK v, op, arg : v = [ui EXCEPT !.planSaving = TRUE] /\ op = "savePlan" /\ arg = ui.plan
      OBVIOUS
    <2>2. PICK m : m = Send(net, op, arg)
      OBVIOUS
    <2>3. net' = m /\ ui' = v /\ db' = db /\ left' = Spent /\ OnBackups(1)
      BY <1>4, <2>1, <2>2 DEF SavePlan
    <2>4. left.acts > 0 /\ (left.patient => Quiet) /\ FreeSlots(net) # {}
      BY <2>3, BackupsActs
    <2>5. op # "none" /\ op \notin {"files", "deleteFile", "run", "upload"}
      BY <2>1
    <2>6. IsCall(Fresh(op, arg)) /\ Fresh(op, arg).op = op /\ ~Fresh(op, arg).out.ok
      BY <2>5, FreshIs
    <2>7. BackupFits(Fresh(op, arg), db) /\ ~Deleting(Fresh(op, arg))
      BY <2>5, <2>6 DEF BackupFits, Deleting
    <2>8. BackupCalls(m, db) /\ \A j \in Slots : m[j] \in {net[j], Fresh(op, arg)}
      BY <2>2, <2>4, <2>5, <2>7, BackupsQuiet, BackupSends
    <2>9. Same(ui, v) /\ BackupsPage(v) /\ BarShown(v)
      BY <2>1 DEF BackupsInv, BackupsGood, BackupsPage, BarShown, Same
    <2>10. BackupsGood(m, db, v)
      BY <2>8, <2>9, SameGood DEF BackupsInv, BackupsGood, BackupCalls
    <2>11. ASSUME left.patient
           PROVE  ChoiceKept(m, db, v) /\ DeletionAlone(m, db, v)
      <3>1. ChoiceKept(m, db, ui) /\ DeletionAlone(m, db, ui)
        <4>1. \A j \in Slots : m[j] = net[j] \/ ~(m[j].op = "files" /\ m[j].out.ok)
          BY <2>6, <2>8
        <4>2. \A j \in Slots : ~Deleting(m[j])
          BY <2>4, <2>7, <2>8, <2>11, BackupsQuiet
        <4> QED BY <2>4, <2>11, <4>1, <4>2, BackupsQuiet, QuietCalls
      <3> QED BY <2>9, <3>1, SameGood
    <2> QED BY <2>3, <2>4, <2>10, <2>11, SpentIs DEF BackupsInv
  <1> QED BY <1>2, <1>3, <1>4

-----------------------------------------------------------------------------
(* What the server does: files are numbered in their order, so that one that  *)
(* is gone does not come back.                                                *)

LEMMA BackupAfterIs ==
  ASSUME NEW d, BackupsHeld(d), d = db, NEW c, BackupFits(c, d), c.op # "none",
         NEW e, e = BackupAfter(c.op, c.arg)
  PROVE  /\ BackupsHeld(e)
         /\ \A k \in Kinds : /\ e.made[k] >= d.made[k]
                             /\ \A f \in 1 .. d.made[k] : f \in e.files[k] => f \in d.files[k]
         /\ c.op = "deleteFile" => /\ c.arg.file \notin e.files[c.arg.kind]
                                   /\ e.made = d.made
         /\ c.op = "files" => e = d
         /\ c.op = "upload" => BackupBody(c.op, c.arg) \in 1 .. e.made[c.arg.kind]
  <1>0. d \in [files : [Kinds -> SUBSET Nat], made : [Kinds -> Nat], plan : {d.plan}]
    BY DEF BackupsHeld
  <1>1. CASE c.op \in {"run", "upload"}
    <2>1. PICK k \in Kinds : c.arg.kind = k
      BY <1>1 DEF BackupFits
    <2>2. PICK m \in Nat : m = d.made[k]
      BY <1>0
    <2>3. e = [d EXCEPT !.files[k] = @ \cup {m + 1}, !.made[k] = m + 1]
      BY <1>1, <2>1, <2>2 DEF BackupAfter
    <2>4. /\ e \in [files : [Kinds -> SUBSET Nat], made : [Kinds -> Nat], plan : {e.plan}]
          /\ e.files[k] = d.files[k] \cup {m + 1} /\ e.made[k] = m + 1
          /\ \A j \in Kinds \ {k} : e.files[j] = d.files[j] /\ e.made[j] = d.made[j]
      <3>1. PICK g, h : g = [d.files EXCEPT ![k] = d.files[k] \cup {m + 1}] /\ h = [d.made EXCEPT ![k] = m + 1]
        OBVIOUS
      <3>2. /\ g \in [Kinds -> SUBSET Nat] /\ g[k] = d.files[k] \cup {m + 1}
            /\ \A j \in Kinds \ {k} : g[j] = d.files[j]
        BY <1>0, <2>2, <3>1
      <3>3. h \in [Kinds -> Nat] /\ h[k] = m + 1 /\ \A j \in Kinds \ {k} : h[j] = d.made[j]
        BY <1>0, <2>2, <3>1
      <3>4. e = [d EXCEPT !.files = g, !.made = h]
        BY <1>0, <2>3, <3>1
      <3>5. e.files = g /\ e.made = h /\ e \in [files : {g}, made : {h}, plan : {e.plan}]
        BY <1>0, <3>4
      <3> QED BY <3>2, <3>3, <3>5
    <2>5. BackupBody(c.op, c.arg) = m + 1 \/ c.op = "run"
      BY <1>1, <2>1, <2>2 DEF BackupBody
    <2>6. \A j \in Kinds : d.made[j] \in Nat
      BY <1>0
    <2>7. d.files[k] \subseteq 1 .. m /\ 1 .. m \subseteq 1 .. m + 1 /\ m + 1 \in 1 .. m + 1 /\ m + 1 \notin 1 .. m
      BY <2>2 DEF BackupsHeld
    <2>8. BackupsHeld(e)
      BY <2>4, <2>7 DEF BackupsHeld
    <2>9. \A j \in Kinds : /\ e.made[j] >= d.made[j]
                           /\ \A f \in 1 .. d.made[j] : f \in e.files[j] => f \in d.files[j]
      BY <2>2, <2>4, <2>6, <2>7
    <2> QED BY <1>1, <2>1, <2>4, <2>5, <2>7, <2>8, <2>9
  <1>2. CASE c.op \in {"runAll", "runNow"}
    <2>1. e = [d EXCEPT !.files = [k \in Kinds |-> d.files[k] \cup {d.made[k] + 1}],
                        !.made = [k \in Kinds |-> d.made[k] + 1]]
      BY <1>0, <1>2 DEF BackupAfter
    <2>2. /\ \A j \in Kinds : e.files[j] = d.files[j] \cup {d.made[j] + 1} /\ e.made[j] = d.made[j] + 1
          /\ \A j \in Kinds : d.made[j] \in Nat /\ d.files[j] \in SUBSET Nat
      BY <1>0, <2>1
    <2>3. e \in [files : [Kinds -> SUBSET Nat], made : [Kinds -> Nat], plan : {e.plan}]
      <3>1. [k \in Kinds |-> d.files[k] \cup {d.made[k] + 1}] \in [Kinds -> SUBSET Nat]
        BY <2>2
      <3>2. [k \in Kinds |-> d.made[k] + 1] \in [Kinds -> Nat]
        BY <2>2
      <3> QED BY <1>0, <2>1, <3>1, <3>2
    <2>4. \A j \in Kinds : d.files[j] \subseteq 1 .. d.made[j]
      BY DEF BackupsHeld
    <2>5. BackupsHeld(e)
      BY <2>2, <2>3, <2>4 DEF BackupsHeld
    <2> QED BY <1>2, <2>2, <2>4, <2>5
  <1>3. CASE c.op = "deleteFile"
    <2>1. PICK k \in Kinds : c.arg.kind = k
      BY <1>3 DEF BackupFits
    <2>2. e = [d EXCEPT !.files[k] = @ \ {c.arg.file}]
      BY <1>3, <2>1 DEF BackupAfter
    <2>3. /\ e \in [files : [Kinds -> SUBSET Nat], made : [Kinds -> Nat], plan : {e.plan}]
          /\ e.files[k] = d.files[k] \ {c.arg.file} /\ e.made = d.made
          /\ \A j \in Kinds \ {k} : e.files[j] = d.files[j]
          /\ \A j \in Kinds : d.made[j] \in Nat
      BY <1>0, <2>2
    <2>4. BackupsHeld(e)
      BY <2>3 DEF BackupsHeld
    <2> QED BY <1>3, <2>1, <2>3, <2>4
  <1>4. CASE c.op = "deleteAll"
    <2>1. e = [d EXCEPT !.files = [k \in Kinds |-> {}]]
      BY <1>4 DEF BackupAfter
    <2>2. /\ e \in [files : [Kinds -> SUBSET Nat], made : [Kinds -> Nat], plan : {e.plan}]
          /\ e.made = d.made /\ \A j \in Kinds : e.files[j] = {} /\ d.made[j] \in Nat
      BY <1>0, <2>1
    <2>3. BackupsHeld(e)
      BY <2>2 DEF BackupsHeld
    <2> QED BY <1>4, <2>2, <2>3
  <1>5. CASE c.op \notin {"run", "upload", "runAll", "runNow", "deleteFile", "deleteAll"}
    <2>1. e = d \/ e = [d EXCEPT !.plan = c.arg]
      BY <1>5 DEF BackupAfter
    <2>2. c.op = "files" => e = d
      BY <1>5 DEF BackupAfter
    <2>3. e.files = d.files /\ e.made = d.made /\ e \in [files : [Kinds -> SUBSET Nat], made : [Kinds -> Nat], plan : {e.plan}]
      BY <1>0, <2>1
    <2>4. BackupsHeld(e)
      BY <2>3 DEF BackupsHeld
    <2>5. \A j \in Kinds : d.made[j] \in Nat
      BY <1>0
    <2> QED BY <1>5, <2>2, <2>3, <2>4, <2>5
  <1> QED BY <1>1, <1>2, <1>3, <1>4, <1>5

\* Files made meanwhile change nothing of what the page knows and the calls say.
LEMMA MoreIsMade ==
  ASSUME NEW d, BackupsHeld(d), NEW e, BackupsHeld(e), \A k \in Kinds : e.made[k] >= d.made[k]
  PROVE  /\ \A k \in Kinds : 1 .. d.made[k] \subseteq 1 .. e.made[k]
         /\ \A c : BackupFits(c, d) => BackupFits(c, e)
         /\ \A u : FilesKnown(d, u) => FilesKnown(e, u)
  <1>1. \A k \in Kinds : d.made[k] \in Nat /\ e.made[k] \in Nat
    BY DEF BackupsHeld
  <1>2. \A k \in Kinds : 1 .. d.made[k] \subseteq 1 .. e.made[k]
    BY <1>1
  <1>3. ASSUME NEW c, BackupFits(c, d)
        PROVE  BackupFits(c, e)
    <2>1. c.op = "files" => c.arg.kind \in Kinds
      BY <1>3 DEF BackupFits
    <2>2. c.op = "upload" => c.arg.kind \in Kinds
      BY <1>3 DEF BackupFits
    <2> QED BY <1>2, <1>3, <2>1, <2>2 DEF BackupFits
  <1>4. ASSUME NEW u, FilesKnown(d, u)
        PROVE  FilesKnown(e, u)
    BY <1>2, <1>4 DEF FilesKnown
  <1> QED BY <1>2, <1>3, <1>4

LEMMA AloneBack ==
  ASSUME NEW i \in Slots, NEW c, NEW out
  PROVE  ComeBack(Alone(i, c), i, out) = Alone(i, Answer(c, out))
  BY DEF ComeBack, Alone, Answer

LEMMA BackupServedStep ==
  ASSUME BackupsInv, NEW i \in Slots, BackupServed(i) \/ Refuse(i)
  PROVE  BackupsInv'
  <1>1. PICK c, e, body : /\ c = net[i] /\ e = BackupAfter(c.op, c.arg)
                          /\ body = BackupBody(c.op, c.arg)
    OBVIOUS
  <1>2. IsOpen(net, i) /\ c.op # "none" /\ ~c.back
    BY <1>1 DEF BackupServed, Serve, Refuse, IsOpen
  <1>3. PICK out, d : /\ net' = ComeBack(net, i, out) /\ db' = d /\ ui' = ui
                      /\ \/ out = Failure /\ d \in {db, e}
                         \/ out = Success(body) /\ d = e
    <2>1. CASE Refuse(i)
      BY <2>1 DEF Refuse
    <2>2. CASE BackupServed(i)
      BY <1>1, <2>2 DEF BackupServed, Serve
    <2> QED BY <2>1, <2>2
  <1>4. left' \in Setting /\ left'.patient = left.patient
    BY LeftIs DEF BackupServed, BackupsInv
  <1>5. BackupCalls(net, db) /\ BackupFits(c, db) /\ BackupsHeld(db) /\ FilesKnown(db, ui)
    BY <1>1, <1>2 DEF BackupsInv, BackupsGood, BackupCalls
  <1>6. /\ BackupsHeld(e)
        /\ \A k \in Kinds : /\ e.made[k] >= db.made[k]
                            /\ \A f \in 1 .. db.made[k] : f \in e.files[k] => f \in db.files[k]
        /\ c.op = "deleteFile" => /\ c.arg.file \notin e.files[c.arg.kind]
                                  /\ e.made = db.made
        /\ c.op = "files" => e = db
        /\ c.op = "upload" => body \in 1 .. e.made[c.arg.kind]
    BY <1>1, <1>2, <1>5, BackupAfterIs
  <1>7. \A k \in Kinds : db.made[k] >= db.made[k]
    BY <1>5 DEF BackupsHeld
  <1>8. /\ BackupsHeld(d)
        /\ \A k \in Kinds : /\ d.made[k] >= db.made[k]
                            /\ \A f \in 1 .. db.made[k] : f \in d.files[k] => f \in db.files[k]
        /\ c.op = "deleteFile" => d.made = db.made
        /\ c.op = "files" => d = db
    BY <1>3, <1>5, <1>6, <1>7
  <1>9. /\ \A k \in Kinds : 1 .. db.made[k] \subseteq 1 .. d.made[k]
        /\ \A x : BackupFits(x, db) => BackupFits(x, d)
        /\ FilesKnown(d, ui)
    BY <1>5, <1>8, MoreIsMade
  <1>10. (out = Failure \/ out = Success(out.body)) /\ (out.ok => out = Success(body) /\ out.body = body /\ d = e)
    BY <1>3, OutcomeIs
  <1>11. PICK m, a : m = ComeBack(net, i, out) /\ a = Answer(c, out)
    OBVIOUS
  <1>12. Calls(m) /\ m[i] = a /\ \A j \in Slots \ {i} : m[j] = net[j]
    BY <1>1, <1>2, <1>5, <1>10, <1>11, ComeBackChanges DEF BackupCalls, Changed
  <1>13. IsCall(c)
    BY <1>5 DEF BackupFits
  <1>14. IsCall(a) /\ a.op = c.op /\ a.arg = c.arg /\ a.out = out
    BY <1>10, <1>11, <1>13, AnswerIs
  <1>15. c.op = "files" => body = db.files[c.arg.kind] /\ c.arg.kind \in Kinds
    BY <1>1, <1>5 DEF BackupBody, BackupFits
  <1>16. BackupFits(a, d)
    <2>1. BackupFits(c, d)
      BY <1>5, <1>9
    <2>2. c.op = "files" /\ out.ok => body \subseteq 1 .. d.made[c.arg.kind]
      BY <1>5, <1>8, <1>15 DEF BackupsHeld
    <2>3. c.op = "upload" /\ out.ok => body \in 1 .. d.made[c.arg.kind]
      BY <1>6, <1>10
    <2> QED BY <1>10, <1>14, <2>1, <2>2, <2>3 DEF BackupFits
  <1>17. BackupCalls(m, d)
    BY <1>5, <1>9, <1>12, <1>16 DEF BackupCalls
  <1>18. BackupsGood(m, d, ui)
    BY <1>8, <1>9, <1>17 DEF BackupCalls, BackupsGood, BackupsInv
  <1>19. ASSUME left.patient
         PROVE  ChoiceKept(m, d, ui) /\ DeletionAlone(m, d, ui)
    <2>1. ChoiceKept(net, db, ui) /\ DeletionAlone(net, db, ui)
      BY <1>19 DEF BackupsInv
    <2>2. ASSUME NEW k \in Kinds, NEW f \in 1 .. db.made[k], IsGone(net, db, ui, k, f)
          PROVE  IsGone(m, d, ui, k, f)
      <3>1. f \notin d.files[k] /\ f \notin ui.files[k] /\ f \notin db.files[k]
        BY <1>8, <2>2 DEF IsGone
      <3>2. a.op = "files" /\ a.arg.kind = k /\ a.out.ok => f \notin a.out.body
        BY <1>10, <1>14, <1>15, <3>1
      <3>3. \A j \in Slots : m[j].op = "files" /\ m[j].arg.kind = k /\ m[j].out.ok => f \notin m[j].out.body
        BY <1>12, <2>2, <3>2 DEF IsGone
      <3> QED BY <3>1, <3>3 DEF IsGone
    <2>3. ChoiceKept(m, d, ui)
      <3>1. \A k \in Kinds : ui.choice[k] \in {None} \cup 1 .. db.made[k]
        BY <1>5 DEF FilesKnown
      <3> QED BY <2>1, <2>2, <3>1 DEF ChoiceKept
    <2>4. ASSUME NEW j \in Slots, Deleting(m[j])
          PROVE  m = Alone(j, m[j]) /\ DeletionFits(m[j], d, ui)
      <3>1. j = i
        <4>1. SUFFICES ASSUME j # i PROVE FALSE
          OBVIOUS
        <4>2. m[j] = net[j] /\ net = Alone(j, net[j])
          BY <1>12, <2>1, <2>4, <4>1 DEF DeletionAlone
        <4>3. i = j
          BY <1>1, <1>2, <4>2, AloneIs
        <4> QED BY <4>1, <4>3
      <3>2. m[j] = a /\ Deleting(c)
        BY <1>12, <1>14, <2>4, <3>1 DEF Deleting
      <3>3. net = Alone(i, c) /\ DeletionFits(c, db, ui)
        BY <1>1, <2>1, <3>2 DEF DeletionAlone
      <3>4. m = Alone(i, a)
        <4>1. net = Alone(i, c) /\ m = ComeBack(net, i, out)
          BY <1>11, <3>3
        <4> QED BY <1>11, <4>1, AloneBack
      <3>5. PICK k \in Kinds : \E f \in 1 .. db.made[k] :
              /\ DeletionOf(c) = [kind |-> k, file |-> f, selected |-> ui.file[k]]
              /\ c.op = "files" => c.arg.kind = k
              /\ c.op = "files" \/ c.out.ok => f \notin db.files[k]
        BY <3>3 DEF DeletionFits
      <3>6. PICK f \in 1 .. db.made[k] :
              /\ DeletionOf(c) = [kind |-> k, file |-> f, selected |-> ui.file[k]]
              /\ c.op = "files" => c.arg.kind = k
              /\ c.op = "files" \/ c.out.ok => f \notin db.files[k]
        BY <3>5
      <3>7. f \in 1 .. d.made[k]
        BY <1>9
      <3>8. DeletionOf(a) = [kind |-> k, file |-> f, selected |-> ui.file[k]]
        BY <1>14, <3>6 DEF DeletionOf
      <3>9. CASE c.op = "files"
        <4>1. f \notin d.files[k] /\ (out.ok => f \notin out.body)
          BY <1>8, <1>10, <1>15, <3>6, <3>9
        <4> QED BY <1>14, <3>1, <3>2, <3>4, <3>6, <3>7, <3>8, <3>9, <4>1 DEF DeletionFits
      <3>10. CASE c.op = "deleteFile"
        <4>1. c.arg.file = f /\ c.arg.kind = k
          BY <3>6, <3>10 DEF DeletionOf
        <4>2. out.ok => f \notin d.files[k]
          BY <1>6, <1>10, <3>10, <4>1
        <4>3. a.op = "deleteFile" /\ a.op # "files"
          BY <1>14, <3>10
        <4> QED BY <1>14, <3>1, <3>2, <3>4, <3>7, <3>8, <4>2, <4>3 DEF DeletionFits
      <3> QED BY <3>2, <3>9, <3>10 DEF Deleting
    <2> QED BY <2>3, <2>4 DEF DeletionAlone
  <1> QED BY <1>3, <1>4, <1>11, <1>18, <1>19 DEF BackupsInv

-----------------------------------------------------------------------------
(* What comes back.                                                          *)

LEMMA UnawaitedIs ==
  ASSUME NEW n, NEW d, BackupCalls(n, d)
  PROVE  /\ BackupCalls(Unawaited(n), d)
         /\ \A j \in Slots : /\ Unawaited(n)[j].op = n[j].op /\ Unawaited(n)[j].out = n[j].out
                             /\ n[j].op = "files" => /\ Unawaited(n)[j].arg.kind = n[j].arg.kind
                                                     /\ ~Deletes(Unawaited(n)[j].arg.of)
                             /\ n[j].op \notin {"files", "plan"} => Unawaited(n)[j] = n[j]
  <1> DEFINE F(j) == [n[j] EXCEPT !.arg.of = None]
             G(j) == [n[j] EXCEPT !.arg = None]
  <1>1. ASSUME NEW j \in Slots, n[j].op = "files"
        PROVE  /\ BackupFits(F(j), d) /\ F(j).op = "files" /\ F(j).out = n[j].out
               /\ F(j).arg.kind = n[j].arg.kind /\ ~Deletes(F(j).arg.of)
    <2>1. BackupFits(n[j], d) /\ IsCall(n[j])
      BY <1>1 DEF BackupCalls, BackupFits
    <2>2. PICK c, b : c = n[j] /\ b = [c.arg EXCEPT !.of = None]
      OBVIOUS
    <2>3. c.arg \in [kind : Kinds, of : {c.arg.of}]
      BY <1>1, <2>1, <2>2 DEF BackupFits
    <2>4. b \in [kind : Kinds, of : {b.of}] /\ b.kind = c.arg.kind /\ b.of = None
      BY <2>2, <2>3
    <2>5. PICK e : e = [c EXCEPT !.arg = b]
      OBVIOUS
    <2>6. F(j) = e
      BY <2>2, <2>5
    <2>7. IsCall(e) /\ e.op = c.op /\ e.out = c.out /\ e.arg = b
      BY <2>1, <2>2, <2>5 DEF IsCall
    <2>8. ~Deletes(b.of)
      BY <2>4 DEF Deletes
    <2>9. BackupFits(e, d)
      BY <1>1, <2>1, <2>2, <2>4, <2>7, <2>8 DEF BackupFits
    <2> QED BY <1>1, <2>2, <2>4, <2>6, <2>7, <2>8, <2>9
  <1>2. ASSUME NEW j \in Slots, n[j].op = "plan"
        PROVE  BackupFits(G(j), d) /\ G(j).op = "plan" /\ G(j).out = n[j].out
    <2>1. IsCall(n[j])
      BY <1>2 DEF BackupCalls, BackupFits
    <2>2. IsCall(G(j)) /\ G(j).op = "plan" /\ G(j).out = n[j].out
      BY <1>2, <2>1 DEF IsCall
    <2> HIDE DEF G
    <2> QED BY <2>2 DEF BackupFits
  <1> HIDE DEF F, G
  <1>3. PICK m : m = [j \in Slots |-> IF n[j].op = "files" THEN F(j)
                                      ELSE IF n[j].op = "plan" THEN G(j) ELSE n[j]]
    OBVIOUS
  <1>4. Unawaited(n) = m
    BY <1>3 DEF Unawaited, F, G
  <1>5. \A j \in Slots : m[j] = IF n[j].op = "files" THEN F(j)
                                ELSE IF n[j].op = "plan" THEN G(j) ELSE n[j]
    BY <1>3
  <1>6. \A j \in Slots : /\ m[j].op = n[j].op /\ m[j].out = n[j].out
                         /\ n[j].op = "files" => m[j].arg.kind = n[j].arg.kind /\ ~Deletes(m[j].arg.of)
                         /\ n[j].op \notin {"files", "plan"} => m[j] = n[j]
                         /\ n[j].op # "none" => BackupFits(m[j], d)
    BY <1>1, <1>2, <1>5 DEF BackupCalls
  <1>7. m = [j \in Slots |-> m[j]]
    BY <1>3
  <1>8. \A j \in Slots : n[j].op = "none" => m[j] = NoCall
    BY <1>6, CallIs DEF BackupCalls, Calls, IsCall
  <1>9. Calls(m)
    BY <1>6, <1>7, <1>8 DEF Calls, BackupFits
  <1>10. BackupCalls(m, d)
    BY <1>6, <1>9 DEF BackupCalls
  <1> QED BY <1>4, <1>6, <1>10

LEMMA BackupBack ==
  ASSUME BackupsInv, NEW i \in Slots, IsBack(net, i)
  PROVE  /\ net[i].op # "none" /\ BackupFits(net[i], db) /\ BackupCalls(net, db)
         /\ left.patient => /\ \A j \in Slots \ {i} : ~Deleting(net[j])
                            /\ \A j \in Slots \ {i} : ~Deleting(Settle(net, i)[j])
                            /\ \A j \in Slots : ~Deleting(Settle(net, i)[j])
                            /\ ChoiceKept(Settle(net, i), db, ui)
  <1>1. net[i].op # "none" /\ BackupFits(net[i], db) /\ BackupCalls(net, db)
    BY DEF IsBack, BackupsInv, BackupsGood, BackupCalls
  <1>2. PICK m : m = Settle(net, i)
    OBVIOUS
  <1>3. m[i] = NoCall /\ \A j \in Slots \ {i} : m[j] = net[j]
    BY <1>1, <1>2, BackupSettles
  <1>4. ASSUME left.patient, NEW j \in Slots \ {i}
        PROVE  ~Deleting(net[j])
    <2>1. Deleting(net[j]) => net = Alone(j, net[j])
      BY <1>4 DEF BackupsInv, DeletionAlone
    <2> QED BY <1>1, <1>4, <2>1, AloneIs
  <1>5. left.patient => ChoiceKept(m, db, ui)
    BY <1>3, NotCallIs, QuietCalls DEF BackupsInv
  <1> QED BY <1>1, <1>2, <1>3, <1>4, <1>5, NotCallIs

\* The selection is filled in, and an action may have ended.
LEMMA LoadedStep ==
  ASSUME BackupsInv, NEW i \in Slots, IsBack(net, i), NEW of, NEW u, Loaded(i, u, of),
         BackupsPage(u), FilesKnown(db, u), BarShown(u),
         left.patient => ChoiceKept(Settle(net, i), db, u)
  PROVE  BackupsInv'
  <1>1. PICK ends : ends = (of # None /\ (~net[i].out.ok \/ ~Awaited(Settle(net, i))))
    OBVIOUS
  <1>2. PICK w, m, n : /\ w = IF ends THEN EndAction(u, of.op, net[i].out.ok) ELSE u
                       /\ n = Settle(net, i)
                       /\ m = IF of # None /\ ~net[i].out.ok THEN Unawaited(n) ELSE n
    OBVIOUS
  <1>3. PICK v : v = Defaulted(w)
    OBVIOUS
  <1>4. net' = m /\ ui' = v /\ db' = db /\ left' = left
    BY <1>1, <1>2, <1>3 DEF Loaded
  <1>5. BackupsPage(w) /\ BarShown(w) /\ Same(u, w)
    BY <1>2, EndIs DEF Same
  <1>6. BackupsHeld(db) /\ FilesKnown(db, w)
    BY <1>5, SameGood DEF BackupsInv, BackupsGood
  <1>7. /\ BackupsPage(v) /\ BarShown(v) /\ FilesKnown(db, v)
        /\ v.files = w.files /\ v.choice = w.choice
        /\ \A k \in Kinds : w.file[k] # None => v.file[k] = w.file[k]
    BY <1>3, <1>5, <1>6, DefaultedIs
  <1>8. /\ BackupCalls(m, db)
        /\ \A j \in Slots : /\ m[j].op = n[j].op /\ m[j].out = n[j].out
                            /\ n[j].op = "files" => m[j].arg.kind = n[j].arg.kind
                            /\ Deleting(m[j]) => Deleting(n[j])
    <2>1. BackupCalls(n, db)
      BY <1>2, BackupBack, BackupSettles
    <2>2. CASE m = n
      BY <2>1, <2>2
    <2>3. CASE m = Unawaited(n)
      <3>1. /\ BackupCalls(m, db)
            /\ \A j \in Slots : /\ m[j].op = n[j].op /\ m[j].out = n[j].out
                                /\ n[j].op = "files" => /\ m[j].arg.kind = n[j].arg.kind
                                                        /\ ~Deletes(m[j].arg.of)
                                /\ n[j].op \notin {"files", "plan"} => m[j] = n[j]
        BY <2>1, <2>3, UnawaitedIs
      <3> QED BY <3>1 DEF Deleting
    <2> QED BY <1>2, <2>2, <2>3
  <1>9. BackupsGood(m, db, v)
    BY <1>6, <1>7, <1>8 DEF BackupsGood, BackupCalls
  <1>10. ASSUME left.patient
         PROVE  ChoiceKept(m, db, v) /\ DeletionAlone(m, db, v)
    <2>1. \A j \in Slots : ~Deleting(n[j])
      BY <1>2, <1>10, BackupBack
    <2>2. \A j \in Slots : ~Deleting(m[j])
      BY <1>8, <2>1
    <2>3. DeletionAlone(m, db, v)
      BY <2>2, QuietCalls
    <2>4. ASSUME NEW k \in Kinds
          PROVE  v.choice[k] \in {None, v.file[k]} \/ IsGone(m, db, v, k, v.choice[k])
      <3>1. u.choice[k] \in {None, u.file[k]} \/ IsGone(n, db, u, k, u.choice[k])
        BY <1>2, <1>10 DEF ChoiceKept
      <3>2. v.choice = u.choice /\ v.files = u.files /\ (u.file[k] # None => v.file[k] = u.file[k])
        BY <1>5, <1>7 DEF Same
      <3>3. IsGone(n, db, u, k, u.choice[k]) => IsGone(m, db, v, k, v.choice[k])
        BY <1>8, <3>2 DEF IsGone
      <3> QED BY <3>1, <3>2, <3>3
    <2> QED BY <2>3, <2>4 DEF ChoiceKept
  <1> QED BY <1>4, <1>9, <1>10 DEF BackupsInv

LEMMA OnFileListStep ==
  ASSUME BackupsInv, NEW i \in Slots, OnFileList(i)
  PROVE  BackupsInv'
  <1>1. PICK c, k, of, ok : c = net[i] /\ k = c.arg.kind /\ of = c.arg.of /\ ok = c.out.ok
    OBVIOUS
  <1>2. IsBack(net, i) /\ c.op = "files"
    BY <1>1 DEF OnFileList, Back
  <1>3. /\ BackupFits(c, db) /\ k \in Kinds
        /\ ok => c.out.body \subseteq 1 .. db.made[k]
    BY <1>1, <1>2, BackupBack DEF BackupFits
  <1>4. PICK b : b = IF ok THEN c.out.body ELSE ui.files[k]
    OBVIOUS
  <1>5. PICK w : w = IF ok THEN [ui EXCEPT !.files[k] = c.out.body] ELSE ui
    OBVIOUS
  <1>6. BackupsHeld(db) /\ BackupsPage(ui) /\ FilesKnown(db, ui) /\ BarShown(ui)
    BY DEF BackupsInv, BackupsGood
  <1>7. b \subseteq 1 .. db.made[k] /\ b \in SUBSET Nat
    BY <1>3, <1>4, <1>6 DEF FilesKnown, BackupsHeld
  <1>8. /\ BackupsPage(w) /\ w.files[k] = b /\ \A j \in Kinds \ {k} : w.files[j] = ui.files[j]
        /\ w.file = ui.file /\ w.choice = ui.choice /\ BarShown(w)
    <2>1. CASE ok
      <3>1. PICK g : g = [ui.files EXCEPT ![k] = b]
        OBVIOUS
      <3>2. g \in [Kinds -> SUBSET Nat] /\ g[k] = b /\ \A j \in Kinds \ {k} : g[j] = ui.files[j]
        BY <1>3, <1>6, <1>7, <3>1 DEF BackupsPage
      <3>3. w = [ui EXCEPT !.files = g]
        BY <1>4, <1>5, <2>1, <3>1
      <3>4. BackupsPage(w) /\ w.files = g /\ w.file = ui.file /\ w.choice = ui.choice /\ BarShown(w)
        BY <1>6, <3>2, <3>3 DEF BackupsPage, BarShown
      <3> QED BY <3>2, <3>4
    <2>2. CASE ~ok
      BY <1>4, <1>5, <1>6, <2>2
    <2> QED BY <2>1, <2>2
  <1>9. FilesKnown(db, w)
    BY <1>6, <1>7, <1>8 DEF FilesKnown
  <1>10. PICK cleared : cleared = (ok /\ of # None /\ of.op = "deleteFile" /\ of.arg.file = of.arg.selected)
    OBVIOUS
  <1>11. PICK u : u = IF ok /\ of # None /\ of.op = "deleteFile" THEN Deselected(w, of) ELSE w
    OBVIOUS
  <1>12. Loaded(i, u, of)
    BY SMTT(60), <1>1, <1>5, <1>11 DEF OnFileList
  <1>13. cleared => of.arg.kind = k
    BY <1>1, <1>2, <1>3, <1>10 DEF BackupFits, Deletes, Deletion
  <1>14. u = IF cleared THEN [w EXCEPT !.file[k] = None] ELSE w
    BY <1>10, <1>11, <1>13 DEF Deselected
  <1>15. /\ BackupsPage(u) /\ u.files = w.files /\ u.choice = w.choice /\ BarShown(u)
         /\ \A j \in Kinds : u.file[j] = w.file[j] \/ (cleared /\ j = k)
    <2>1. CASE cleared
      <3>1. PICK g : g = [w.file EXCEPT ![k] = None]
        OBVIOUS
      <3>2. g \in [Kinds -> Nat \cup {None}] /\ \A j \in Kinds \ {k} : g[j] = w.file[j]
        BY <1>3, <1>8, <3>1 DEF BackupsPage
      <3>3. u = [w EXCEPT !.file = g]
        BY <1>14, <2>1, <3>1
      <3>4. BackupsPage(u) /\ u.file = g /\ u.files = w.files /\ u.choice = w.choice /\ BarShown(u)
        BY <1>8, <3>2, <3>3 DEF BackupsPage, BarShown
      <3> QED BY <2>1, <3>2, <3>4
    <2>2. CASE ~cleared
      BY <1>8, <1>14, <2>2
    <2> QED BY <2>1, <2>2
  <1>16. FilesKnown(db, u)
    BY <1>9, <1>15 DEF FilesKnown
  <1>17. PICK n : n = Settle(net, i)
    OBVIOUS
  <1>18. ASSUME left.patient
         PROVE  ChoiceKept(n, db, u)
    <2>1. n[i] = NoCall /\ \A j \in Slots \ {i} : n[j] = net[j]
      BY <1>2, <1>17, BackupBack, BackupSettles
    <2>2. ASSUME NEW j \in Kinds
          PROVE  u.choice[j] \in {None, u.file[j]} \/ IsGone(n, db, u, j, u.choice[j])
      <3>1. PICK f : f = ui.choice[j]
        OBVIOUS
      <3>2. u.choice[j] = f
        BY <1>8, <1>15, <3>1
      <3>3. f \in {None, ui.file[j]} \/ IsGone(net, db, ui, j, f)
        BY <1>18, <3>1 DEF BackupsInv, ChoiceKept
      <3>4. CASE IsGone(net, db, ui, j, f)
        <4>1. j = k => f \notin b
          BY <1>1, <1>2, <1>4, <3>4 DEF IsGone
        <4>2. f \notin u.files[j] /\ f \notin db.files[j]
          BY <1>8, <1>15, <3>4, <4>1 DEF IsGone
        <4>3. IsGone(n, db, u, j, f)
          BY <2>1, <3>4, <4>2, NotCallIs DEF IsGone
        <4> QED BY <3>2, <4>3
      <3>5. CASE f \in {None, ui.file[j]} /\ ~(cleared /\ j = k)
        BY <1>8, <1>15, <3>2, <3>5
      <3>6. CASE f = ui.file[j] /\ cleared /\ j = k
        <4>1. Deleting(c)
          BY <1>1, <1>2, <1>10, <3>6 DEF Deleting, Deletes
        <4>2. net = Alone(i, c) /\ DeletionFits(c, db, ui)
          BY <1>1, <1>18, <4>1 DEF BackupsInv, DeletionAlone
        <4>3. PICK x \in Kinds : \E g \in 1 .. db.made[x] :
                /\ DeletionOf(c) = [kind |-> x, file |-> g, selected |-> ui.file[x]]
                /\ c.arg.kind = x /\ g \notin db.files[x] /\ (c.out.ok => g \notin c.out.body)
          BY <1>2, <4>2 DEF DeletionFits
        <4>4. PICK g : /\ DeletionOf(c) = [kind |-> k, file |-> g, selected |-> ui.file[k]]
                       /\ g \notin db.files[k] /\ g \notin c.out.body
          BY <1>1, <1>10, <3>6, <4>3
        <4>5. DeletionOf(c) = of.arg
          BY <1>1, <1>2 DEF DeletionOf
        <4>6. g = f
          <5>1. of.arg.file = g /\ of.arg.selected = ui.file[k]
            BY <4>4, <4>5
          <5>2. of.arg.file = of.arg.selected /\ f = ui.file[k]
            BY <1>10, <3>6
          <5> QED BY <5>1, <5>2
        <4>7. f \notin db.files[j] /\ f \notin u.files[j]
          BY <1>4, <1>8, <1>10, <1>15, <3>6, <4>4, <4>6
        <4>8. \A l \in Slots : n[l].op # "files"
          <5>1. n = NoCalls
            BY <1>17, <4>2, AloneIs
          <5> QED BY <5>1, NoCallsAre, NotCallIs
        <4>9. IsGone(n, db, u, j, f)
          BY <4>7, <4>8 DEF IsGone
        <4> QED BY <3>2, <4>9
      <3> QED BY <3>3, <3>4, <3>5, <3>6, <1>8, <1>15, <3>2
    <2> QED BY <2>2 DEF ChoiceKept
  <1> QED BY <1>2, <1>12, <1>15, <1>16, <1>17, <1>18, LoadedStep

\* What comes back changes the page, but no list.
LEMMA SameStep ==
  ASSUME BackupsInv, NEW i \in Slots, IsBack(net, i), NEW v, Same(ui, v), BackupsPage(v), BarShown(v),
         ui' = v, net' = Settle(net, i), db' = db, left' = left
  PROVE  BackupsInv'
  <1>1. PICK m : m = Settle(net, i)
    OBVIOUS
  <1>2. BackupCalls(m, db)
    BY <1>1, BackupBack, BackupSettles
  <1>3. BackupsGood(m, db, v)
    BY <1>2, SameGood DEF BackupsInv, BackupsGood, BackupCalls
  <1>4. left.patient => ChoiceKept(m, db, v) /\ DeletionAlone(m, db, v)
    BY <1>1, BackupBack, QuietCalls, SameGood
  <1> QED BY <1>1, <1>3, <1>4 DEF BackupsInv

LEMMA OnPlanStep ==
  ASSUME BackupsInv, NEW i \in Slots, OnPlan(i) \/ OnPlanSaved(i) \/ OnBackupEnds(i)
  PROVE  BackupsInv'
  <1>1. ASSUME OnPlan(i)
        PROVE  BackupsInv'
    <2>1. PICK p : p = IF net[i].out.ok THEN net[i].out.body ELSE ui.plan
      OBVIOUS
    <2>2. PICK u : u = [ui EXCEPT !.planLoading = FALSE, !.plan = p]
      OBVIOUS
    <2>3. Loaded(i, u, net[i].arg) /\ IsBack(net, i)
      BY <1>1, <2>1, <2>2 DEF OnPlan, Back
    <2>4. BackupsPage(u) /\ Same(ui, u) /\ BarShown(u)
      BY <2>2 DEF BackupsInv, BackupsGood, BackupsPage, BarShown, Same
    <2>5. FilesKnown(db, u)
      BY <2>4, SameGood DEF BackupsInv, BackupsGood
    <2>6. left.patient => ChoiceKept(Settle(net, i), db, u)
      BY <2>3, <2>4, BackupBack, SameGood
    <2> QED BY <2>3, <2>4, <2>5, <2>6, LoadedStep
  <1>2. ASSUME OnPlanSaved(i)
        PROVE  BackupsInv'
    <2>1. PICK p : p = IF net[i].out.ok THEN net[i].out.body ELSE ui.plan
      OBVIOUS
    <2>2. PICK v : v = [ui EXCEPT !.planSaving = FALSE, !.plan = p]
      OBVIOUS
    <2>3. ui' = v /\ net' = Settle(net, i) /\ db' = db /\ left' = left /\ IsBack(net, i)
      BY <1>2, <2>1, <2>2 DEF OnPlanSaved, Back
    <2>4. BackupsPage(v) /\ Same(ui, v) /\ BarShown(v)
      BY <2>2 DEF BackupsInv, BackupsGood, BackupsPage, BarShown, Same
    <2> QED BY <2>3, <2>4, SameStep
  <1>3. ASSUME OnBackupEnds(i)
        PROVE  BackupsInv'
    <2>1. PICK v : v = EndAction(ui, net[i].op, net[i].out.ok)
      OBVIOUS
    <2>2. ui' = v /\ net' = Settle(net, i) /\ db' = db /\ left' = left /\ IsBack(net, i)
      BY <1>3, <2>1 DEF OnBackupEnds, Good, Bad, Back
    <2>3. BackupsPage(v) /\ Same(ui, v) /\ BarShown(v)
      BY <2>1, EndIs DEF BackupsInv, BackupsGood
    <2> QED BY <2>2, <2>3, SameStep
  <1> QED BY <1>1, <1>2, <1>3

LEMMA OnFileChangedStep ==
  ASSUME BackupsInv, NEW i \in Slots, OnFileChanged(i)
  PROVE  BackupsInv'
  <1>1. PICK c, k, f : c = net[i] /\ k = c.arg.kind /\ f = c.out.body
    OBVIOUS
  <1>2. IsBack(net, i) /\ c.op \in {"run", "upload", "deleteFile"} /\ c.out.ok
    BY <1>1 DEF OnFileChanged, Good, Back
  <1>3. /\ BackupFits(c, db) /\ k \in Kinds /\ BackupCalls(net, db)
        /\ c.op = "upload" => f \in 1 .. db.made[k]
        /\ c.op = "deleteFile" => c.arg \in Deletion(k)
    BY <1>1, <1>2, BackupBack DEF BackupFits
  <1>4. PICK op, of, arg : /\ op = "files" /\ of = [op |-> c.op, arg |-> c.arg]
                           /\ arg = [kind |-> k, of |-> of]
    OBVIOUS
  <1>5. PICK n, m : n = Settle(net, i) /\ m = Send(n, op, arg)
    OBVIOUS
  <1>6. PICK v : v = IF c.op = "upload" THEN [ui EXCEPT !.file[k] = f, !.choice[k] = f] ELSE ui
    OBVIOUS
  <1>7. net' = m /\ ui' = v /\ db' = db /\ left' = left
    BY <1>1, <1>4, <1>5, <1>6 DEF OnFileChanged, LoadKind
  <1>8. of.op = c.op /\ of.arg = c.arg /\ arg.kind = k /\ arg.of = of /\ arg \in [kind : Kinds, of : {arg.of}]
    BY <1>3, <1>4
  <1>9. IsCall(Fresh(op, arg)) /\ Fresh(op, arg).op = op /\ Fresh(op, arg).arg = arg /\ ~Fresh(op, arg).out.ok
    BY <1>4, FreshIs
  <1>10. BackupFits(Fresh(op, arg), db)
    BY <1>3, <1>4, <1>8, <1>9 DEF BackupFits, Deletes
  <1>11. BackupCalls(n, db) /\ FreeSlots(n) # {}
    BY <1>3, <1>5, BackupSettles
  <1>12. BackupCalls(m, db) /\ \A j \in Slots : m[j] \in {n[j], Fresh(op, arg)}
    BY <1>4, <1>5, <1>10, <1>11, BackupSends
  <1>13. BackupsHeld(db) /\ BackupsPage(ui) /\ FilesKnown(db, ui) /\ BarShown(ui)
    BY DEF BackupsInv, BackupsGood
  <1>14. /\ BackupsPage(v) /\ BarShown(v) /\ v.files = ui.files
         /\ \A j \in Kinds : \/ v.file[j] = ui.file[j] /\ v.choice[j] = ui.choice[j]
                             \/ v.file[j] = f /\ v.choice[j] = f /\ j = k /\ c.op = "upload"
         /\ c.op # "upload" => v = ui
    <2>1. CASE c.op = "upload"
      <3>1. f \in Nat
        BY <1>3, <1>13, <2>1 DEF BackupsHeld
      <3>2. PICK g, h : g = [ui.file EXCEPT ![k] = f] /\ h = [ui.choice EXCEPT ![k] = f]
        OBVIOUS
      <3>3. /\ g \in [Kinds -> Nat \cup {None}] /\ g[k] = f /\ \A j \in Kinds \ {k} : g[j] = ui.file[j]
            /\ h \in [Kinds -> Nat \cup {None}] /\ h[k] = f /\ \A j \in Kinds \ {k} : h[j] = ui.choice[j]
        BY <1>3, <1>13, <3>1, <3>2 DEF BackupsPage
      <3>4. v = [ui EXCEPT !.file = g, !.choice = h]
        BY <1>6, <2>1, <3>2
      <3>5. BackupsPage(v) /\ v.file = g /\ v.choice = h /\ v.files = ui.files /\ BarShown(v)
        BY <1>13, <3>3, <3>4 DEF BackupsPage, BarShown
      <3> QED BY <2>1, <3>3, <3>5
    <2>2. CASE c.op # "upload"
      BY <1>6, <1>13, <2>2
    <2> QED BY <2>1, <2>2
  <1>15. FilesKnown(db, v)
    BY <1>3, <1>13, <1>14 DEF FilesKnown
  <1>16. BackupsGood(m, db, v)
    BY <1>12, <1>13, <1>14, <1>15 DEF BackupsGood, BackupCalls
  <1>17. ASSUME left.patient
         PROVE  ChoiceKept(m, db, v) /\ DeletionAlone(m, db, v)
    <2>1. ChoiceKept(n, db, ui) /\ \A j \in Slots : ~Deleting(n[j])
      BY <1>2, <1>5, <1>17, BackupBack
    <2>2. ChoiceKept(m, db, ui)
      BY <1>9, <1>12, <2>1, QuietCalls
    <2>3. ChoiceKept(m, db, v)
      BY <1>14, <2>2 DEF ChoiceKept, IsGone
    <2>4. CASE c.op # "deleteFile"
      <3>1. ~Deleting(Fresh(op, arg))
        BY <1>4, <1>8, <1>9, <2>4 DEF Deleting, Deletes
      <3>2. \A j \in Slots : ~Deleting(m[j])
        BY <1>12, <2>1, <3>1
      <3> QED BY <2>3, <3>2, QuietCalls
    <2>5. CASE c.op = "deleteFile"
      <3>1. Deleting(c)
        BY <2>5 DEF Deleting
      <3>2. net = Alone(i, c) /\ DeletionFits(c, db, ui)
        BY <1>1, <1>17, <3>1 DEF BackupsInv, DeletionAlone
      <3>3. n = NoCalls
        BY <1>5, <3>2, AloneIs
      <3>4. PICK s \in Slots : m = Alone(s, Fresh(op, arg))
        BY <1>5, <3>3, SendAlone
      <3>5. PICK x \in Kinds : \E g \in 1 .. db.made[x] :
              /\ DeletionOf(c) = [kind |-> x, file |-> g, selected |-> ui.file[x]]
              /\ g \notin db.files[x]
        BY <1>2, <3>2 DEF DeletionFits
      <3>6. PICK g \in 1 .. db.made[x] :
              /\ DeletionOf(c) = [kind |-> x, file |-> g, selected |-> ui.file[x]]
              /\ g \notin db.files[x]
        BY <3>5
      <3>7. DeletionOf(c) = c.arg
        BY <2>5 DEF DeletionOf
      <3>8. k = x
        BY <1>1, <3>6, <3>7
      <3>9. DeletionOf(Fresh(op, arg)) = c.arg
        BY <1>4, <1>8, <1>9 DEF DeletionOf
      <3>10. v = ui
        BY <1>14, <2>5
      <3>11. DeletionFits(Fresh(op, arg), db, v)
        BY <1>8, <1>9, <3>6, <3>7, <3>8, <3>9, <3>10 DEF DeletionFits
      <3>12. m[s] = Fresh(op, arg) /\ \A j \in Slots : m[j].op # "none" => j = s
        BY <3>4, AloneIs
      <3>13. \A j \in Slots : Deleting(m[j]) => m[j].op # "none"
        BY DEF Deleting
      <3>14. DeletionAlone(m, db, v)
        BY <3>4, <3>11, <3>12, <3>13 DEF DeletionAlone
      <3> QED BY <2>3, <3>14
    <2> QED BY <2>4, <2>5
  <1> QED BY <1>7, <1>16, <1>17 DEF BackupsInv

LEMMA OnAllChangedStep ==
  ASSUME BackupsInv, NEW i \in Slots, OnAllChanged(i)
  PROVE  BackupsInv'
  <1>1. PICK c, of, n, m, v : /\ c = net[i] /\ of = [op |-> c.op, arg |-> c.arg]
                              /\ n = Settle(net, i) /\ m = RefreshAll(n, of)
                              /\ v = [ui EXCEPT !.planLoading = TRUE]
    OBVIOUS
  <1>2. /\ IsBack(net, i) /\ c.op \in {"runAll", "runNow", "deleteAll"} /\ HasRoom(n, RefreshSize)
        /\ net' = m /\ ui' = v /\ db' = db /\ left' = left
    BY <1>1 DEF OnAllChanged, Good, Back
  <1>3. ~Deletes(of)
    <2>1. of.op = c.op
      BY <1>1
    <2> QED BY <1>2, <2>1 DEF Deletes
  <1>4. BackupCalls(n, db)
    BY <1>1, <1>2, BackupBack, BackupSettles
  <1>5. /\ BackupCalls(m, db)
        /\ \A j \in Slots : m[j] = n[j] \/ (~Deleting(m[j]) /\ ~m[j].out.ok)
    BY <1>1, <1>2, <1>3, <1>4, BackupsLoad
  <1>6. BackupsPage(v) /\ Same(ui, v) /\ BarShown(v)
    BY <1>1 DEF BackupsInv, BackupsGood, BackupsPage, Same, BarShown
  <1>7. BackupsGood(m, db, v)
    BY <1>5, <1>6, SameGood DEF BackupsInv, BackupsGood, BackupCalls
  <1>8. ASSUME left.patient
        PROVE  ChoiceKept(m, db, v) /\ DeletionAlone(m, db, v)
    <2>1. ChoiceKept(n, db, ui) /\ \A j \in Slots : ~Deleting(n[j])
      BY <1>1, <1>2, <1>8, BackupBack
    <2>2. ChoiceKept(m, db, ui) /\ DeletionAlone(m, db, ui)
      BY <1>5, <2>1, QuietCalls
    <2> QED BY <1>6, <2>2, SameGood
  <1> QED BY <1>2, <1>7, <1>8 DEF BackupsInv

-----------------------------------------------------------------------------
LEMMA BackupsOpened ==
  ASSUME BackupsInit
  PROVE  BackupsInv
  <1>1. PICK n \in Nat : MountBackups(n)
    BY DEF BackupsInit
  <1>2. PICK p : p = CHOOSE q \in Plans : TRUE
    OBVIOUS
  <1>3. PICK g, h, e, s : /\ g = [k \in Kinds |-> 1 .. n] /\ h = [k \in Kinds |-> n]
                          /\ e = [k \in Kinds |-> None] /\ s = [k \in Kinds |-> {}]
    OBVIOUS
  <1>4. /\ db = [files |-> g, made |-> h, plan |-> p]
        /\ net = RefreshAll(NoCalls, None)
        /\ ui = [page |-> "backups", files |-> s, file |-> e, choice |-> e, plan |-> p,
                 planLoading |-> TRUE, planSaving |-> FALSE, running |-> None,
                 progress |-> "none", hide |-> FALSE]
    BY <1>1, <1>2, <1>3 DEF MountBackups, BackupFilesDb
  <1>5. /\ g \in [Kinds -> SUBSET Nat] /\ h \in [Kinds -> Nat]
        /\ e \in [Kinds -> Nat \cup {None}] /\ s \in [Kinds -> SUBSET Nat]
        /\ \A k \in Kinds : g[k] = 1 .. n /\ h[k] = n /\ e[k] = None /\ s[k] = {}
    <2>1. 1 .. n \in SUBSET Nat
      OBVIOUS
    <2> QED BY <1>3, <2>1
  <1>6. db.files = g /\ db.made = h /\ BackupsHeld(db)
    BY <1>4, <1>5 DEF BackupsHeld
  <1>7. ui.files = s /\ ui.choice = e /\ ui.running = None /\ BackupsPage(ui)
    BY <1>4, <1>5 DEF BackupsPage
  <1>8. FilesKnown(db, ui) /\ BarShown(ui)
    BY <1>5, <1>6, <1>7, NoneIs DEF FilesKnown, BarShown
  <1>9. HasRoom(NoCalls, RefreshSize)
    <2>1. FreeSlots(NoCalls) = 1 .. MaxCalls
      BY NoCallsAre DEF FreeSlots, Slots
    <2>2. Cardinality(1 .. MaxCalls) = MaxCalls /\ MaxCalls \in Nat
      BY MaxCallsAssumption, FS_Interval
    <2>3. Cardinality(Kinds) \in Nat
      BY BackupsAssumption, FS_CardinalityType
    <2> QED BY <2>1, <2>2, <2>3, BackupsAssumption DEF HasRoom, RefreshSize
  <1>10. PICK of : of = None
    OBVIOUS
  <1>11. BackupCalls(NoCalls, db) /\ ~Deletes(of)
    BY <1>10, NoCallsAre DEF BackupCalls, Deletes
  <1>12. /\ BackupCalls(net, db)
         /\ \A j \in Slots : net[j] = NoCalls[j] \/ (~Deleting(net[j]) /\ ~net[j].out.ok)
    BY <1>4, <1>9, <1>10, <1>11, BackupsLoad
  <1>13. DeletionAlone(net, db, ui)
    BY <1>12, NoCallsAre, NotCallIs, QuietCalls
  <1>14. ChoiceKept(net, db, ui)
    BY <1>5, <1>7 DEF ChoiceKept
  <1> QED BY <1>6, <1>7, <1>8, <1>12, <1>13, <1>14 DEF BackupsInv, BackupsGood, BackupCalls, BackupsInit

LEMMA BackupsKeeps ==
  ASSUME BackupsInv, BackupsNext
  PROVE  BackupsInv'
  <1>1. CASE BackupsUser \/ HideProgress
    BY <1>1, BackupActionStep, DeleteFileStep, RefreshBackupsStep, ChooseFileStep, PlanStep DEF BackupsUser
  <1>2. CASE \E i \in Slots : BackupServed(i) \/ Refuse(i)
    BY <1>2, BackupServedStep
  <1>3. CASE \E i \in Slots : BackupsAnswered(i)
    BY <1>3, OnFileListStep, OnPlanStep, OnFileChangedStep, OnAllChangedStep DEF BackupsAnswered
  <1> QED BY <1>1, <1>2, <1>3 DEF BackupsNext

\* A restore is of the file that was chosen, as long as there is that file, and shows
\* that it is under way: for any number of files, of calls under way, of failures and
\* of answers that are lost.
THEOREM RestoreIsOfTheChosen == BackupsSpec => []RestoresTheChosen
  <1>1. BackupsInit => BackupsInv
    BY BackupsOpened
  <1>2. BackupsInv /\ [BackupsNext]_vars => BackupsInv'
    <2>1. ASSUME BackupsInv, UNCHANGED vars
          PROVE  BackupsInv'
      BY <2>1 DEF BackupsInv, BackupsGood, vars
    <2> QED BY <2>1, BackupsKeeps
  <1>3. BackupsInv => RestoresTheChosen
    <2>1. ASSUME BackupsInv, left.patient, NEW k \in Kinds, ui.choice[k] \in ui.files[k]
          PROVE  ui.file[k] = ui.choice[k]
      <3>1. ui.choice[k] # None
        BY <2>1, NoneIs DEF BackupsInv, BackupsGood, BackupsPage
      <3> QED BY <2>1, <3>1 DEF BackupsInv, ChoiceKept, IsGone
    <2> QED BY <2>1 DEF RestoresTheChosen, BackupsInv, BackupsGood, BarShown
  <1> QED BY <1>1, <1>2, <1>3, PTL DEF BackupsSpec

-----------------------------------------------------------------------------
(* The form for a post made by hand. What is chosen, what is still to do and  *)
(* what has failed are lists without repeats.                                 *)

Distinct(s) == s \in Seq(Files) /\ IsInjective(s)

Posts == [id : Nat, files : SUBSET Files, split : BOOLEAN]

\* The server: ids are of one post, no file is in two posts made for one file.
Held(d) ==
    /\ d \in [posts : SUBSET Posts, next : Nat]
    /\ \A p \in d.posts : p.id < d.next
    /\ \A p, q \in d.posts : p.id = q.id => p = q
    /\ \A p, q \in d.posts : p.split /\ q.split /\ p.files \cap q.files # {} => p = q

\* No post made for one file has a file of S; every file of S is in a post.
Unposted(d, S) == \A p \in d.posts : p.split => p.files \cap S = {}
AllPosted(d, S) == \A f \in S : \E p \in d.posts : f \in p.files
\* A post that is gone or has no files.
Bare(d, id) == \A p \in d.posts : p.id = id => p.files = {}

Form(u) ==
    u \in [page : {"manual"}, options : {u.options}, mode : {"MERGED", "SPLIT"},
           filled : BOOLEAN, selected : Seq(Files), submitting : BOOLEAN,
           error : BOOLEAN, created : {u.created}, picked : SUBSET Files]

\* The files S are all that the user still has to post.
Kept(d, u, l, S) == l.patient => AllPosted(d, u.picked \ S)

PostOps == {"makePost", "attachPost", "undoPost"}
NoPostCall(n) == \A i \in Slots : n[i].op \notin PostOps
OnePost(n) ==
    \A i, j \in Slots : n[i].op \in PostOps /\ n[j].op \in PostOps => i = j

\* The files chosen can be submitted, and nothing is missing.
Chosen(d, u, l) ==
    /\ Distinct(u.selected) /\ Unposted(d, ToSet(u.selected))
    /\ Kept(d, u, l, ToSet(u.selected))

Args(a) ==
    a \in [split : BOOLEAN, files : Seq(Files), rest : Seq(Files), done : {a.done},
           failed : Seq(Files), post : {a.post}]

\* What the loop still has to do, and what it has to keep.
Loop(d, u, l, rest, failed, S) ==
    /\ Distinct(rest) /\ Distinct(failed) /\ ToSet(rest) \cap ToSet(failed) = {}
    /\ Unposted(d, ToSet(rest)) /\ Unposted(d, ToSet(failed))
    /\ Kept(d, u, l, S \cup ToSet(rest) \cup ToSet(failed))

\* One post for each file: its file is nowhere else.
SplitFits(a, d, u, l) ==
    /\ \E f \in Files :
          /\ a.files = <<f>>
          /\ f \notin ToSet(a.rest) \cup ToSet(a.failed)
          /\ Loop(d, u, l, a.rest, a.failed, {f})

\* One post for all: the files chosen stay chosen.
MergedFits(a, d, u, l) ==
    /\ Chosen(d, u, l)
    /\ l.patient => a.files = u.selected

\* The posts that a call is about.
MadeFits(c, d) ==
    /\ c.arg.split => Unposted(d, ToSet(c.arg.files))
    /\ c.back /\ c.out.ok =>
          \E p \in d.posts : p.id = c.out.body /\ p.files = {} /\ p.split = c.arg.split

PostFits(c, d) ==
    LET a == c.arg
    IN  /\ \A p \in d.posts : p.id = a.post => p.split = a.split /\ p.files \subseteq ToSet(a.files)
        /\ a.split => \A p \in d.posts : p.split /\ p.id # a.post => p.files \cap ToSet(a.files) = {}

AttachFits(c, d, l) ==
    /\ PostFits(c, d)
    /\ ~c.back => Bare(d, c.arg.post)
    /\ c.back /\ c.out.ok => AllPosted(d, ToSet(c.arg.files))
    /\ c.back /\ ~c.out.ok /\ l.errors > 0 => Bare(d, c.arg.post)

UndoFits(c, d, l) ==
    /\ PostFits(c, d) /\ c.arg.split
    /\ c.back \/ l.errors > 0 => Bare(d, c.arg.post)

Fits(c, d, u, l) ==
    /\ Args(c.arg)
    /\ IF c.arg.split THEN SplitFits(c.arg, d, u, l) ELSE MergedFits(c.arg, d, u, l)
    /\ c.op = "makePost" => MadeFits(c, d)
    /\ c.op = "attachPost" => AttachFits(c, d, l)
    /\ c.op = "undoPost" => UndoFits(c, d, l)

AllFit(n, d, u, l) ==
    /\ Calls(n) /\ OnePost(n)
    /\ NoPostCall(n) => Chosen(d, u, l)
    /\ \A i \in Slots : n[i].op \in PostOps => Fits(n[i], d, u, l)

ManualInv(n, d, u, l) ==
    /\ l \in Setting /\ (l.errors = 0 \/ l.lost = 0)
    /\ Held(d) /\ Form(u)
    /\ AllFit(n, d, u, l)
    /\ ~u.submitting => NoPostCall(n)

ManualInit ==
    /\ left \in Setting /\ (left.errors = 0 \/ left.lost = 0)
    /\ MountManual
ManualSpec == ManualInit /\ [][ManualNext]_vars


LEMMA EmptyList ==
  /\ Distinct(<<>>) /\ ToSet(<<>>) = {}
  /\ \A s \in Seq(Files) : ToSet(s) = {} => s = <<>>
  <1>1. PICK e : e = <<>>
    OBVIOUS
  <1>2. e \in Seq(Files) /\ Len(e) = 0
    BY <1>1, EmptySeq
  <1>3. DOMAIN e = {}
    BY <1>2, LenProperties
  <1>4. Distinct(e) /\ ToSet(e) = {}
    BY <1>2, <1>3 DEF Distinct, IsInjective, ToSet
  <1>5. ASSUME NEW s \in Seq(Files), ToSet(s) = {}
        PROVE  s = <<>>
    <2>1. SUFFICES ASSUME s # <<>> PROVE FALSE
      OBVIOUS
    <2>2. Len(s) \in Nat \ {0} /\ DOMAIN s = 1 .. Len(s)
      BY <2>1, EmptySeq, LenProperties
    <2>3. 1 \in DOMAIN s
      BY <2>2
    <2>4. s[1] \in ToSet(s)
      BY <2>3 DEF ToSet
    <2> QED BY <1>5, <2>4
  <1> QED BY <1>1, <1>4, <1>5

LEMMA OneFile ==
  ASSUME NEW f \in Files
  PROVE  Distinct(<<f>>) /\ ToSet(<<f>>) = {f} /\ <<f>> # <<>>
  <1>1. PICK s : s = <<f>>
    OBVIOUS
  <1>2. s \in Seq(Files) /\ Len(s) = 1 /\ s[1] = f
    BY <1>1
  <1>3. DOMAIN s = 1 .. 1
    BY <1>2, LenProperties
  <1>4. \A k : k \in DOMAIN s <=> k = 1
    BY <1>3
  <1>5. Distinct(s)
    BY <1>2, <1>4 DEF Distinct, IsInjective
  <1>6. ToSet(s) = {f}
    BY <1>2, <1>4 DEF ToSet
  <1>7. s # <<>>
    BY <1>6, EmptyList
  <1> QED BY <1>1, <1>5, <1>6, <1>7

\* The head of a list and the others.
LEMMA FirstAndRest ==
  ASSUME NEW s, Distinct(s), s # <<>>
  PROVE  /\ Head(s) \in Files /\ Head(s) \notin ToSet(Tail(s))
         /\ Distinct(Tail(s))
         /\ ToSet(s) = {Head(s)} \cup ToSet(Tail(s))
  <1>0. s \in Seq(Files) /\ \A a, b \in DOMAIN s : s[a] = s[b] => a = b
    BY DEF Distinct, IsInjective
  <1>1. PICK h : h = Head(s)
    OBVIOUS
  <1>2. PICK t : t = Tail(s)
    OBVIOUS
  <1>3. /\ h \in Files /\ t \in Seq(Files) /\ Len(t) = Len(s) - 1
        /\ \A i \in 1 .. Len(t) : t[i] = s[i + 1]
    BY <1>0, <1>1, <1>2, HeadTailProperties
  <1>4. h = s[1]
    BY <1>0, <1>1
  <1>5. Len(s) \in Nat \ {0} /\ DOMAIN s = 1 .. Len(s) /\ DOMAIN t = 1 .. Len(t) /\ Len(t) \in Nat
    BY <1>0, <1>3, EmptySeq, LenProperties
  <1>6. \A i \in DOMAIN t : t[i] = s[i + 1] /\ i + 1 \in DOMAIN s /\ i + 1 # 1 /\ i \in Nat
    BY <1>3, <1>5
  <1>7. \A j \in DOMAIN s : j = 1 \/ \E i \in DOMAIN t : j = i + 1
    <2>1. ASSUME NEW j \in DOMAIN s, j # 1
          PROVE  j - 1 \in DOMAIN t /\ j = (j - 1) + 1
      BY <1>3, <1>5, <2>1
    <2> QED BY <2>1
  <1>8. 1 \in DOMAIN s
    BY <1>5
  <1>9. h \notin ToSet(t)
    BY <1>0, <1>4, <1>6, <1>8 DEF ToSet
  <1>10. Distinct(t)
    <2>1. ASSUME NEW a \in DOMAIN t, NEW b \in DOMAIN t, t[a] = t[b]
          PROVE  a = b
      <3>1. a + 1 = b + 1
        BY <1>0, <1>6, <2>1
      <3> QED BY <1>6, <3>1
    <2> QED BY <1>3, <2>1 DEF Distinct, IsInjective
  <1>11. ToSet(s) = {h} \cup ToSet(t)
    BY <1>4, <1>6, <1>7, <1>8 DEF ToSet
  <1> QED BY <1>1, <1>2, <1>3, <1>9, <1>10, <1>11

LEMMA Joined ==
  ASSUME NEW s, NEW t, Distinct(s), Distinct(t), ToSet(s) \cap ToSet(t) = {}
  PROVE  Distinct(s \o t) /\ ToSet(s \o t) = ToSet(s) \cup ToSet(t)
  <1>0. /\ s \in Seq(Files) /\ \A a, b \in DOMAIN s : s[a] = s[b] => a = b
        /\ t \in Seq(Files) /\ \A a, b \in DOMAIN t : t[a] = t[b] => a = b
    BY DEF Distinct, IsInjective
  <1>1. PICK u : u = s \o t
    OBVIOUS
  <1>2. /\ u \in Seq(Files) /\ Len(u) = Len(s) + Len(t)
        /\ \A i \in 1 .. Len(s) + Len(t) : u[i] = IF i <= Len(s) THEN s[i] ELSE t[i - Len(s)]
    BY <1>0, <1>1, ConcatProperties
  <1>3. /\ Len(s) \in Nat /\ Len(t) \in Nat /\ DOMAIN s = 1 .. Len(s)
        /\ DOMAIN t = 1 .. Len(t) /\ DOMAIN u = 1 .. Len(u)
    BY <1>0, <1>2, LenProperties
  <1>4. \A i \in DOMAIN s : i \in DOMAIN u /\ u[i] = s[i]
    BY <1>2, <1>3
  <1>5. \A i \in DOMAIN t : i + Len(s) \in DOMAIN u /\ u[i + Len(s)] = t[i]
    <2>1. ASSUME NEW i \in DOMAIN t
          PROVE  i + Len(s) \in DOMAIN u /\ ~(i + Len(s) <= Len(s)) /\ (i + Len(s)) - Len(s) = i
      BY <1>2, <1>3
    <2> QED BY <1>2, <1>3, <2>1
  <1>6. \A j \in DOMAIN u : j \in DOMAIN s \/ \E i \in DOMAIN t : j = i + Len(s)
    <2>1. ASSUME NEW j \in DOMAIN u, j \notin DOMAIN s
          PROVE  j - Len(s) \in DOMAIN t /\ j = (j - Len(s)) + Len(s)
      BY <1>2, <1>3, <2>1
    <2> QED BY <2>1
  <1>7. \A i \in DOMAIN s, j \in DOMAIN t : s[i] # t[j]
    BY DEF ToSet
  <1>8. ToSet(u) = ToSet(s) \cup ToSet(t)
    BY <1>4, <1>5, <1>6 DEF ToSet
  <1>9. ASSUME NEW a \in DOMAIN u, NEW b \in DOMAIN u, u[a] = u[b]
        PROVE  a = b
    <2>1. CASE a \in DOMAIN s /\ b \in DOMAIN s
      BY <1>0, <1>4, <1>9, <2>1
    <2>2. CASE a \in DOMAIN s /\ b \notin DOMAIN s
      BY <1>4, <1>5, <1>6, <1>7, <1>9, <2>2
    <2>3. CASE a \notin DOMAIN s /\ b \in DOMAIN s
      BY <1>4, <1>5, <1>6, <1>7, <1>9, <2>3
    <2>4. CASE a \notin DOMAIN s /\ b \notin DOMAIN s
      BY <1>0, <1>5, <1>6, <1>9, <2>4
    <2> QED BY <2>1, <2>2, <2>3, <2>4
  <1>10. Distinct(u)
    BY <1>2, <1>9 DEF Distinct, IsInjective
  <1> QED BY <1>1, <1>8, <1>10

\* A set of files as a list.
LEMMA Listed ==
  ASSUME NEW S \in SUBSET Files
  PROVE  Distinct(SetToSeq(S)) /\ ToSet(SetToSeq(S)) = S
  <1> DEFINE c == Cardinality(S)
  <1>1. IsFiniteSet(S)
    BY FilesAssumption, FS_Subset
  <1>2. c \in Nat /\ ExistsBijection(1 .. c, S)
    BY <1>1, FS_CardinalityType
  <1> HIDE DEF c
  <1>3. PICK g : g \in Bijection(1 .. c, S)
    BY <1>2 DEF ExistsBijection
  <1>4. g \in [1 .. c -> S] /\ IsInjective(g)
    BY <1>3 DEF Bijection, Injection
  <1>5. PICK s : s = SetToSeq(S)
    OBVIOUS
  <1>6. s = CHOOSE f \in [1 .. c -> S] : IsInjective(f)
    BY <1>5 DEF SetToSeq, c
  <1>7. s \in [1 .. c -> S] /\ IsInjective(s)
    BY <1>4, <1>6
  <1>8. s \in Injection(1 .. c, S)
    BY <1>7 DEF Injection
  <1>9. Cardinality(1 .. c) = c
    BY <1>2, FS_Interval
  <1>10. s \in Surjection(1 .. c, S)
    BY <1>1, <1>8, <1>9, FS_Injection DEF c
  <1>11. \A x \in S : \E i \in 1 .. c : s[i] = x
    BY <1>10 DEF Surjection
  <1>12. DOMAIN s = 1 .. c /\ \A i \in 1 .. c : s[i] \in S
    BY <1>7
  <1>13. ToSet(s) = S
    BY <1>11, <1>12 DEF ToSet
  <1>14. s \in Seq(Files)
    <2>1. s \in [1 .. c -> Files]
      BY <1>7
    <2> QED BY <1>2, <2>1
  <1> QED BY <1>5, <1>7, <1>13, <1>14 DEF Distinct

\* A list without some of its members.
LEMMA KeptListed ==
  ASSUME NEW s, Distinct(s), NEW S
  PROVE  Distinct(Keeping(s, S)) /\ ToSet(Keeping(s, S)) = ToSet(s) \cap S
  <1>0. s \in Seq(Files) /\ \A a, b \in DOMAIN s : s[a] = s[b] => a = b
    BY DEF Distinct, IsInjective
  <1>1. PICK t : t = Keeping(s, S)
    OBVIOUS
  <1>2. /\ t \in Seq(Files)
        /\ \A x : x \in ToSet(t) <=> x \in ToSet(s) /\ x \in S
        /\ \A m, n \in DOMAIN t : m # n =>
              \E i, j \in DOMAIN s : i # j /\ t[m] = s[i] /\ t[n] = s[j]
    BY <1>0, <1>1, KeepingIs
  <1>3. Distinct(t)
    BY <1>0, <1>2 DEF Distinct, IsInjective
  <1> QED BY <1>1, <1>2, <1>3

-----------------------------------------------------------------------------
(* One call about a post at a time.                                         *)

\* What the invariant knows of the files depends on little of the page.
LEMMA FitsSame ==
  ASSUME NEW d, NEW u, NEW v, NEW l, NEW k,
         v.selected = u.selected, v.picked = u.picked,
         k.patient = l.patient, k.errors > 0 => l.errors > 0
  PROVE  /\ Chosen(d, u, l) => Chosen(d, v, k)
         /\ \A c : Fits(c, d, u, l) => Fits(c, d, v, k)
  <1>1. \A S : Kept(d, u, l, S) => Kept(d, v, k, S)
    BY DEF Kept
  <1>2. Chosen(d, u, l) => Chosen(d, v, k)
    BY <1>1 DEF Chosen
  <1>3. \A rest, failed, S : Loop(d, u, l, rest, failed, S) => Loop(d, v, k, rest, failed, S)
    BY <1>1 DEF Loop
  <1>4. \A a : SplitFits(a, d, u, l) => SplitFits(a, d, v, k)
    BY <1>3 DEF SplitFits
  <1>5. \A a : MergedFits(a, d, u, l) => MergedFits(a, d, v, k)
    BY <1>2 DEF MergedFits
  <1>6. \A c : AttachFits(c, d, l) => AttachFits(c, d, k)
    BY DEF AttachFits
  <1>7. \A c : UndoFits(c, d, l) => UndoFits(c, d, k)
    BY DEF UndoFits
  <1>8. \A c : Fits(c, d, u, l) => Fits(c, d, v, k)
    BY <1>4, <1>5, <1>6, <1>7 DEF Fits
  <1> QED BY <1>2, <1>8

LEMMA AllFitSame ==
  ASSUME NEW n, NEW d, NEW u, NEW v, NEW l, NEW k, AllFit(n, d, u, l),
         v.selected = u.selected, v.picked = u.picked,
         k.patient = l.patient, k.errors > 0 => l.errors > 0
  PROVE  AllFit(n, d, v, k)
  <1>1. /\ Chosen(d, u, l) => Chosen(d, v, k)
        /\ \A c : Fits(c, d, u, l) => Fits(c, d, v, k)
    BY FitsSame
  <1> QED BY <1>1 DEF AllFit

\* No call about a post is under way any more.
LEMMA PostEnded ==
  ASSUME NEW n, Calls(n), NoPostCall(n), NEW d, NEW u, NEW l, Chosen(d, u, l)
  PROVE  AllFit(n, d, u, l)
  BY DEF AllFit, OnePost, NoPostCall

LEMMA PostSettled ==
  ASSUME NEW n, Calls(n), OnePost(n), NEW i \in Slots, n[i].op \in PostOps
  PROVE  /\ Calls(Settle(n, i)) /\ NoPostCall(Settle(n, i)) /\ FreeSlots(Settle(n, i)) # {}
  <1>1. Changed(n, Settle(n, i), i, NoCall) /\ i \in FreeSlots(Settle(n, i))
    BY SettleChanges
  <1>2. "none" \notin PostOps
    BY DEF PostOps
  <1> QED BY <1>1, <1>2, NoCallIs DEF Changed, NoPostCall, OnePost

\* A call about a post is sent when there is none.
LEMMA PostSent ==
  ASSUME NEW n, Calls(n), NoPostCall(n), FreeSlots(n) # {}, NEW op \in PostOps, NEW arg,
         NEW d, NEW u, NEW l, Fits(Fresh(op, arg), d, u, l)
  PROVE  AllFit(Send(n, op, arg), d, u, l) /\ ~NoPostCall(Send(n, op, arg))
  <1>1. op # "none"
    BY DEF PostOps
  <1>2. PICK m : m = Send(n, op, arg)
    OBVIOUS
  <1>3. PICK i \in FreeSlots(n) : Changed(n, m, i, Fresh(op, arg))
    BY <1>1, <1>2, SendChanges
  <1>4. /\ i \in Slots /\ Calls(m) /\ m[i] = Fresh(op, arg)
        /\ \A j \in Slots \ {i} : m[j] = n[j]
    BY <1>3 DEF Changed, FreeSlots
  <1>5. Fresh(op, arg).op = op
    BY <1>1, FreshIs
  <1>6. \A j \in Slots : m[j].op \in PostOps <=> j = i
    BY <1>4, <1>5 DEF NoPostCall
  <1>7. OnePost(m) /\ ~NoPostCall(m)
    BY <1>4, <1>6 DEF OnePost, NoPostCall
  <1>8. \A j \in Slots : m[j].op \in PostOps => Fits(m[j], d, u, l)
    BY <1>4, <1>6
  <1> QED BY <1>2, <1>4, <1>7, <1>8 DEF AllFit

\* The call about a post comes back, or another call changes.
LEMMA PostChanged ==
  ASSUME NEW n, NEW d, NEW u, NEW l, AllFit(n, d, u, l), NEW m, NEW i \in Slots, NEW c,
         Changed(n, m, i, c), n[i].op \in PostOps, c.op = n[i].op,
         NEW e, NEW k, Fits(c, e, u, k)
  PROVE  AllFit(m, e, u, k) /\ ~NoPostCall(m)
  <1>1. /\ Calls(m) /\ m[i] = c /\ \A j \in Slots \ {i} : m[j] = n[j]
    BY DEF Changed
  <1>2. \A j \in Slots : m[j].op \in PostOps <=> j = i
    BY <1>1 DEF AllFit, OnePost
  <1>3. OnePost(m) /\ ~NoPostCall(m)
    BY <1>2 DEF OnePost, NoPostCall
  <1>4. \A j \in Slots : m[j].op \in PostOps => Fits(m[j], e, u, k)
    BY <1>1, <1>2
  <1> QED BY <1>1, <1>3, <1>4 DEF AllFit

LEMMA OtherChanged ==
  ASSUME NEW n, NEW d, NEW u, NEW l, AllFit(n, d, u, l), NEW m, NEW i \in Slots, NEW c,
         Changed(n, m, i, c), n[i].op \notin PostOps, c.op \notin PostOps
  PROVE  AllFit(m, d, u, l) /\ (NoPostCall(n) => NoPostCall(m))
  <1>1. /\ Calls(m) /\ m[i] = c /\ \A j \in Slots \ {i} : m[j] = n[j]
    BY DEF Changed
  <1>2. \A j \in Slots : m[j].op \in PostOps => j # i /\ m[j] = n[j] /\ n[j].op \in PostOps
    BY <1>1
  <1>3. \A j \in Slots : n[j].op \in PostOps => m[j] = n[j]
    BY <1>1
  <1>4. OnePost(m)
    BY <1>2 DEF AllFit, OnePost
  <1>5. NoPostCall(m) <=> NoPostCall(n)
    BY <1>2, <1>3 DEF NoPostCall
  <1>6. \A j \in Slots : m[j].op \in PostOps => Fits(m[j], d, u, l)
    BY <1>2 DEF AllFit
  <1>7. NoPostCall(m) => Chosen(d, u, l)
    BY <1>5 DEF AllFit
  <1> QED BY <1>1, <1>4, <1>5, <1>6, <1>7 DEF AllFit

\* The call about a post that there is.
LEMMA ManualPostIs ==
  ASSUME ManualInv(net, db, ui, left), NEW i \in Slots, net[i].op \in PostOps
  PROVE  /\ Fits(net[i], db, ui, left) /\ IsCall(net[i]) /\ ui.submitting
         /\ Calls(Settle(net, i)) /\ NoPostCall(Settle(net, i)) /\ FreeSlots(Settle(net, i)) # {}
  <1>1. Calls(net) /\ OnePost(net) /\ Fits(net[i], db, ui, left)
    BY DEF ManualInv, AllFit
  <1>2. net[i].op # "none"
    BY DEF PostOps
  <1>3. IsCall(net[i])
    BY <1>1, <1>2, CallIs
  <1>4. ~NoPostCall(net)
    BY DEF NoPostCall
  <1>5. ui.submitting
    BY <1>4 DEF ManualInv, Form
  <1> QED BY <1>1, <1>3, <1>5, PostSettled

-----------------------------------------------------------------------------
(* The loop over the files.                                                 *)

SplitArg(rest, done, failed) ==
    [split |-> TRUE, files |-> <<Head(rest)>>, rest |-> Tail(rest),
     done |-> done, failed |-> failed, post |-> 0]

LEMMA NextFits ==
  ASSUME NEW d, NEW u, NEW l, NEW rest, NEW failed, NEW done, rest # <<>>,
         Loop(d, u, l, rest, failed, {})
  PROVE  Fits(Fresh("makePost", SplitArg(rest, done, failed)), d, u, l)
  <1>1. PICK h : h = Head(rest)
    OBVIOUS
  <1>2. PICK t : t = Tail(rest)
    OBVIOUS
  <1>3. /\ h \in Files /\ h \notin ToSet(t) /\ Distinct(t)
        /\ ToSet(rest) = {h} \cup ToSet(t)
    BY <1>1, <1>2, FirstAndRest DEF Loop
  <1>4. PICK fs : fs = <<h>>
    OBVIOUS
  <1>5. Distinct(fs) /\ ToSet(fs) = {h}
    BY <1>3, <1>4, OneFile
  <1>6. PICK a : a = SplitArg(rest, done, failed)
    OBVIOUS
  <1>7. a = [split |-> TRUE, files |-> fs, rest |-> t, done |-> done, failed |-> failed, post |-> 0]
    BY <1>1, <1>2, <1>4, <1>6 DEF SplitArg
  <1>8. /\ a.split = TRUE /\ a.files = fs /\ a.rest = t /\ a.failed = failed
    BY <1>7
  <1>9. Args(a)
    BY <1>3, <1>5, <1>7 DEF Args, Distinct, Loop
  <1>10. Loop(d, u, l, t, failed, {h})
    <2>1. ToSet(t) \cap ToSet(failed) = {}
      BY <1>3 DEF Loop
    <2>2. Unposted(d, ToSet(t))
      BY <1>3 DEF Loop, Unposted
    <2>3. {h} \cup ToSet(t) \cup ToSet(failed) = {} \cup ToSet(rest) \cup ToSet(failed)
      BY <1>3
    <2>4. Kept(d, u, l, {h} \cup ToSet(t) \cup ToSet(failed))
      BY <2>3 DEF Loop
    <2> QED BY <1>3, <2>1, <2>2, <2>4 DEF Loop
  <1>11. h \notin ToSet(t) \cup ToSet(failed)
    BY <1>3 DEF Loop
  <1>12. SplitFits(a, d, u, l)
    BY <1>3, <1>4, <1>8, <1>10, <1>11 DEF SplitFits
  <1>13. Unposted(d, ToSet(fs))
    BY <1>3, <1>5 DEF Loop, Unposted
  <1>14. PICK op : op = "makePost"
    OBVIOUS
  <1>15. PICK c : c = Fresh(op, a)
    OBVIOUS
  <1>16. c.op = op /\ c.arg = a /\ ~c.back
    <2>1. op # "none"
      BY <1>14
    <2> QED BY <1>15, <2>1, FreshIs
  <1>17. MadeFits(c, d)
    BY <1>8, <1>13, <1>16 DEF MadeFits
  <1>18. Fits(c, d, u, l)
    BY <1>8, <1>9, <1>12, <1>14, <1>16, <1>17 DEF Fits
  <1> QED BY <1>6, <1>14, <1>15, <1>18

\* When a file is through, the next one follows or the loop ends.
LEMMA NextFileIs ==
  ASSUME ManualInv(net, db, ui, left), NEW i \in Slots, net[i].op \in PostOps,
         NEW done, NEW failed, Loop(db, ui, left, net[i].arg.rest, failed, {}),
         NextFile(i, done, failed)
  PROVE  /\ AllFit(net', db, ui', left) /\ Form(ui')
         /\ ~ui'.submitting => NoPostCall(net')
  <1> DEFINE rest == net[i].arg.rest
  <1>0. /\ ui.submitting /\ Form(ui)
        /\ Calls(Settle(net, i)) /\ NoPostCall(Settle(net, i)) /\ FreeSlots(Settle(net, i)) # {}
    BY ManualPostIs DEF ManualInv
  <1>1. Distinct(rest) /\ Distinct(failed)
    BY DEF Loop
  <1>2. CASE rest = <<>>
    <2>1. net' = Settle(net, i) /\ ui' = LoopEnds(done, failed)
      BY <1>2 DEF NextFile
    <2>2. ToSet(rest) = {}
      BY <1>2, EmptyList
    <2>3. CASE failed = <<>>
      <3>1. ui' = Emptied(ui, done)
        BY <2>1, <2>3 DEF LoopEnds
      <3>2. PICK e : e = <<>>
        OBVIOUS
      <3>3. Distinct(e) /\ ToSet(e) = {} /\ e \in Seq(Files)
        BY <3>2, EmptyList DEF Distinct
      <3>4. /\ ui'.selected = e /\ ui'.picked = ui.picked /\ Form(ui')
        BY <1>0, <3>1, <3>2, <3>3 DEF Emptied, Form
      <3>5. Kept(db, ui, left, {})
        <4>1. {} \cup ToSet(rest) \cup ToSet(failed) = {}
          BY <2>2, <2>3, EmptyList
        <4> QED BY <4>1 DEF Loop
      <3>6. Chosen(db, ui', left)
        BY <3>3, <3>4, <3>5 DEF Chosen, Unposted, Kept
      <3> QED BY <1>0, <2>1, <3>4, <3>6, PostEnded
    <2>4. CASE failed # <<>>
      <3>1. ui' = [ui EXCEPT !.selected = failed, !.submitting = FALSE, !.error = TRUE,
                             !.created = done]
        BY <2>1, <2>4 DEF LoopEnds
      <3>2. /\ ui'.selected = failed /\ ui'.picked = ui.picked /\ Form(ui')
        BY <1>0, <1>1, <3>1 DEF Form, Distinct
      <3>3. Kept(db, ui, left, ToSet(failed))
        <4>1. {} \cup ToSet(rest) \cup ToSet(failed) = ToSet(failed)
          BY <2>2
        <4> QED BY <4>1 DEF Loop
      <3>4. Chosen(db, ui', left)
        BY <1>1, <3>2, <3>3 DEF Chosen, Loop, Kept
      <3> QED BY <1>0, <2>1, <3>2, <3>4, PostEnded
    <2> QED BY <2>3, <2>4
  <1>3. CASE rest # <<>>
    <2>1. net' = Send(Settle(net, i), "makePost", SplitArg(rest, done, failed)) /\ ui' = ui
      BY <1>3 DEF NextFile, MakeFor, SplitArg
    <2>2. Fits(Fresh("makePost", SplitArg(rest, done, failed)), db, ui, left)
      BY <1>3, NextFits
    <2>3. PICK op : op = "makePost"
      OBVIOUS
    <2>4. op \in PostOps
      BY <2>3 DEF PostOps
    <2>5. PICK a : a = SplitArg(rest, done, failed)
      OBVIOUS
    <2>6. Fits(Fresh(op, a), db, ui, left)
      BY <2>2, <2>3, <2>5
    <2>7. AllFit(Send(Settle(net, i), op, a), db, ui, left)
      BY <1>0, <2>4, <2>6, PostSent
    <2> QED BY <1>0, <2>1, <2>3, <2>5, <2>7
  <1> QED BY <1>2, <1>3

-----------------------------------------------------------------------------
(* What the user does.                                                      *)

LEMMA ManualStarts == ManualInit => ManualInv(net, db, ui, left)
  <1> SUFFICES ASSUME ManualInit PROVE ManualInv(net, db, ui, left)
    OBVIOUS
  <1> USE DEF ManualInit, MountManual
  <1>1. PICK op : op = "options"
    OBVIOUS
  <1>2. PICK t : t = TRUE
    OBVIOUS
  <1>3. net = Send(NoCalls, op, t) /\ op # "none" /\ op \notin PostOps
    BY <1>1, <1>2 DEF PostOps
  <1>4. PICK i \in FreeSlots(NoCalls) : Changed(NoCalls, net, i, Fresh(op, t))
    BY <1>3, CallsRoom, SendChanges
  <1>5. i \in Slots /\ Fresh(op, t).op = op
    BY <1>3, <1>4, FreshIs DEF FreeSlots
  <1>6. PICK e : e = <<>>
    OBVIOUS
  <1>7. Distinct(e) /\ ToSet(e) = {} /\ e \in Seq(Files)
    BY <1>6, EmptyList DEF Distinct
  <1>8. Held(db)
    BY DEF ManualDb, Held, Posts
  <1>9. ui = [page |-> "manual", options |-> "loading", mode |-> "MERGED", filled |-> FALSE,
              selected |-> e, submitting |-> FALSE, error |-> FALSE, created |-> {},
              picked |-> {}]
    BY <1>6
  <1>10. Form(ui) /\ ui.selected = e /\ ui.picked = {}
    BY <1>7, <1>9 DEF Form
  <1>11. Chosen(db, ui, left)
    BY <1>7, <1>10 DEF Chosen, Unposted, Kept, AllPosted
  <1>12. "none" \notin PostOps
    BY DEF PostOps
  <1>13. NoPostCall(NoCalls) /\ Calls(NoCalls)
    BY <1>12, CallsRoom, NoCallsAre DEF NoPostCall
  <1>14. AllFit(NoCalls, db, ui, left)
    BY <1>11, <1>13, PostEnded
  <1>15. NoCalls[i].op \notin PostOps
    BY <1>5, <1>13 DEF NoPostCall
  <1>16. AllFit(net, db, ui, left) /\ NoPostCall(net)
    <2>1. PICK c : c = Fresh(op, t)
      OBVIOUS
    <2>2. Changed(NoCalls, net, i, c) /\ i \in Slots /\ c.op \notin PostOps
      BY <1>3, <1>4, <1>5, <2>1
    <2>3. PICK n : n = NoCalls
      OBVIOUS
    <2>4. AllFit(net, db, ui, left) /\ (NoPostCall(n) => NoPostCall(net))
      BY <1>14, <1>15, <2>2, <2>3, OtherChanged
    <2> QED BY <1>13, <2>3, <2>4
  <1> QED BY <1>8, <1>10, <1>16 DEF ManualInv

LEMMA SpentLess ==
  ASSUME left \in Setting, left' = Spent, left.acts > 0
  PROVE  /\ left' \in Setting /\ left'.patient = left.patient
         /\ left'.errors = left.errors /\ left'.lost = left.lost
  BY DEF Setting, Spent

LEMMA PatientIdle ==
  ASSUME NEW n, OnManual(n), left.patient
  PROVE  NoPostCall(net)
  BY DEF OnManual, Acts, Quiet, NoPostCall, PostOps

LEMMA PlainStep ==
  ASSUME ManualInv(net, db, ui, left), ChooseMode \/ FillForm
  PROVE  ManualInv(net', db', ui', left')
  <1>1. /\ ui' = [ui EXCEPT !.mode = IF @ = "MERGED" THEN "SPLIT" ELSE "MERGED"]
           \/ ui' = [ui EXCEPT !.filled = TRUE]
        /\ left' = Spent /\ left.acts > 0 /\ net' = net /\ db' = db
    BY DEF ChooseMode, FillForm, OnManual, Acts
  <1>2. /\ left' \in Setting /\ left'.patient = left.patient
        /\ left'.errors = left.errors /\ left'.lost = left.lost
    BY <1>1, SpentLess DEF ManualInv
  <1>3. /\ Form(ui') /\ ui'.selected = ui.selected /\ ui'.picked = ui.picked
        /\ ui'.submitting = ui.submitting
    BY <1>1 DEF ManualInv, Form
  <1>4. AllFit(net', db', ui', left')
    BY <1>1, <1>2, <1>3, AllFitSame DEF ManualInv
  <1> QED BY <1>1, <1>2, <1>3, <1>4 DEF ManualInv

\* The choice changes: what was chosen, without repeats and in no post, stays so.
LEMMA ChoiceStep ==
  ASSUME ManualInv(net, db, ui, left), net' = net, db' = db,
         NEW n, OnManual(n), left' = Spent,
         Form(ui'), ui'.submitting = ui.submitting,
         Distinct(ui.selected) /\ Unposted(db, ToSet(ui.selected)) =>
            /\ Distinct(ui'.selected) /\ Unposted(db, ToSet(ui'.selected))
            /\ ui'.picked \ ToSet(ui'.selected) \subseteq ui.picked \ ToSet(ui.selected)
  PROVE  ManualInv(net', db', ui', left')
  <1>1. left.acts > 0 /\ left \in Setting
    BY DEF OnManual, Acts, ManualInv
  <1>2. /\ left' \in Setting /\ left'.patient = left.patient
        /\ left'.errors = left.errors /\ left'.lost = left.lost
    BY <1>1, SpentLess
  <1>3. AllFit(net, db, ui, left)
    BY DEF ManualInv
  <1>4. AllFit(net', db', ui', left')
    <2>1. CASE NoPostCall(net)
      <3>1. Chosen(db, ui, left)
        BY <1>3, <2>1 DEF AllFit
      <3>2. Chosen(db, ui', left')
        BY <1>2, <3>1 DEF Chosen, Kept, AllPosted
      <3> QED BY <1>3, <2>1, <3>2, PostEnded DEF AllFit
    <2>2. CASE ~NoPostCall(net)
      <3>1. ~left.patient /\ ~left'.patient
        BY <1>2, <2>2, PatientIdle
      <3>2. \A S, v : Kept(db, v, left', S)
        BY <3>1 DEF Kept
      <3>3. Chosen(db, ui, left) => Chosen(db, ui', left')
        BY <3>2 DEF Chosen
      <3>4. \A a : MergedFits(a, db, ui, left) => MergedFits(a, db, ui', left')
        BY <3>1, <3>3 DEF MergedFits
      <3>5. \A rest, failed, S : Loop(db, ui, left, rest, failed, S) =>
                                 Loop(db, ui', left', rest, failed, S)
        BY <3>2 DEF Loop
      <3>6. \A a : SplitFits(a, db, ui, left) => SplitFits(a, db, ui', left')
        BY <3>5 DEF SplitFits
      <3>7. \A c : Fits(c, db, ui, left) => Fits(c, db, ui', left')
        BY <1>2, <3>4, <3>6 DEF Fits, AttachFits, UndoFits
      <3> QED BY <1>3, <2>2, <3>7 DEF AllFit
    <2> QED BY <2>1, <2>2
  <1> QED BY <1>2, <1>4 DEF ManualInv

LEMMA PickStep ==
  ASSUME ManualInv(net, db, ui, left), NEW S \in SUBSET Files, PickPostFiles(S)
  PROVE  ManualInv(net', db', ui', left')
  <1>0. /\ net' = net /\ db' = db /\ left' = Spent /\ OnManual(0)
        /\ S \cap (ToSet(ui.selected) \cup ui.picked \cup Posted) = {}
        /\ ui' = [ui EXCEPT !.selected = @ \o SetToSeq(S), !.picked = @ \cup S]
    BY DEF PickPostFiles
  <1>1. Form(ui)
    BY DEF ManualInv
  <1>2. PICK s : s = SetToSeq(S)
    OBVIOUS
  <1>3. Distinct(s) /\ ToSet(s) = S /\ s \in Seq(Files)
    BY <1>2, Listed DEF Distinct
  <1>4. PICK t : t = ui.selected \o s
    OBVIOUS
  <1>5. t \in Seq(Files)
    BY <1>1, <1>3, <1>4, ConcatProperties DEF Form
  <1>6. ui' = [ui EXCEPT !.selected = t, !.picked = @ \cup S]
    BY <1>0, <1>2, <1>4
  <1>7. /\ Form(ui') /\ ui'.submitting = ui.submitting
        /\ ui'.selected = t /\ ui'.picked = ui.picked \cup S
    BY <1>1, <1>5, <1>6 DEF Form
  <1>8. Unposted(db, S)
    BY <1>0 DEF Unposted, Posted
  <1>9. ASSUME Distinct(ui.selected), Unposted(db, ToSet(ui.selected))
        PROVE  /\ Distinct(t) /\ Unposted(db, ToSet(t))
               /\ ui'.picked \ ToSet(t) \subseteq ui.picked \ ToSet(ui.selected)
    <2>1. Distinct(t) /\ ToSet(t) = ToSet(ui.selected) \cup S
      BY <1>0, <1>3, <1>4, <1>9, Joined
    <2> QED BY <1>7, <1>8, <1>9, <2>1 DEF Unposted
  <1> QED BY <1>0, <1>7, <1>9, ChoiceStep

LEMMA DropStep ==
  ASSUME ManualInv(net, db, ui, left), NEW f \in Files, DropFile(f)
  PROVE  ManualInv(net', db', ui', left')
  <1>0. /\ net' = net /\ db' = db /\ left' = Spent /\ OnManual(0)
        /\ ui' = [ui EXCEPT !.selected = Keeping(@, ToSet(@) \ {f}), !.picked = @ \ {f}]
    BY DEF DropFile
  <1>1. Form(ui) /\ ui.selected \in Seq(Files)
    BY DEF ManualInv, Form
  <1>2. PICK t : t = Keeping(ui.selected, ToSet(ui.selected) \ {f})
    OBVIOUS
  <1>3. t \in Seq(Files)
    BY <1>1, <1>2, KeepingIs
  <1>4. ui' = [ui EXCEPT !.selected = t, !.picked = @ \ {f}]
    BY <1>0, <1>2
  <1>5. /\ Form(ui') /\ ui'.submitting = ui.submitting
        /\ ui'.selected = t /\ ui'.picked = ui.picked \ {f}
    BY <1>1, <1>3, <1>4 DEF Form
  <1>6. ASSUME Distinct(ui.selected), Unposted(db, ToSet(ui.selected))
        PROVE  /\ Distinct(t) /\ Unposted(db, ToSet(t))
               /\ ui'.picked \ ToSet(t) \subseteq ui.picked \ ToSet(ui.selected)
    <2>1. Distinct(t) /\ ToSet(t) = ToSet(ui.selected) \ {f}
      BY <1>2, <1>6, KeptListed
    <2> QED BY <1>5, <1>6, <2>1 DEF Unposted
  <1> QED BY <1>0, <1>5, <1>6, ChoiceStep

LEMMA SubmitStep ==
  ASSUME ManualInv(net, db, ui, left), SubmitPost
  PROVE  ManualInv(net', db', ui', left')
  <1> DEFINE v == [ui EXCEPT !.submitting = TRUE, !.error = FALSE, !.created = {}]
  <1>0. /\ left' = Spent /\ left.acts > 0 /\ HasRoom(net, 1) /\ ~ui.submitting /\ db' = db
        /\ \/ ui' = [ui EXCEPT !.error = TRUE] /\ net' = net
           \/ ui' = [ui EXCEPT !.error = TRUE, !.created = {}] /\ net' = net
           \/ ui.selected # <<>> /\ ui' = v /\ net' = MakeFor(net, ui.selected, {}, <<>>)
           \/ /\ ui' = v
              /\ net' = Send(net, "makePost", [split |-> FALSE, files |-> ui.selected,
                                               rest |-> <<>>, done |-> {}, failed |-> <<>>,
                                               post |-> 0])
    BY DEF SubmitPost, OnManual, Acts
  <1>1. /\ left' \in Setting /\ left'.patient = left.patient
        /\ left'.errors = left.errors /\ left'.lost = left.lost
    BY <1>0, SpentLess DEF ManualInv
  <1>2. /\ Form(ui) /\ AllFit(net, db, ui, left) /\ NoPostCall(net) /\ Calls(net)
        /\ Chosen(db, ui, left) /\ Held(db)
    BY <1>0 DEF ManualInv, AllFit
  <1>3. /\ Form(ui') /\ ui'.selected = ui.selected /\ ui'.picked = ui.picked
    BY <1>0, <1>2 DEF Form
  <1>4. AllFit(net, db, ui', left') /\ Chosen(db, ui', left')
    BY <1>1, <1>2, <1>3, AllFitSame DEF AllFit
  <1>5. FreeSlots(net) # {}
    BY <1>0, Room
  <1>6. PICK op : op = "makePost"
    OBVIOUS
  <1>7. op \in PostOps /\ op # "none"
    BY <1>6 DEF PostOps
  <1>8. PICK e : e = <<>>
    OBVIOUS
  <1>9. Distinct(e) /\ ToSet(e) = {} /\ e \in Seq(Files)
    BY <1>8, EmptyList DEF Distinct
  <1>10. CASE net' = net
    BY <1>0, <1>1, <1>2, <1>3, <1>4, <1>10 DEF ManualInv
  <1>11. CASE ui.selected # <<>> /\ ui' = v /\ net' = MakeFor(net, ui.selected, {}, <<>>)
    <2>1. PICK done : done = {}
      OBVIOUS
    <2>2. net' = Send(net, op, SplitArg(ui.selected, done, e))
      BY <1>6, <1>8, <1>11, <2>1 DEF MakeFor, SplitArg
    <2>3. Loop(db, ui', left', ui.selected, e, {})
      <3>1. {} \cup ToSet(ui.selected) \cup ToSet(e) = ToSet(ui.selected)
        BY <1>9
      <3>2. Unposted(db, ToSet(e))
        BY <1>9 DEF Unposted
      <3> QED BY <1>3, <1>4, <1>9, <3>1, <3>2 DEF Loop, Chosen
    <2>4. Fits(Fresh(op, SplitArg(ui.selected, done, e)), db, ui', left')
      BY <1>6, <1>11, <2>3, NextFits
    <2>5. AllFit(net', db, ui', left') /\ ~NoPostCall(net')
      BY <1>2, <1>5, <1>7, <2>2, <2>4, PostSent
    <2>6. ui'.submitting = TRUE
      BY <1>2, <1>11 DEF Form
    <2> QED BY <1>0, <1>1, <1>2, <1>3, <2>5, <2>6 DEF ManualInv
  <1>12. CASE /\ ui' = v
              /\ net' = Send(net, "makePost", [split |-> FALSE, files |-> ui.selected,
                                               rest |-> <<>>, done |-> {}, failed |-> <<>>,
                                               post |-> 0])
    <2>1. PICK a : a = [split |-> FALSE, files |-> ui.selected, rest |-> e, done |-> {},
                        failed |-> e, post |-> 0]
      OBVIOUS
    <2>2. net' = Send(net, op, a)
      BY <1>6, <1>8, <1>12, <2>1
    <2>3. a.split = FALSE /\ a.files = ui.selected
      BY <2>1
    <2>4. Args(a)
      BY <1>2, <1>9, <2>1 DEF Args, Form
    <2>5. MergedFits(a, db, ui', left')
      BY <1>3, <1>4, <2>3 DEF MergedFits
    <2>6. PICK c : c = Fresh(op, a)
      OBVIOUS
    <2>7. c.op = op /\ c.arg = a /\ ~c.back
      BY <1>7, <2>6, FreshIs
    <2>8. MadeFits(c, db)
      BY <2>3, <2>7 DEF MadeFits
    <2>9. Fits(c, db, ui', left')
      BY <1>6, <2>3, <2>4, <2>5, <2>7, <2>8 DEF Fits
    <2>10. AllFit(net', db, ui', left') /\ ~NoPostCall(net')
      BY <1>2, <1>5, <1>7, <2>2, <2>6, <2>9, PostSent
    <2>11. ui'.submitting = TRUE
      BY <1>2, <1>12 DEF Form
    <2> QED BY <1>0, <1>1, <1>2, <1>3, <2>10, <2>11 DEF ManualInv
  <1> QED BY <1>0, <1>10, <1>11, <1>12

-----------------------------------------------------------------------------
(* What comes back.                                                         *)

\* The step of a handler that changes neither the server nor what is left.
LEMMA HandlerStep ==
  ASSUME ManualInv(net, db, ui, left), db' = db, left' = left,
         AllFit(net', db, ui', left), Form(ui'), ~ui'.submitting => NoPostCall(net')
  PROVE  ManualInv(net', db', ui', left')
  BY DEF ManualInv

\* The form is emptied: nothing is left to post.
LEMMA EmptiedIs ==
  ASSUME ManualInv(net, db, ui, left), NEW i \in Slots, net[i].op \in PostOps,
         NEW created, Kept(db, ui, left, {}),
         net' = Settle(net, i), ui' = Emptied(ui, created), db' = db, left' = left
  PROVE  ManualInv(net', db', ui', left')
  <1>1. /\ Calls(net') /\ NoPostCall(net') /\ Form(ui)
    BY ManualPostIs DEF ManualInv
  <1>2. PICK e : e = <<>>
    OBVIOUS
  <1>3. Distinct(e) /\ ToSet(e) = {} /\ e \in Seq(Files)
    BY <1>2, EmptyList DEF Distinct
  <1>4. /\ ui'.selected = e /\ ui'.picked = ui.picked /\ Form(ui')
    BY <1>1, <1>2, <1>3 DEF Emptied, Form
  <1>5. Chosen(db, ui', left)
    BY <1>3, <1>4 DEF Chosen, Unposted, Kept
  <1>6. AllFit(net', db, ui', left)
    BY <1>1, <1>5, PostEnded
  <1> QED BY <1>1, <1>4, <1>6, HandlerStep

\* One post for all was not made, or has no files: the form stays as it is.
LEMMA GivenUp ==
  ASSUME ManualInv(net, db, ui, left), NEW i \in Slots, net[i].op \in PostOps,
         ~net[i].arg.split, NEW created,
         net' = Settle(net, i), db' = db, left' = left,
         \/ ui' = [ui EXCEPT !.submitting = FALSE, !.error = TRUE]
         \/ ui' = [ui EXCEPT !.submitting = FALSE, !.error = TRUE, !.created = created]
  PROVE  ManualInv(net', db', ui', left')
  <1>1. /\ Calls(net') /\ NoPostCall(net') /\ Form(ui) /\ Chosen(db, ui, left)
    BY ManualPostIs DEF ManualInv, Fits, MergedFits
  <1>2. /\ ui'.selected = ui.selected /\ ui'.picked = ui.picked /\ Form(ui')
    BY <1>1 DEF Form
  <1>3. Chosen(db, ui', left)
    BY <1>1, <1>2 DEF Chosen, Kept
  <1>4. AllFit(net', db, ui', left)
    BY <1>1, <1>3, PostEnded
  <1> QED BY <1>1, <1>2, <1>4, HandlerStep

LEMMA OptionsStep ==
  ASSUME ManualInv(net, db, ui, left), NEW i \in Slots, OnOptions(i)
  PROVE  ManualInv(net', db', ui', left')
  <1>1. PICK x : x = IF net[i].out.ok THEN "ready" ELSE "failed"
    OBVIOUS
  <1>2. /\ net[i].op = "options" /\ net' = Settle(net, i)
        /\ ui' = [ui EXCEPT !.options = x] /\ db' = db /\ left' = left
    BY <1>1 DEF OnOptions, Back
  <1>3. /\ Form(ui') /\ ui'.selected = ui.selected /\ ui'.picked = ui.picked
        /\ ui'.submitting = ui.submitting
    BY <1>2 DEF ManualInv, Form
  <1>4. net[i].op \notin PostOps /\ NoCall.op \notin PostOps
    BY <1>2, NoCallIs DEF PostOps
  <1>5. AllFit(net, db, ui, left) /\ Calls(net)
    BY DEF ManualInv, AllFit
  <1>6. Changed(net, net', i, NoCall)
    BY <1>2, <1>5, SettleChanges
  <1>7. AllFit(net', db, ui, left) /\ (NoPostCall(net) => NoPostCall(net'))
    BY <1>4, <1>5, <1>6, OtherChanged
  <1>8. AllFit(net', db, ui', left)
    BY <1>3, <1>7, AllFitSame
  <1> QED BY <1>2, <1>3, <1>7, <1>8 DEF ManualInv

\* The answer to one request sends the next, about the same files.
LEMMA GoesOn ==
  ASSUME ManualInv(net, db, ui, left), NEW i \in Slots, net[i].op \in PostOps,
         NEW op \in PostOps, NEW arg, Fits(Fresh(op, arg), db, ui, left),
         net' = Send(Settle(net, i), op, arg), ui' = ui, db' = db, left' = left
  PROVE  ManualInv(net', db', ui', left')
  <1>1. /\ Calls(Settle(net, i)) /\ NoPostCall(Settle(net, i)) /\ FreeSlots(Settle(net, i)) # {}
        /\ ui.submitting
    BY ManualPostIs
  <1>2. AllFit(net', db, ui, left)
    BY <1>1, PostSent
  <1> QED BY <1>1, <1>2, HandlerStep DEF ManualInv

LEMMA MadeStep ==
  ASSUME ManualInv(net, db, ui, left), NEW i \in Slots, OnPostMade(i)
  PROVE  ManualInv(net', db', ui', left')
  <1>1. PICK b : b = net[i].out.body
    OBVIOUS
  <1>2. PICK a : a = net[i].arg
    OBVIOUS
  <1>3. PICK g : g = [a EXCEPT !.post = b]
    OBVIOUS
  <1>4. /\ net[i].op = "makePost" /\ net[i].back /\ net[i].out.ok
        /\ db' = db /\ left' = left
        /\ \/ g.files = <<>> /\ net' = Settle(net, i) /\ ui' = Emptied(ui, {g.post})
           \/ g.files # <<>> /\ net' = Send(Settle(net, i), "attachPost", g) /\ ui' = ui
    BY <1>1, <1>2, <1>3 DEF OnPostMade, Good, Back, IsBack
  <1>5. net[i].op \in PostOps
    BY <1>4 DEF PostOps
  <1>6. Fits(net[i], db, ui, left)
    BY <1>5, ManualPostIs
  <1>7. /\ Args(a) /\ MadeFits(net[i], db)
        /\ IF a.split THEN SplitFits(a, db, ui, left) ELSE MergedFits(a, db, ui, left)
    BY <1>2, <1>4, <1>6 DEF Fits
  <1>8. /\ Args(g) /\ g.split = a.split /\ g.files = a.files /\ g.rest = a.rest
        /\ g.failed = a.failed /\ g.post = b
    BY <1>3, <1>7 DEF Args
  <1>9. CASE g.files = <<>> /\ net' = Settle(net, i) /\ ui' = Emptied(ui, {g.post})
    <2>1. ~a.split
      <3>1. \A f \in Files : <<f>> # <<>>
        BY OneFile
      <3> QED BY <1>7, <1>8, <1>9, <3>1 DEF SplitFits
    <2>2. Kept(db, ui, left, {})
      <3>1. left.patient => ui.selected = <<>>
        BY <1>7, <1>8, <1>9, <2>1 DEF MergedFits
      <3>2. left.patient => ToSet(ui.selected) = {}
        BY <3>1, EmptyList
      <3>3. Kept(db, ui, left, ToSet(ui.selected))
        BY <1>7, <2>1 DEF MergedFits, Chosen
      <3> QED BY <3>2, <3>3 DEF Kept
    <2> QED BY <1>4, <1>5, <1>9, <2>2, EmptiedIs
  <1>10. CASE g.files # <<>> /\ net' = Send(Settle(net, i), "attachPost", g) /\ ui' = ui
    <2>1. PICK op : op = "attachPost"
      OBVIOUS
    <2>2. op \in PostOps /\ op # "none"
      BY <2>1 DEF PostOps
    <2>3. PICK c : c = Fresh(op, g)
      OBVIOUS
    <2>4. c.op = op /\ c.arg = g /\ ~c.back
      BY <2>2, <2>3, FreshIs
    <2>5. PICK q \in db.posts : q.id = b /\ q.files = {} /\ q.split = a.split
      BY <1>1, <1>2, <1>4, <1>7 DEF MadeFits
    <2>6. \A p \in db.posts : p.id = b => p = q
      BY <2>5 DEF ManualInv, Held
    <2>7. Bare(db, g.post)
      BY <1>8, <2>5, <2>6 DEF Bare
    <2>8. PostFits(c, db)
      <3>1. \A p \in db.posts : p.id = g.post => p.split = g.split /\ p.files \subseteq ToSet(g.files)
        BY <1>8, <2>5, <2>6
      <3>2. g.split => Unposted(db, ToSet(g.files))
        BY <1>2, <1>7, <1>8 DEF MadeFits
      <3> QED BY <2>4, <3>1, <3>2 DEF PostFits, Unposted
    <2>9. AttachFits(c, db, left)
      BY <2>4, <2>7, <2>8 DEF AttachFits
    <2>10. IF g.split THEN SplitFits(g, db, ui, left) ELSE MergedFits(g, db, ui, left)
      BY <1>7, <1>8 DEF SplitFits, MergedFits
    <2>11. Fits(c, db, ui, left)
      BY <1>8, <2>1, <2>4, <2>9, <2>10 DEF Fits
    <2>12. net' = Send(Settle(net, i), op, g)
      BY <1>10, <2>1
    <2> QED BY <1>4, <1>5, <1>10, <2>2, <2>3, <2>11, <2>12, GoesOn
  <1> QED BY <1>4, <1>9, <1>10

\* A file that could not be posted is kept with those that failed.
LEMMA FileFails ==
  ASSUME ManualInv(net, db, ui, left), NEW i \in Slots, net[i].op \in PostOps,
         net[i].arg.split, NEW done, Unposted(db, ToSet(net[i].arg.files)),
         NextFile(i, done, net[i].arg.failed \o net[i].arg.files),
         db' = db, left' = left
  PROVE  ManualInv(net', db', ui', left')
  <1>1. PICK a : a = net[i].arg
    OBVIOUS
  <1>2. Fits(net[i], db, ui, left)
    BY ManualPostIs
  <1>3. Args(a) /\ SplitFits(a, db, ui, left)
    BY <1>1, <1>2 DEF Fits
  <1>4. PICK f \in Files : /\ a.files = <<f>> /\ f \notin ToSet(a.rest) \cup ToSet(a.failed)
                           /\ Loop(db, ui, left, a.rest, a.failed, {f})
    BY <1>3 DEF SplitFits
  <1>5. PICK fs : fs = a.files
    OBVIOUS
  <1>6. Distinct(fs) /\ ToSet(fs) = {f}
    BY <1>4, <1>5, OneFile
  <1>7. PICK t : t = a.failed \o fs
    OBVIOUS
  <1>8. Distinct(t) /\ ToSet(t) = ToSet(a.failed) \cup {f}
    BY <1>4, <1>6, <1>7, Joined DEF Loop
  <1>9. Loop(db, ui, left, a.rest, t, {})
    <2>1. ToSet(a.rest) \cap ToSet(t) = {}
      BY <1>4, <1>8 DEF Loop
    <2>2. Unposted(db, ToSet(t))
      BY <1>1, <1>4, <1>5, <1>6, <1>8 DEF Loop, Unposted
    <2>3. {} \cup ToSet(a.rest) \cup ToSet(t) = {f} \cup ToSet(a.rest) \cup ToSet(a.failed)
      BY <1>8
    <2>4. Kept(db, ui, left, {} \cup ToSet(a.rest) \cup ToSet(t))
      BY <1>4, <2>3 DEF Loop
    <2> QED BY <1>4, <1>8, <2>1, <2>2, <2>4 DEF Loop
  <1>10. NextFile(i, done, t)
    BY <1>1, <1>5, <1>7
  <1>11. /\ AllFit(net', db, ui', left) /\ Form(ui')
         /\ ~ui'.submitting => NoPostCall(net')
    BY <1>1, <1>9, <1>10, NextFileIs
  <1> QED BY <1>11, HandlerStep

LEMMA NotMadeStep ==
  ASSUME ManualInv(net, db, ui, left), NEW i \in Slots, OnNotMade(i)
  PROVE  ManualInv(net', db', ui', left')
  <1>1. /\ net[i].op = "makePost" /\ db' = db /\ left' = left
        /\ IF net[i].arg.split
           THEN NextFile(i, net[i].arg.done, net[i].arg.failed \o net[i].arg.files)
           ELSE /\ net' = Settle(net, i)
                /\ ui' = [ui EXCEPT !.submitting = FALSE, !.error = TRUE]
    BY DEF OnNotMade, Bad, Back
  <1>2. net[i].op \in PostOps
    BY <1>1 DEF PostOps
  <1>3. CASE net[i].arg.split
    <2>1. Unposted(db, ToSet(net[i].arg.files))
      BY <1>1, <1>2, <1>3, ManualPostIs DEF Fits, MadeFits
    <2> QED BY <1>1, <1>2, <1>3, <2>1, FileFails
  <1>4. CASE ~net[i].arg.split
    BY <1>1, <1>2, <1>4, GivenUp
  <1> QED BY <1>3, <1>4

LEMMA AttachedStep ==
  ASSUME ManualInv(net, db, ui, left), NEW i \in Slots, OnFilesAttached(i)
  PROVE  ManualInv(net', db', ui', left')
  <1>1. PICK a : a = net[i].arg
    OBVIOUS
  <1>2. /\ net[i].op = "attachPost" /\ net[i].back /\ net[i].out.ok
        /\ db' = db /\ left' = left
        /\ IF a.split THEN NextFile(i, a.done \cup {a.post}, a.failed)
           ELSE net' = Settle(net, i) /\ ui' = Emptied(ui, {a.post})
    BY <1>1 DEF OnFilesAttached, Good, Back, IsBack
  <1>3. net[i].op \in PostOps
    BY <1>2 DEF PostOps
  <1>4. Fits(net[i], db, ui, left)
    BY <1>3, ManualPostIs
  <1>5. /\ AllPosted(db, ToSet(a.files))
        /\ IF a.split THEN SplitFits(a, db, ui, left) ELSE MergedFits(a, db, ui, left)
    BY <1>1, <1>2, <1>4 DEF Fits, AttachFits
  <1>6. CASE a.split
    <2>1. PICK f \in Files : a.files = <<f>> /\ Loop(db, ui, left, a.rest, a.failed, {f})
      BY <1>5, <1>6 DEF SplitFits
    <2>2. ToSet(a.files) = {f}
      BY <2>1, OneFile
    <2>3. Kept(db, ui, left, {} \cup ToSet(a.rest) \cup ToSet(a.failed))
      BY <1>5, <2>1, <2>2 DEF Kept, AllPosted, Loop
    <2>4. Loop(db, ui, left, a.rest, a.failed, {})
      BY <2>1, <2>3 DEF Loop
    <2>5. /\ AllFit(net', db, ui', left) /\ Form(ui')
          /\ ~ui'.submitting => NoPostCall(net')
      BY <1>1, <1>2, <1>3, <1>6, <2>4, NextFileIs
    <2> QED BY <1>2, <2>5, HandlerStep
  <1>7. CASE ~a.split
    <2>1. Kept(db, ui, left, {})
      BY <1>5, <1>7 DEF MergedFits, Chosen, Kept, AllPosted
    <2> QED BY <1>2, <1>3, <1>7, <2>1, EmptiedIs
  <1> QED BY <1>6, <1>7

LEMMA RefusedStep ==
  ASSUME ManualInv(net, db, ui, left), NEW i \in Slots, OnFilesRefused(i)
  PROVE  ManualInv(net', db', ui', left')
  <1>1. PICK a : a = net[i].arg
    OBVIOUS
  <1>2. /\ net[i].op = "attachPost" /\ net[i].back /\ ~net[i].out.ok
        /\ db' = db /\ left' = left
        /\ IF a.split THEN net' = Send(Settle(net, i), "undoPost", a) /\ ui' = ui
           ELSE /\ net' = Settle(net, i)
                /\ ui' = [ui EXCEPT !.submitting = FALSE, !.error = TRUE, !.created = {a.post}]
    BY <1>1 DEF OnFilesRefused, Bad, Back, IsBack
  <1>3. net[i].op \in PostOps
    BY <1>2 DEF PostOps
  <1>4. Fits(net[i], db, ui, left)
    BY <1>3, ManualPostIs
  <1>5. CASE a.split
    <2>1. PICK op : op = "undoPost"
      OBVIOUS
    <2>2. op \in PostOps /\ op # "none"
      BY <2>1 DEF PostOps
    <2>3. PICK c : c = Fresh(op, a)
      OBVIOUS
    <2>4. c.op = op /\ c.arg = a /\ ~c.back
      BY <2>2, <2>3, FreshIs
    <2>5. /\ PostFits(net[i], db) /\ (left.errors > 0 => Bare(db, a.post))
          /\ Args(a) /\ SplitFits(a, db, ui, left)
      BY <1>1, <1>2, <1>4, <1>5 DEF Fits, AttachFits
    <2>6. PostFits(c, db)
      BY <1>1, <2>4, <2>5 DEF PostFits
    <2>7. UndoFits(c, db, left)
      BY <1>5, <2>4, <2>5, <2>6 DEF UndoFits
    <2>8. Fits(c, db, ui, left)
      BY <1>5, <2>1, <2>4, <2>5, <2>7 DEF Fits
    <2>9. net' = Send(Settle(net, i), op, a) /\ ui' = ui
      BY <1>2, <1>5, <2>1
    <2> QED BY <1>2, <1>3, <2>2, <2>3, <2>8, <2>9, GoesOn
  <1>6. CASE ~a.split
    BY <1>1, <1>2, <1>3, <1>6, GivenUp
  <1> QED BY <1>5, <1>6

LEMMA UndoneStep ==
  ASSUME ManualInv(net, db, ui, left), NEW i \in Slots, OnPostUndone(i)
  PROVE  ManualInv(net', db', ui', left')
  <1>1. PICK a : a = net[i].arg
    OBVIOUS
  <1>2. /\ net[i].op = "undoPost" /\ net[i].back /\ db' = db /\ left' = left
        /\ NextFile(i, net[i].arg.done, net[i].arg.failed \o net[i].arg.files)
    BY DEF OnPostUndone, Back, IsBack
  <1>3. net[i].op \in PostOps
    BY <1>2 DEF PostOps
  <1>4. UndoFits(net[i], db, left)
    BY <1>2, <1>3, ManualPostIs DEF Fits
  <1>5. a.split /\ Bare(db, a.post) /\ PostFits(net[i], db)
    BY <1>1, <1>2, <1>4 DEF UndoFits
  <1>6. Unposted(db, ToSet(a.files))
    BY <1>1, <1>5 DEF Unposted, Bare, PostFits
  <1> QED BY <1>1, <1>2, <1>3, <1>5, <1>6, FileFails

-----------------------------------------------------------------------------
(* What the server does.                                                    *)

\* The request as it was, when the files of the posts allow it still.
LEMMA FitsOn ==
  ASSUME NEW c, NEW d, Fits(c, d, ui, left), NEW e, NEW k, k.arg = c.arg, k.op = c.op,
         \A S : /\ S \cap ToSet(c.arg.files) = {} /\ Unposted(d, S) => Unposted(e, S)
                /\ ~c.arg.split /\ Unposted(d, S) => Unposted(e, S)
                /\ AllPosted(d, S) /\ (c.arg.split => S \cap ToSet(c.arg.files) = {}) => AllPosted(e, S),
         k.op = "makePost" => MadeFits(k, e),
         k.op = "attachPost" => AttachFits(k, e, left),
         k.op = "undoPost" => UndoFits(k, e, left)
  PROVE  Fits(k, e, ui, left)
  <1>1. PICK a : a = c.arg
    OBVIOUS
  <1>2. CASE a.split
    <2>1. PICK f \in Files : /\ a.files = <<f>> /\ f \notin ToSet(a.rest) \cup ToSet(a.failed)
                             /\ Loop(d, ui, left, a.rest, a.failed, {f})
      BY <1>1, <1>2 DEF Fits, SplitFits
    <2>2. ToSet(a.files) = {f}
      BY <2>1, OneFile
    <2>3. Unposted(e, ToSet(a.rest)) /\ Unposted(e, ToSet(a.failed))
      BY <1>1, <2>1, <2>2 DEF Loop
    <2>4. PICK S : S = {f} \cup ToSet(a.rest) \cup ToSet(a.failed)
      OBVIOUS
    <2>5. PICK T : T = ui.picked \ S
      OBVIOUS
    <2>6. T \cap ToSet(a.files) = {}
      BY <2>2, <2>4, <2>5
    <2>7. left.patient => AllPosted(d, T)
      BY <2>1, <2>4, <2>5 DEF Loop, Kept
    <2>8. left.patient => AllPosted(e, T)
      BY <1>1, <2>6, <2>7
    <2>9. Kept(e, ui, left, S)
      BY <2>5, <2>8 DEF Kept
    <2>10. Loop(e, ui, left, a.rest, a.failed, {f})
      BY <2>1, <2>3, <2>4, <2>9 DEF Loop
    <2>11. SplitFits(a, e, ui, left)
      BY <2>1, <2>10 DEF SplitFits
    <2> QED BY <1>1, <1>2, <2>11 DEF Fits
  <1>3. CASE ~a.split
    <2>1. MergedFits(a, d, ui, left)
      BY <1>1, <1>3 DEF Fits
    <2>2. Unposted(e, ToSet(ui.selected))
      BY <1>1, <1>3, <2>1 DEF MergedFits, Chosen
    <2>3. Kept(e, ui, left, ToSet(ui.selected))
      BY <1>1, <1>3, <2>1 DEF MergedFits, Chosen, Kept
    <2>4. MergedFits(a, e, ui, left)
      BY <2>1, <2>2, <2>3 DEF MergedFits, Chosen
    <2> QED BY <1>1, <1>3, <2>4 DEF Fits
  <1> QED BY <1>2, <1>3

LEMMA MakeServed ==
  ASSUME Held(db), NEW c, IsCall(c), c.op = "makePost", ~c.back, Fits(c, db, ui, left),
         NEW e, e = ManualAfter(c.op, c.arg),
         NEW out, out = Failure \/ out = Success(db.next)
  PROVE  Held(e) /\ Fits(Answer(c, out), e, ui, left)
  <1>1. PICK a : a = c.arg
    OBVIOUS
  <1>2. PICK q : q = Made(db.next, a.split)
    OBVIOUS
  <1>3. a.split \in BOOLEAN /\ (a.split => Unposted(db, ToSet(a.files)))
    BY <1>1 DEF Fits, Args, MadeFits
  <1>4. q \in Posts /\ q.id = db.next /\ q.files = {} /\ q.split = a.split
    BY <1>2, <1>3 DEF Made, Posts, Held
  <1>5. e = [posts |-> db.posts \cup {q}, next |-> db.next + 1]
    BY <1>1, <1>2 DEF ManualAfter
  <1>6. e.posts = db.posts \cup {q} /\ e.next = db.next + 1
    BY <1>5
  <1>7. \A p \in db.posts : p \in Posts /\ p.id < db.next /\ p.id \in Nat /\ p.id # db.next
    BY DEF Held, Posts
  <1>8. Held(e)
    <2>1. db.next \in Nat /\ db.posts \subseteq Posts
      BY DEF Held
    <2>2. e \in [posts : SUBSET Posts, next : Nat]
      BY <1>4, <1>5, <2>1
    <2>3. \A p \in e.posts : p.id < e.next
      BY <1>4, <1>6, <1>7, <2>1
    <2>4. \A p, r \in e.posts : p.id = r.id => p = r
      BY <1>4, <1>6, <1>7 DEF Held
    <2>5. \A p, r \in e.posts : p.split /\ r.split /\ p.files \cap r.files # {} => p = r
      BY <1>4, <1>6 DEF Held
    <2> QED BY <2>2, <2>3, <2>4, <2>5 DEF Held
  <1>9. \A S : /\ Unposted(db, S) => Unposted(e, S)
               /\ AllPosted(db, S) => AllPosted(e, S)
    BY <1>4, <1>6 DEF Unposted, AllPosted
  <1>10. PICK k : k = Answer(c, out)
    OBVIOUS
  <1>11. \A b : /\ ~Failure.ok /\ Success(b).body = b
    BY OutcomeIs
  <1>12. out = Failure \/ out = Success(out.body)
    BY <1>11
  <1>13. k.op = c.op /\ k.arg = a /\ k.out = out
    BY <1>1, <1>10, <1>12, AnswerIs
  <1>14. MadeFits(k, e)
    BY <1>3, <1>4, <1>6, <1>9, <1>11, <1>13 DEF MadeFits
  <1>15. Fits(k, e, ui, left)
    BY <1>1, <1>9, <1>13, <1>14, FitsOn
  <1> QED BY <1>8, <1>10, <1>15

LEMMA AttachServed ==
  ASSUME Held(db), NEW c, IsCall(c), c.op = "attachPost", ~c.back, Fits(c, db, ui, left),
         NEW e, e = ManualAfter(c.op, c.arg), \E p \in db.posts : p.id = c.arg.post,
         NEW out, (out = Failure /\ left.errors = 0) \/ out = Success(out.body)
  PROVE  Held(e) /\ Fits(Answer(c, out), e, ui, left)
  <1>1. PICK a : a = c.arg
    OBVIOUS
  <1>2. PICK F : F = ToSet(a.files)
    OBVIOUS
  <1>3. F \subseteq Files
    <2>1. a.files \in Seq(Files)
      BY <1>1 DEF Fits, Args
    <2> QED BY <1>2, <2>1, LenProperties, ElementOfSeq DEF ToSet
  <1>4. PICK q \in db.posts : q.id = a.post
    BY <1>1
  <1>5. PICK r : r = [q EXCEPT !.files = F]
    OBVIOUS
  <1>6. /\ db.posts \subseteq Posts /\ db.next \in Nat /\ \A p \in db.posts : p.id = a.post => p = q
    BY <1>4 DEF Held
  <1>7. r \in Posts /\ r.id = a.post /\ r.files = F /\ r.split = q.split
    BY <1>3, <1>4, <1>5, <1>6 DEF Posts
  <1>8. PICK N : N = {IF p.id = a.post THEN [p EXCEPT !.files = F] ELSE p : p \in db.posts}
    OBVIOUS
  <1>9. \A p : p \in N <=> p = r \/ (p \in db.posts /\ p # q)
    <2>1. \A p \in db.posts : (IF p.id = a.post THEN [p EXCEPT !.files = F] ELSE p)
                              = (IF p = q THEN r ELSE p)
      BY <1>4, <1>5, <1>6
    <2> DEFINE G(p) == IF p.id = a.post THEN [p EXCEPT !.files = F] ELSE p
    <2>2. N = {G(p) : p \in db.posts} /\ \A p \in db.posts : G(p) = IF p = q THEN r ELSE p
      BY <1>8, <2>1
    <2> HIDE DEF G
    <2>3. G(q) = r /\ \A p \in db.posts : p # q => G(p) = p
      BY <1>4, <2>2
    <2> QED BY <1>4, <2>2, <2>3
  <1>10. e = [db EXCEPT !.posts = N]
    <2>1. e = [db EXCEPT !.posts = {IF p.id = a.post THEN [p EXCEPT !.files = F] ELSE p : p \in @}]
      BY <1>1, <1>2 DEF ManualAfter
    <2> QED BY <1>8, <2>1
  <1>11. /\ db \in [posts : SUBSET Posts, next : Nat]
         /\ \A p, s \in db.posts : p.split /\ s.split /\ p.files \cap s.files # {} => p = s
         /\ \A p \in db.posts : p.id < db.next
         /\ \A p, s \in db.posts : p.id = s.id => p = s
    BY DEF Held
  <1>12. e.posts = N /\ e.next = db.next
    BY <1>10, <1>11
  <1>13. /\ q.split = a.split /\ q.files = {}
         /\ a.split => \A p \in db.posts : p.split /\ p # q => p.files \cap F = {}
    BY <1>1, <1>2, <1>4, <1>6 DEF Fits, AttachFits, PostFits, Bare
  <1>14. Held(e)
    <2>1. N \subseteq Posts
      BY <1>6, <1>7, <1>9
    <2>2. e \in [posts : SUBSET Posts, next : Nat]
      BY <1>10, <1>11, <2>1
    <2>3. \A p \in N : p.id < db.next
      BY <1>4, <1>7, <1>9, <1>11
    <2>4. \A p, s \in N : p.id = s.id => p = s
      BY <1>4, <1>6, <1>7, <1>9, <1>11
    <2>5. \A p, s \in N : p.split /\ s.split /\ p.files \cap s.files # {} => p = s
      BY <1>7, <1>9, <1>11, <1>13
    <2> QED BY <1>12, <2>2, <2>3, <2>4, <2>5 DEF Held
  <1>15. ASSUME NEW S
         PROVE  /\ S \cap F = {} /\ Unposted(db, S) => Unposted(e, S)
                /\ ~a.split /\ Unposted(db, S) => Unposted(e, S)
                /\ AllPosted(db, S) => AllPosted(e, S)
    <2>1. S \cap F = {} /\ Unposted(db, S) => Unposted(e, S)
      BY <1>7, <1>9, <1>12 DEF Unposted
    <2>2. ~a.split /\ Unposted(db, S) => Unposted(e, S)
      BY <1>7, <1>9, <1>12, <1>13 DEF Unposted
    <2>3. AllPosted(db, S) => AllPosted(e, S)
      BY <1>9, <1>12, <1>13 DEF AllPosted
    <2> QED BY <2>1, <2>2, <2>3
  <1>16. PICK k : k = Answer(c, out)
    OBVIOUS
  <1>17. ~Failure.ok /\ (out = Failure \/ out = Success(out.body))
    BY OutcomeIs
  <1>18. k.op = c.op /\ k.arg = a /\ k.out = out /\ k.back
    BY <1>1, <1>16, <1>17, AnswerIs
  <1>19. PostFits(k, e)
    <2>1. \A p \in N : p.id = a.post => p = r
      BY <1>6, <1>9
    <2>2. \A p \in N : p.id = a.post => p.split = a.split /\ p.files \subseteq F
      BY <1>7, <1>13, <2>1
    <2>3. a.split => \A p \in N : p.split /\ p.id # a.post => p.files \cap F = {}
      BY <1>7, <1>9, <1>13
    <2> QED BY <1>2, <1>12, <1>18, <2>2, <2>3 DEF PostFits
  <1>20. AllPosted(e, F)
    <2>1. r \in e.posts
      BY <1>9, <1>12
    <2> QED BY <1>7, <2>1 DEF AllPosted
  <1>21. k.out.ok \/ left.errors = 0
    <2>1. \A b : Success(b).ok
      BY OutcomeIs
    <2>2. CASE out = Success(out.body)
      <3>1. PICK b : out = Success(b)
        BY <2>2
      <3> QED BY <1>18, <2>1, <3>1
    <2> QED BY <2>2
  <1>22. AttachFits(k, e, left)
    BY <1>2, <1>18, <1>19, <1>20, <1>21 DEF AttachFits
  <1>23. Fits(k, e, ui, left)
    BY <1>1, <1>2, <1>15, <1>18, <1>22, FitsOn
  <1> QED BY <1>14, <1>16, <1>23

LEMMA UndoServed ==
  ASSUME Held(db), NEW c, IsCall(c), c.op = "undoPost", ~c.back, Fits(c, db, ui, left),
         NEW e, e = ManualAfter(c.op, c.arg),
         NEW out, out = Failure \/ out = Success(out.body)
  PROVE  Held(e) /\ Fits(Answer(c, out), e, ui, left)
  <1>1. PICK a : a = c.arg
    OBVIOUS
  <1>2. PICK N : N = {p \in db.posts : p.id # a.post}
    OBVIOUS
  <1>3. e = [db EXCEPT !.posts = N]
    <2>1. e = [db EXCEPT !.posts = {p \in @ : p.id # a.post}]
      BY <1>1 DEF ManualAfter
    <2> QED BY <1>2, <2>1
  <1>4. db \in [posts : SUBSET Posts, next : Nat] /\ N \subseteq db.posts
    BY <1>2 DEF Held
  <1>5. e.posts = N /\ e.next = db.next /\ e \in [posts : SUBSET Posts, next : Nat]
    BY <1>3, <1>4
  <1>6. Held(e)
    BY <1>4, <1>5 DEF Held
  <1>7. /\ a.split /\ PostFits(c, db)
    BY <1>1 DEF Fits, UndoFits
  <1>8. ASSUME NEW S
        PROVE  /\ Unposted(db, S) => Unposted(e, S)
               /\ S \cap ToSet(a.files) = {} /\ AllPosted(db, S) => AllPosted(e, S)
    <2>1. \A p \in db.posts : p.id = a.post => p.files \subseteq ToSet(a.files)
      BY <1>1, <1>7 DEF PostFits
    <2> QED BY <1>2, <1>4, <1>5, <2>1 DEF Unposted, AllPosted
  <1>9. PICK k : k = Answer(c, out)
    OBVIOUS
  <1>10. k.op = c.op /\ k.arg = a
    BY <1>1, <1>9, AnswerIs
  <1>11. PostFits(k, e)
    <2>1. \A p \in e.posts : p \in db.posts
      BY <1>4, <1>5
    <2>2. /\ \A p \in db.posts :
                p.id = a.post => p.split = a.split /\ p.files \subseteq ToSet(a.files)
          /\ \A p \in db.posts : p.split /\ p.id # a.post => p.files \cap ToSet(a.files) = {}
      BY <1>1, <1>7 DEF PostFits
    <2> QED BY <1>10, <2>1, <2>2 DEF PostFits
  <1>12. Bare(e, a.post)
    BY <1>2, <1>5 DEF Bare
  <1>13. UndoFits(k, e, left)
    BY <1>7, <1>10, <1>11, <1>12 DEF UndoFits
  <1>14. Fits(k, e, ui, left)
    BY <1>1, <1>7, <1>8, <1>10, <1>13, FitsOn
  <1> QED BY <1>6, <1>9, <1>14

\* The server refuses, or finds no such post.
LEMMA NotServed ==
  ASSUME NEW c, IsCall(c), ~c.back, Fits(c, db, ui, left),
         left.errors > 0 \/ ~ManualFound(c.op, c.arg)
  PROVE  Fits(Answer(c, Failure), db, ui, left)
  <1>1. PICK a : a = c.arg
    OBVIOUS
  <1>2. PICK k : k = Answer(c, Failure)
    OBVIOUS
  <1>3. k.op = c.op /\ k.arg = a /\ ~k.out.ok
    <2>1. PICK o : o = Failure
      OBVIOUS
    <2>2. ~o.ok
      BY <2>1, OutcomeIs
    <2> QED BY <1>1, <1>2, <2>1, <2>2, AnswerIs
  <1>4. c.op = "makePost" => MadeFits(k, db)
    BY <1>1, <1>3 DEF Fits, MadeFits
  <1>5. PostFits(c, db) => PostFits(k, db)
    BY <1>1, <1>3 DEF PostFits
  <1>6. c.op = "attachPost" => AttachFits(k, db, left)
    BY <1>1, <1>3, <1>5 DEF Fits, AttachFits
  <1>7. ASSUME c.op = "undoPost"
        PROVE  UndoFits(k, db, left)
    <2>1. UndoFits(c, db, left)
      BY <1>7 DEF Fits
    <2>2. Bare(db, a.post)
      <3>1. CASE left.errors > 0
        BY <1>1, <2>1, <3>1 DEF UndoFits
      <3>2. CASE ~ManualFound(c.op, c.arg)
        BY <1>1, <1>7, <3>2 DEF ManualFound, Bare
      <3> QED BY <3>1, <3>2
    <2> QED BY <1>1, <1>3, <1>5, <2>1, <2>2 DEF UndoFits
  <1>8. Fits(k, db, ui, left)
    BY <1>1, <1>3, <1>4, <1>6, <1>7, FitsOn
  <1> QED BY <1>2, <1>8

\* An answer reaches the page, and the server may have changed meanwhile.
LEMMA AnswerStep ==
  ASSUME ManualInv(net, db, ui, left), NEW i \in Slots, IsOpen(net, i), net[i].op \in PostOps,
         NEW out, out = Failure \/ out = Success(out.body),
         Held(db'), Fits(Answer(net[i], out), db', ui, left),
         net' = ComeBack(net, i, out), ui' = ui,
         left' \in Setting, left'.patient = left.patient,
         left'.errors <= left.errors, left'.lost <= left.lost
  PROVE  ManualInv(net', db', ui', left')
  <1>1. left \in Setting /\ AllFit(net, db, ui, left) /\ Calls(net)
    BY DEF ManualInv, AllFit
  <1>2. /\ left'.errors > 0 => left.errors > 0
        /\ left'.errors = 0 \/ left'.lost = 0
    BY <1>1 DEF Setting, ManualInv
  <1>3. PICK k : k = Answer(net[i], out)
    OBVIOUS
  <1>4. Changed(net, net', i, k) /\ IsCall(net[i])
    BY <1>1, <1>3, ComeBackChanges
  <1>5. k.op = net[i].op
    BY <1>3, <1>4, AnswerIs
  <1>6. Fits(k, db', ui, left')
    BY <1>2, <1>3, FitsSame
  <1>7. AllFit(net', db', ui, left') /\ ~NoPostCall(net')
    BY <1>1, <1>4, <1>5, <1>6, PostChanged
  <1>8. ui.submitting
    BY ManualPostIs
  <1> QED BY <1>2, <1>7, <1>8 DEF ManualInv

LEMMA OtherAnswer ==
  ASSUME ManualInv(net, db, ui, left), NEW i \in Slots, IsOpen(net, i), net[i].op \notin PostOps,
         NEW out, out = Failure \/ out = Success(out.body),
         net' = ComeBack(net, i, out), ui' = ui, db' = db,
         left' \in Setting, left'.patient = left.patient,
         left'.errors <= left.errors, left'.lost <= left.lost
  PROVE  ManualInv(net', db', ui', left')
  <1>1. left \in Setting /\ AllFit(net, db, ui, left) /\ Calls(net)
    BY DEF ManualInv, AllFit
  <1>2. /\ left'.errors > 0 => left.errors > 0
        /\ left'.errors = 0 \/ left'.lost = 0
    BY <1>1 DEF Setting, ManualInv
  <1>3. PICK k : k = Answer(net[i], out)
    OBVIOUS
  <1>4. Changed(net, net', i, k) /\ IsCall(net[i])
    BY <1>1, <1>3, ComeBackChanges
  <1>5. k.op = net[i].op
    BY <1>3, <1>4, AnswerIs
  <1>6. AllFit(net', db, ui, left) /\ (NoPostCall(net) => NoPostCall(net'))
    BY <1>1, <1>4, <1>5, OtherChanged
  <1>7. AllFit(net', db', ui', left')
    BY <1>2, <1>6, AllFitSame
  <1> QED BY <1>2, <1>6, <1>7 DEF ManualInv

LEMMA ServeLess ==
  ASSUME left \in Setting, NEW i, NEW found, NEW body, NEW after,
         Serve(i, found, body, after) \/ Refuse(i)
  PROVE  /\ left' \in Setting /\ left'.patient = left.patient
         /\ left'.errors <= left.errors /\ left'.lost <= left.lost
  <1>1. \/ left' = left
        \/ left.lost > 0 /\ left' = [left EXCEPT !.lost = @ - 1]
        \/ left.errors > 0 /\ left' = [left EXCEPT !.errors = @ - 1]
    BY DEF Serve, Refuse
  <1> QED BY <1>1 DEF Setting

LEMMA ManualRefused ==
  ASSUME ManualInv(net, db, ui, left), NEW i \in Slots, Refuse(i)
  PROVE  ManualInv(net', db', ui', left')
  <1>1. /\ IsOpen(net, i) /\ left.errors > 0 /\ net' = ComeBack(net, i, Failure)
        /\ ui' = ui /\ db' = db
    BY DEF Refuse
  <1>2. /\ left' \in Setting /\ left'.patient = left.patient
        /\ left'.errors <= left.errors /\ left'.lost <= left.lost
    BY ServeLess DEF ManualInv
  <1>3. CASE net[i].op \in PostOps
    <2>1. Fits(net[i], db, ui, left) /\ IsCall(net[i]) /\ ~net[i].back /\ Held(db)
      BY <1>1, <1>3, ManualPostIs DEF ManualInv, IsOpen
    <2>2. Fits(Answer(net[i], Failure), db, ui, left)
      BY <1>1, <2>1, NotServed
    <2> QED BY <1>1, <1>2, <1>3, <2>1, <2>2, AnswerStep
  <1>4. CASE net[i].op \notin PostOps
    BY <1>1, <1>2, <1>4, OtherAnswer
  <1> QED BY <1>3, <1>4

LEMMA ManualServedStep ==
  ASSUME ManualInv(net, db, ui, left), NEW i \in Slots, ManualServed(i)
  PROVE  ManualInv(net', db', ui', left')
  <1>1. PICK c : c = net[i]
    OBVIOUS
  <1>2. PICK after : after = ManualAfter(c.op, c.arg)
    OBVIOUS
  <1>3. PICK body : body = ManualBody(c.op, c.arg)
    OBVIOUS
  <1>4. PICK found \in BOOLEAN : found = ManualFound(c.op, c.arg)
    BY DEF ManualFound
  <1>5. Serve(i, found, body, after)
    BY <1>1, <1>2, <1>3, <1>4 DEF ManualServed
  <1>6. /\ left' \in Setting /\ left'.patient = left.patient
        /\ left'.errors <= left.errors /\ left'.lost <= left.lost
    BY <1>5, ServeLess DEF ManualInv
  <1>7. PICK out : /\ net' = ComeBack(net, i, out)
                   /\ \/ out = IF found THEN Success(body) ELSE Failure
                      \/ out = Failure /\ left.lost > 0 /\ found
    BY <1>5 DEF Serve
  <1>8. IsOpen(net, i) /\ ui' = ui /\ db' = IF found THEN after ELSE db
    BY <1>5 DEF Serve
  <1>9. \A b : Success(b).body = b
    BY OutcomeIs
  <1>10. (out = Failure \/ out = Success(body)) /\ (out = Failure \/ out = Success(out.body))
    BY <1>7, <1>9
  <1>11. CASE c.op \notin PostOps
    <2>1. after = db
      BY <1>2, <1>11 DEF ManualAfter, PostOps
    <2> QED BY <1>1, <1>6, <1>7, <1>8, <1>10, <1>11, <2>1, OtherAnswer
  <1>12. CASE c.op \in PostOps
    <2>1. Fits(c, db, ui, left) /\ IsCall(c) /\ ~c.back /\ Held(db)
      BY <1>1, <1>8, <1>12, ManualPostIs DEF ManualInv, IsOpen
    <2>2. Held(db') /\ Fits(Answer(c, out), db', ui, left)
      <3>1. CASE ~found
        <4>1. out = Failure /\ db' = db
          BY <1>7, <1>8, <3>1
        <4> QED BY <1>4, <2>1, <3>1, <4>1, NotServed
      <3>2. CASE found /\ c.op = "makePost"
        <4>1. body = db.next
          BY <1>3, <3>2 DEF ManualBody
        <4> QED BY <1>2, <1>8, <1>10, <2>1, <3>2, <4>1, MakeServed
      <3>3. CASE found /\ c.op = "attachPost"
        <4>1. \E p \in db.posts : p.id = c.arg.post
          BY <1>4, <3>3 DEF ManualFound
        <4>2. (out = Failure /\ left.errors = 0) \/ out = Success(out.body)
          BY <1>7, <1>9, <3>3 DEF ManualInv, Setting
        <4> QED BY <1>2, <1>8, <2>1, <3>3, <4>1, <4>2, AttachServed
      <3>4. CASE found /\ c.op = "undoPost"
        BY <1>2, <1>8, <1>10, <2>1, <3>4, UndoServed
      <3> QED BY <1>12, <3>1, <3>2, <3>3, <3>4 DEF PostOps
    <2> QED BY <1>1, <1>6, <1>7, <1>8, <1>10, <1>12, <2>2, AnswerStep
  <1> QED BY <1>11, <1>12

-----------------------------------------------------------------------------
LEMMA ManualStep ==
  ASSUME ManualInv(net, db, ui, left), [ManualNext]_vars
  PROVE  ManualInv(net', db', ui', left')
  <1>1. CASE ManualUser
    <2>1. CASE ChooseMode \/ FillForm
      BY <2>1, PlainStep
    <2>2. CASE SubmitPost
      BY <2>2, SubmitStep
    <2>3. ASSUME NEW S \in SUBSET Files, PickPostFiles(S)
          PROVE  ManualInv(net', db', ui', left')
      BY <2>3, PickStep
    <2>4. ASSUME NEW f \in Files, DropFile(f)
          PROVE  ManualInv(net', db', ui', left')
      BY <2>4, DropStep
    <2> QED BY <1>1, <2>1, <2>2, <2>3, <2>4 DEF ManualUser
  <1>2. ASSUME NEW i \in Slots, ManualServed(i)
        PROVE  ManualInv(net', db', ui', left')
    BY <1>2, ManualServedStep
  <1>3. ASSUME NEW i \in Slots, Refuse(i)
        PROVE  ManualInv(net', db', ui', left')
    BY <1>3, ManualRefused
  <1>4. ASSUME NEW i \in Slots, ManualAnswered(i)
        PROVE  ManualInv(net', db', ui', left')
    <2>1. CASE OnOptions(i)
      BY <2>1, OptionsStep
    <2>2. CASE OnPostMade(i)
      BY <2>2, MadeStep
    <2>3. CASE OnNotMade(i)
      BY <2>3, NotMadeStep
    <2>4. CASE OnFilesAttached(i)
      BY <2>4, AttachedStep
    <2>5. CASE OnFilesRefused(i)
      BY <2>5, RefusedStep
    <2>6. CASE OnPostUndone(i)
      BY <2>6, UndoneStep
    <2> QED BY <1>4, <2>1, <2>2, <2>3, <2>4, <2>5, <2>6 DEF ManualAnswered
  <1>5. CASE UNCHANGED vars
    BY <1>5 DEF vars
  <1> QED BY <1>1, <1>2, <1>3, <1>4, <1>5 DEF ManualNext

LEMMA PostedOnce ==
  ASSUME ManualInv(net, db, ui, left)
  PROVE  FilesPostedOnce
  <1>1. ASSUME NEW f \in Files
        PROVE  Cardinality({p \in db.posts : p.split /\ f \in p.files}) <= 1
    <2> DEFINE T == {p \in db.posts : p.split /\ f \in p.files}
    <2>1. \A p, q \in T : p = q
      BY DEF ManualInv, Held
    <2> HIDE DEF T
    <2>2. Cardinality(T) <= 1
      <3>1. CASE T = {}
        BY <3>1, FS_EmptySet
      <3>2. CASE T # {}
        <4>1. PICK p \in T : TRUE
          BY <3>2
        <4>2. T = {p}
          BY <2>1, <4>1
        <4>3. Cardinality({p}) = 1
          BY FS_Singleton
        <4> QED BY <4>2, <4>3
      <3> QED BY <3>1, <3>2
    <2> QED BY <2>2 DEF T
  <1>2. ASSUME left.patient, ~ui.submitting
        PROVE  ui.picked \subseteq ToSet(ui.selected) \cup Posted
    <2>1. AllPosted(db, ui.picked \ ToSet(ui.selected))
      BY <1>2 DEF ManualInv, AllFit, Chosen, Kept
    <2> QED BY <2>1 DEF AllPosted, Posted
  <1> QED BY <1>1, <1>2 DEF FilesPostedOnce

\* A file that was chosen ends in one place (FilesPostedOnce), for any files and any
\* number of submissions: no file is in two posts made for one file, and for a user
\* who waits every file he picked is still chosen or is in a post, whatever part of a
\* submission failed. A behaviour has refused calls or lost answers, not both.
THEOREM EachFilePostedOnce == ManualSpec => []FilesPostedOnce
  <1>1. ManualInit => ManualInv(net, db, ui, left)
    BY ManualStarts
  <1>2. ManualInv(net, db, ui, left) /\ [ManualNext]_vars => ManualInv(net, db, ui, left)'
    BY ManualStep
  <1>3. ManualInv(net, db, ui, left) => FilesPostedOnce
    BY PostedOnce
  <1> QED BY <1>1, <1>2, <1>3, PTL DEF ManualSpec

-----------------------------------------------------------------------------
(* The media gallery. Two refused calls, or a lost answer, may leave a post without *)
(* its files: nobody knows of it, or its roll-back fails.                           *)

MediaInit ==
    /\ left \in Setting /\ left.errors <= 1 /\ left.lost = 0
    /\ \E kinds \in Seq(BOOLEAN) : MountMedia(kinds)

MediaSpec == MediaInit /\ [][MediaNext]_vars

PostRecord == [id : Nat, media : BOOLEAN, mine : BOOLEAN]

MediaPosts(d) ==
    /\ d \in [posts : Seq(PostRecord), next : Nat]
    /\ \A n \in DOMAIN d.posts : d.posts[n].id < d.next
    /\ \A m, n \in DOMAIN d.posts : d.posts[m].id = d.posts[n].id => m = n

NoPost(d, id) == \A p \in ToSet(d.posts) : p.id # id

\* What a call knows: a post is not attached to or rolled back in vain, but that a
\* refusal was the last one.
PostStands(c, d, errors) ==
    /\ c.op = "make" /\ c.back /\ c.out.ok => c.out.body \in Nat /\ c.out.body < d.next
    /\ c.op \in {"attach", "rollback"} => c.arg.id \in Nat /\ c.arg.id < d.next
    /\ c.op = "attach" /\ c.back /\ c.out.ok =>
          \A p \in ToSet(d.posts) : p.id = c.arg.id => p.media
    /\ (c.op = "attach" /\ c.back /\ ~c.out.ok) \/ c.op = "rollback" =>
          errors = 0 \/ NoPost(d, c.arg.id)
    /\ c.op = "rollback" /\ c.back => NoPost(d, c.arg.id)

PostsStand(n, d, errors) == \A i \in Slots : PostStands(n[i], d, errors)

\* The call that will give the post its files, or delete it.
CaresFor(c, id) ==
    \/ c.op = "make" /\ c.back /\ c.out.ok /\ c.out.body = id
    \/ c.op = "attach" /\ c.arg.id = id /\ (c.back => ~c.out.ok)
    \/ c.op = "rollback" /\ c.arg.id = id /\ ~c.back
CaredFor(n, id) == \E i \in Slots : CaresFor(n[i], id)
NoneForgotten(n, d) == \A p \in ToSet(d.posts) : p.mine /\ ~p.media => CaredFor(n, p.id)

MediaInv ==
    /\ Calls(net)
    /\ left \in Setting /\ left.errors <= 1 /\ left.lost = 0
    /\ MediaPosts(db) /\ PostsStand(net, db, left.errors) /\ NoneForgotten(net, db)

\* What the posts may become: those that stay keep their number, who made them, and
\* their files.
PostsFollow(d, e) ==
    /\ MediaPosts(e) /\ e.next >= d.next
    /\ \A p \in ToSet(e.posts) : p.id < d.next =>
          \E q \in ToSet(d.posts) : q.id = p.id /\ q.mine = p.mine /\ (q.media => p.media)

LEMMA RemoveAtIs ==
  ASSUME NEW S, NEW s \in Seq(S), NEW k \in 1 .. Len(s)
  PROVE  /\ RemoveAt(s, k) \in Seq(S)
         /\ Len(RemoveAt(s, k)) = Len(s) - 1
         /\ \A m \in 1 .. Len(s) - 1 : RemoveAt(s, k)[m] = IF m < k THEN s[m] ELSE s[m + 1]
  <1> DEFINE a == SubSeq(s, 1, k - 1)
             b == SubSeq(s, k + 1, Len(s))
  <1>1. Len(s) \in Nat /\ k \in Int /\ 1 <= k /\ k <= Len(s)
    BY LenProperties
  <1>2. a \in Seq(S) /\ Len(a) = k - 1 /\ \A m \in 1 .. k - 1 : a[m] = s[m]
    BY <1>1, SubSeqProperties
  <1>3. b \in Seq(S) /\ Len(b) = Len(s) - k /\ \A m \in 1 .. Len(s) - k : b[m] = s[k + m]
    BY <1>1, SubSeqProperties
  <1>4. RemoveAt(s, k) = a \o b
    BY DEF RemoveAt
  <1> HIDE DEF a, b
  <1>5. /\ a \o b \in Seq(S) /\ Len(a \o b) = Len(s) - 1
        /\ \A m \in 1 .. Len(a) + Len(b) : (a \o b)[m] = IF m <= Len(a) THEN a[m] ELSE b[m - Len(a)]
    <2>1. /\ a \o b \in Seq(S) /\ Len(a \o b) = Len(a) + Len(b)
          /\ \A m \in 1 .. Len(a) + Len(b) : (a \o b)[m] = IF m <= Len(a) THEN a[m] ELSE b[m - Len(a)]
      BY <1>2, <1>3, ConcatProperties
    <2>2. Len(a) + Len(b) = Len(s) - 1
      BY <1>1, <1>2, <1>3
    <2> QED BY <2>1, <2>2
  <1>6. ASSUME NEW m \in 1 .. Len(s) - 1
        PROVE  (a \o b)[m] = IF m < k THEN s[m] ELSE s[m + 1]
    <2>1. m \in 1 .. Len(a) + Len(b)
      BY <1>1, <1>2, <1>3
    <2>2. CASE m < k
      BY <1>1, <1>2, <1>5, <2>1, <2>2
    <2>3. CASE ~(m < k)
      <3>1. m - Len(a) \in 1 .. Len(s) - k /\ k + (m - Len(a)) = m + 1 /\ ~(m <= Len(a))
        BY <1>1, <1>2, <2>3
      <3>2. b[m - Len(a)] = s[k + (m - Len(a))]
        BY <1>3, <3>1
      <3> QED BY <1>5, <2>1, <2>3, <3>1, <3>2
    <2> QED BY <2>2, <2>3
  <1> QED BY <1>4, <1>5, <1>6

LEMMA SetIs ==
  ASSUME NEW s
  PROVE  \A x : x \in ToSet(s) <=> \E n \in DOMAIN s : s[n] = x
  BY DEF ToSet

LEMMA HasIs ==
  ASSUME NEW d, NEW id
  PROVE  Has(d.posts, id) <=> ~NoPost(d, id)
  BY SetIs DEF Has, NoPost

LEMMA WithoutIs ==
  ASSUME NEW d, MediaPosts(d), NEW id
  PROVE  LET s == Without(d.posts, id)
         IN  /\ s \in Seq(PostRecord) /\ DOMAIN s = 1 .. Len(s)
             /\ \A x : x \in ToSet(s) <=> x \in ToSet(d.posts) /\ x.id # id
             /\ \A m, n \in DOMAIN s : s[m].id = s[n].id => m = n
  <1> DEFINE posts == d.posts
             s == Without(posts, id)
             k == PlaceOf(posts, id)
  <1>1. posts \in Seq(PostRecord) /\ DOMAIN posts = 1 .. Len(posts) /\ Len(posts) \in Nat
    BY LenProperties DEF MediaPosts
  <1>2. CASE ~Has(posts, id)
    <2>1. s = posts
      BY <1>2 DEF Without
    <2>2. \A x \in ToSet(posts) : x.id # id
      BY <1>2, SetIs DEF Has
    <2> QED BY <1>1, <2>1, <2>2 DEF MediaPosts
  <1>3. CASE Has(posts, id)
    <2>1. k \in 1 .. Len(posts) /\ posts[k].id = id
      BY <1>1, <1>3 DEF Has, PlaceOf
    <2>2. s = RemoveAt(posts, k)
      BY <1>3 DEF Without
    <2> HIDE DEF s, k
    <2>3. /\ s \in Seq(PostRecord) /\ Len(s) = Len(posts) - 1
          /\ \A m \in 1 .. Len(posts) - 1 : s[m] = IF m < k THEN posts[m] ELSE posts[m + 1]
      BY <1>1, <2>1, <2>2, RemoveAtIs
    <2>4. DOMAIN s = 1 .. Len(posts) - 1
      BY <2>3, LenProperties
    <2>5. \A m, n \in 1 .. Len(posts) : posts[m].id = posts[n].id => m = n
      BY <1>1 DEF MediaPosts
    <2>6. ASSUME NEW m \in 1 .. Len(posts) - 1
          PROVE  \E j \in 1 .. Len(posts) \ {k} : s[m] = posts[j] /\ j = (IF m < k THEN m ELSE m + 1)
      BY <1>1, <2>1, <2>3
    <2>7. ASSUME NEW j \in 1 .. Len(posts) \ {k}
          PROVE  \E m \in 1 .. Len(posts) - 1 : s[m] = posts[j]
      <3>1. CASE j < k
        <4>1. j \in 1 .. Len(posts) - 1
          BY <1>1, <2>1, <3>1
        <4> QED BY <2>3, <3>1, <4>1
      <3>2. CASE ~(j < k)
        <4>1. j - 1 \in 1 .. Len(posts) - 1 /\ ~(j - 1 < k) /\ (j - 1) + 1 = j
          BY <1>1, <2>1, <3>2
        <4>2. s[j - 1] = posts[j]
          BY <2>3, <4>1
        <4> QED BY <4>1, <4>2
      <3> QED BY <3>1, <3>2
    <2>8. \A x : x \in ToSet(s) <=> x \in ToSet(posts) /\ x.id # id
      <3>1. ASSUME NEW x, x \in ToSet(s)
            PROVE  x \in ToSet(posts) /\ x.id # id
        <4>1. PICK m \in 1 .. Len(posts) - 1 : s[m] = x
          BY <2>4, <3>1, SetIs
        <4>2. PICK j \in 1 .. Len(posts) \ {k} : s[m] = posts[j]
          BY <2>6
        <4>3. posts[j].id # id
          BY <2>1, <2>5
        <4> QED BY <1>1, <4>1, <4>2, <4>3, SetIs
      <3>2. ASSUME NEW x, x \in ToSet(posts), x.id # id
            PROVE  x \in ToSet(s)
        <4>1. PICK j \in 1 .. Len(posts) : posts[j] = x
          BY <1>1, <3>2, SetIs
        <4>2. j # k
          BY <2>1, <3>2, <4>1
        <4>3. PICK m \in 1 .. Len(posts) - 1 : s[m] = posts[j]
          BY <2>7, <4>2
        <4> QED BY <2>4, <4>1, <4>3, SetIs
      <3> QED BY <3>1, <3>2
    <2>9. ASSUME NEW m \in DOMAIN s, NEW n \in DOMAIN s, s[m].id = s[n].id
          PROVE  m = n
      <3>1. PICK i \in 1 .. Len(posts) \ {k} : s[m] = posts[i] /\ i = (IF m < k THEN m ELSE m + 1)
        BY <2>4, <2>6
      <3>2. PICK j \in 1 .. Len(posts) \ {k} : s[n] = posts[j] /\ j = (IF n < k THEN n ELSE n + 1)
        BY <2>4, <2>6
      <3>3. i = j
        BY <2>5, <2>9, <3>1, <3>2
      <3>4. m \in Int /\ n \in Int /\ k \in Int
        BY <1>1, <2>1, <2>4
      <3> QED BY <3>1, <3>2, <3>3, <3>4
    <2>10. DOMAIN s = 1 .. Len(s)
      BY <2>3, <2>4
    <2> QED BY <2>3, <2>8, <2>9, <2>10 DEF s
  <1> QED BY <1>2, <1>3

\* A post put before the others.
LEMMA FrontIs ==
  ASSUME NEW posts \in Seq(PostRecord), NEW p \in PostRecord,
         \A m, n \in DOMAIN posts : posts[m].id = posts[n].id => m = n,
         \A x \in ToSet(posts) : x.id # p.id
  PROVE  LET s == <<p>> \o posts
         IN  /\ s \in Seq(PostRecord)
             /\ \A x : x \in ToSet(s) <=> x = p \/ x \in ToSet(posts)
             /\ \A m, n \in DOMAIN s : s[m].id = s[n].id => m = n
  <1> DEFINE s == <<p>> \o posts
  <1>1. <<p>> \in Seq(PostRecord) /\ Len(<<p>>) = 1 /\ <<p>>[1] = p
    OBVIOUS
  <1>2. Len(posts) \in Nat /\ DOMAIN posts = 1 .. Len(posts)
    BY LenProperties
  <1>3. /\ s \in Seq(PostRecord) /\ Len(s) = 1 + Len(posts)
        /\ \A i \in 1 .. 1 + Len(posts) : s[i] = IF i <= 1 THEN <<p>>[i] ELSE posts[i - 1]
    BY <1>1, ConcatProperties
  <1> HIDE DEF s
  <1>4. DOMAIN s = 1 .. 1 + Len(posts)
    BY <1>3, LenProperties
  <1>5. s[1] = p
    BY <1>1, <1>2, <1>3
  <1>6. ASSUME NEW i \in DOMAIN posts
        PROVE  i + 1 \in DOMAIN s /\ s[i + 1] = posts[i]
    <2>1. i + 1 \in 1 .. 1 + Len(posts) /\ ~(i + 1 <= 1) /\ (i + 1) - 1 = i
      BY <1>2
    <2> QED BY <1>3, <1>4, <2>1
  <1>7. ASSUME NEW i \in DOMAIN s, i # 1
        PROVE  i - 1 \in DOMAIN posts /\ s[i] = posts[i - 1]
    <2>1. i - 1 \in DOMAIN posts /\ i \in 1 .. 1 + Len(posts) /\ ~(i <= 1)
      BY <1>2, <1>4, <1>7
    <2> QED BY <1>3, <2>1
  <1>8. 1 \in DOMAIN s
    BY <1>2, <1>4
  <1>9. ASSUME NEW x
        PROVE  x \in ToSet(s) <=> x = p \/ x \in ToSet(posts)
    <2>1. x \in ToSet(s) => x = p \/ x \in ToSet(posts)
      BY <1>5, <1>7, SetIs
    <2>2. x = p => x \in ToSet(s)
      BY <1>5, <1>8, SetIs
    <2>3. x \in ToSet(posts) => x \in ToSet(s)
      BY <1>6, SetIs
    <2> QED BY <2>1, <2>2, <2>3
  <1>10. ASSUME NEW m \in DOMAIN s, NEW n \in DOMAIN s, s[m].id = s[n].id
         PROVE  m = n
    <2>1. ASSUME NEW k \in DOMAIN s, k # 1
          PROVE  s[k].id # p.id
      BY <1>7, <2>1, SetIs
    <2>2. CASE m = 1 \/ n = 1
      BY <1>5, <1>10, <2>1, <2>2
    <2>3. CASE m # 1 /\ n # 1
      <3>1. m - 1 = n - 1
        BY <1>7, <1>10, <2>3
      <3> QED BY <1>4, <3>1
    <2> QED BY <2>2, <2>3
  <1> QED BY <1>3, <1>9, <1>10 DEF s

LEMMA PostsAre ==
  ASSUME NEW d
  PROVE  MediaPosts(d) <=>
           /\ d \in [posts : Seq(PostRecord), next : Nat]
           /\ \A p \in ToSet(d.posts) : p.id < d.next
           /\ \A m, n \in DOMAIN d.posts : d.posts[m].id = d.posts[n].id => m = n
  BY SetIs DEF MediaPosts

LEMMA PostIs ==
  ASSUME NEW d, MediaPosts(d), NEW p \in ToSet(d.posts)
  PROVE  p \in PostRecord /\ p.id \in Nat /\ p.media \in BOOLEAN /\ p.mine \in BOOLEAN
         /\ p.id < d.next
  <1>1. d.posts \in Seq(PostRecord) /\ p.id < d.next
    BY PostsAre
  <1>2. PICK n \in DOMAIN d.posts : d.posts[n] = p
    BY SetIs
  <1>3. p \in PostRecord
    BY <1>1, <1>2, ElementOfSeq, LenProperties
  <1> QED BY <1>1, <1>3 DEF PostRecord

\* The same posts, each once, in another order.
LEMMA PostsReplaced ==
  ASSUME NEW d, MediaPosts(d), NEW s \in Seq(PostRecord),
         \A m, n \in DOMAIN s : s[m].id = s[n].id => m = n,
         \A x \in ToSet(s) : x \in ToSet(d.posts)
  PROVE  PostsFollow(d, [d EXCEPT !.posts = s])
  <1> DEFINE e == [d EXCEPT !.posts = s]
  <1>1. e \in [posts : Seq(PostRecord), next : Nat] /\ e.posts = s /\ e.next = d.next /\ d.next \in Nat
    BY DEF MediaPosts
  <1> HIDE DEF e
  <1>2. MediaPosts(e)
    BY <1>1, PostsAre
  <1>3. PostsFollow(d, e)
    BY <1>1, <1>2 DEF PostsFollow
  <1> QED BY <1>3 DEF e

LEMMA PostRemoved ==
  ASSUME NEW d, MediaPosts(d), NEW id, NEW e, e = [d EXCEPT !.posts = Without(@, id)]
  PROVE  PostsFollow(d, e) /\ e.next = d.next /\ NoPost(e, id)
  <1>1. PICK s : s = Without(d.posts, id)
    OBVIOUS
  <1>2. /\ s \in Seq(PostRecord)
        /\ \A x : x \in ToSet(s) <=> x \in ToSet(d.posts) /\ x.id # id
        /\ \A m, n \in DOMAIN s : s[m].id = s[n].id => m = n
    BY ZenonT(60), <1>1, WithoutIs
  <1>3. e = [d EXCEPT !.posts = s]
    BY <1>1
  <1>4. e.posts = s /\ e.next = d.next
    BY <1>3 DEF MediaPosts
  <1> QED BY <1>2, <1>3, <1>4, PostsReplaced DEF NoPost

LEMMA PostPatched ==
  ASSUME NEW d, MediaPosts(d), NEW id, Has(d.posts, id), NEW e,
         e = [d EXCEPT !.posts = <<@[PlaceOf(@, id)]>> \o Without(@, id)]
  PROVE  PostsFollow(d, e) /\ e.next = d.next
  <1>1. PICK s : s = Without(d.posts, id)
    OBVIOUS
  <1>2. /\ s \in Seq(PostRecord)
        /\ \A x : x \in ToSet(s) <=> x \in ToSet(d.posts) /\ x.id # id
        /\ \A m, n \in DOMAIN s : s[m].id = s[n].id => m = n
    BY ZenonT(60), <1>1, WithoutIs
  <1>3. PICK p : p = d.posts[PlaceOf(d.posts, id)]
    OBVIOUS
  <1>4. PlaceOf(d.posts, id) \in DOMAIN d.posts /\ p.id = id
    BY <1>3 DEF Has, PlaceOf
  <1>5. p \in ToSet(d.posts)
    BY <1>3, <1>4, SetIs
  <1>6. p \in PostRecord
    BY <1>5, PostIs
  <1>7. PICK t : t = <<p>> \o s
    OBVIOUS
  <1>8. e = [d EXCEPT !.posts = t]
    BY <1>1, <1>3, <1>7
  <1>9. /\ t \in Seq(PostRecord)
        /\ \A x : x \in ToSet(t) <=> x = p \/ x \in ToSet(s)
        /\ \A m, n \in DOMAIN t : t[m].id = t[n].id => m = n
    BY <1>2, <1>4, <1>6, <1>7, FrontIs
  <1>10. e.next = d.next
    BY <1>8 DEF MediaPosts
  <1>11. \A x \in ToSet(t) : x \in ToSet(d.posts)
    BY <1>2, <1>5, <1>9
  <1>12. PostsFollow(d, [d EXCEPT !.posts = t])
    BY <1>9, <1>11, PostsReplaced
  <1> QED BY <1>8, <1>10, <1>12

LEMMA PostMade ==
  ASSUME NEW d, MediaPosts(d), NEW media \in BOOLEAN, NEW mine \in BOOLEAN, NEW e,
         e = [d EXCEPT !.posts = <<Post(d.next, media, mine)>> \o @, !.next = @ + 1]
  PROVE  /\ PostsFollow(d, e) /\ e.next = d.next + 1
         /\ \A p \in ToSet(e.posts) : p.id >= d.next => p.id = d.next /\ p.mine = mine
  <1>1. PICK p : p = Post(d.next, media, mine)
    OBVIOUS
  <1>2. d.posts \in Seq(PostRecord) /\ d.next \in Nat
    BY DEF MediaPosts
  <1>3. p \in PostRecord /\ p.id = d.next /\ p.mine = mine
    BY <1>1, <1>2 DEF Post, PostRecord
  <1>4. \A x \in ToSet(d.posts) : x.id \in Nat /\ x.id < d.next
    BY PostIs
  <1>5. PICK s : s = <<p>> \o d.posts
    OBVIOUS
  <1>6. \A m, n \in DOMAIN d.posts : d.posts[m].id = d.posts[n].id => m = n
    BY PostsAre
  <1>7. \A x \in ToSet(d.posts) : x.id # p.id
    BY <1>2, <1>3, <1>4
  <1>8. /\ s \in Seq(PostRecord)
        /\ \A x : x \in ToSet(s) <=> x = p \/ x \in ToSet(d.posts)
        /\ \A m, n \in DOMAIN s : s[m].id = s[n].id => m = n
    BY <1>2, <1>3, <1>5, <1>6, <1>7, FrontIs
  <1>9. e = [d EXCEPT !.posts = s, !.next = d.next + 1]
    BY <1>1, <1>5
  <1>10. e \in [posts : Seq(PostRecord), next : Nat] /\ e.posts = s /\ e.next = d.next + 1
    <2>1. d = [posts |-> d.posts, next |-> d.next]
      BY DEF MediaPosts
    <2>2. e = [posts |-> s, next |-> d.next + 1]
      BY <1>9, <2>1
    <2>3. s \in Seq(PostRecord) /\ d.next + 1 \in Nat
      BY <1>2, <1>8
    <2> QED BY ONLY <2>2, <2>3
  <1>11. \A x \in ToSet(s) : x.id < d.next + 1 /\ (x = p \/ x \in ToSet(d.posts))
    BY <1>2, <1>3, <1>4, <1>8
  <1>12. MediaPosts(e)
    <2>1. \A x \in ToSet(e.posts) : x.id < e.next
      BY <1>10, <1>11
    <2>2. \A m, n \in DOMAIN e.posts : e.posts[m].id = e.posts[n].id => m = n
      BY <1>8, <1>10
    <2> QED BY ONLY <1>10, <2>1, <2>2, PostsAre
  <1>13. ASSUME NEW x \in ToSet(e.posts)
         PROVE  /\ x.id < d.next => x \in ToSet(d.posts)
                /\ x.id >= d.next => x.id = d.next /\ x.mine = mine
    <2>1. x = p \/ x \in ToSet(d.posts)
      BY <1>10, <1>11
    <2>2. CASE x = p
      BY <1>2, <1>3, <2>2
    <2>3. CASE x \in ToSet(d.posts)
      <3>1. x.id \in Nat /\ x.id < d.next
        BY <1>4, <2>3
      <3> QED BY <1>2, <2>3, <3>1
    <2> QED BY <2>1, <2>2, <2>3
  <1>14. PostsFollow(d, e)
    BY <1>2, <1>10, <1>12, <1>13 DEF PostsFollow
  <1> QED BY <1>10, <1>13, <1>14

LEMMA PostAttached ==
  ASSUME NEW d, MediaPosts(d), NEW id, NEW e,
         e = [d EXCEPT !.posts = [n \in DOMAIN @ |-> IF @[n].id = id
                                                     THEN [@[n] EXCEPT !.media = TRUE] ELSE @[n]]]
  PROVE  /\ PostsFollow(d, e) /\ e.next = d.next
         /\ \A p \in ToSet(e.posts) : p.id = id => p.media
  <1> DEFINE q(n) == IF d.posts[n].id = id THEN [d.posts[n] EXCEPT !.media = TRUE] ELSE d.posts[n]
             s == [n \in DOMAIN d.posts |-> q(n)]
  <1>1. d.posts \in Seq(PostRecord) /\ d.next \in Nat
    BY DEF MediaPosts
  <1>2. Len(d.posts) \in Nat /\ DOMAIN d.posts = 1 .. Len(d.posts)
        /\ \A n \in DOMAIN d.posts : d.posts[n] \in PostRecord
    BY <1>1, LenProperties, ElementOfSeq
  <1>3. ASSUME NEW n \in DOMAIN d.posts
        PROVE  /\ q(n) \in PostRecord /\ q(n).id = d.posts[n].id /\ q(n).mine = d.posts[n].mine
               /\ d.posts[n].media => q(n).media
               /\ q(n).id = id => q(n).media
    BY <1>2 DEF PostRecord
  <1> HIDE DEF q
  <1>4. s \in Seq(PostRecord)
    <2>1. s \in [1 .. Len(d.posts) -> PostRecord]
      BY <1>2, <1>3
    <2> QED BY <1>2, <2>1
  <1>5. DOMAIN s = DOMAIN d.posts /\ \A n \in DOMAIN d.posts : s[n] = q(n)
    OBVIOUS
  <1>6. e = [d EXCEPT !.posts = s]
    BY DEF q
  <1> HIDE DEF s
  <1>7. e \in [posts : Seq(PostRecord), next : Nat] /\ e.posts = s /\ e.next = d.next
    BY <1>1, <1>4, <1>6 DEF MediaPosts
  <1>8. ASSUME NEW p, p \in ToSet(s)
        PROVE  /\ p.id < d.next /\ (p.id = id => p.media)
               /\ \E x \in ToSet(d.posts) : x.id = p.id /\ x.mine = p.mine /\ (x.media => p.media)
    <2>1. PICK n \in DOMAIN d.posts : p = q(n)
      BY <1>5, <1>8, SetIs
    <2>2. d.posts[n] \in ToSet(d.posts)
      BY SetIs
    <2>3. d.posts[n].id < d.next
      BY <2>2, PostIs
    <2> QED BY <1>3, <2>1, <2>2, <2>3
  <1>9. \A m, n \in DOMAIN s : s[m].id = s[n].id => m = n
    <2>1. \A m, n \in DOMAIN d.posts : d.posts[m].id = d.posts[n].id => m = n
      BY PostsAre
    <2> QED BY <1>3, <1>5, <2>1
  <1>10. \A p \in ToSet(e.posts) :
            /\ p.id < e.next /\ (p.id = id => p.media)
            /\ \E x \in ToSet(d.posts) : x.id = p.id /\ x.mine = p.mine /\ (x.media => p.media)
    BY <1>7, <1>8
  <1>11. \A m, n \in DOMAIN e.posts : e.posts[m].id = e.posts[n].id => m = n
    <2>1. e.posts = s
      BY <1>7
    <2> QED BY ONLY <1>9, <2>1
  <1>12. MediaPosts(e)
    <2>1. \A x \in ToSet(e.posts) : x.id < e.next
      BY <1>10
    <2>2. e \in [posts : Seq(PostRecord), next : Nat]
      BY <1>7
    <2> QED BY ONLY <1>11, <2>1, <2>2, PostsAre
  <1>13. e.next >= d.next
    BY <1>1, <1>7
  <1>14. PostsFollow(d, e)
    BY <1>10, <1>12, <1>13 DEF PostsFollow
  <1> QED BY <1>7, <1>10, <1>14

LEMMA MediaAfterIs ==
  ASSUME MediaPosts(db), NEW op, NEW arg, MediaFound(op, arg), NEW e, e = MediaAfter(op, arg)
  PROVE  /\ PostsFollow(db, e)
         /\ op = "make" => e.next = db.next + 1 /\ MediaBody(op, arg) = db.next
         /\ op # "make" => e.next = db.next
         /\ op = "attach" => \A p \in ToSet(e.posts) : p.id = arg.id => p.media
         /\ op = "rollback" => NoPost(e, arg.id)
  <1>1. CASE op = "make"
    <2>1. e = [db EXCEPT !.posts = <<Post(db.next, FALSE, TRUE)>> \o @, !.next = @ + 1]
      BY <1>1 DEF MediaAfter
    <2>2. PostsFollow(db, e) /\ e.next = db.next + 1
      BY <2>1, PostMade
    <2> QED BY <1>1, <2>2 DEF MediaBody
  <1>2. CASE op = "attach"
    <2>1. e = [db EXCEPT !.posts = [n \in DOMAIN @ |-> IF @[n].id = arg.id
                                                       THEN [@[n] EXCEPT !.media = TRUE] ELSE @[n]]]
      BY <1>2 DEF MediaAfter
    <2> QED BY <1>2, <2>1, PostAttached
  <1>3. CASE op = "patch"
    <2>1. e = [db EXCEPT !.posts = <<@[PlaceOf(@, arg.id)]>> \o Without(@, arg.id)]
      BY <1>3 DEF MediaAfter
    <2>2. Has(db.posts, arg.id)
      BY <1>3 DEF MediaFound
    <2> QED BY <1>3, <2>1, <2>2, PostPatched
  <1>4. CASE op \in {"delete", "rollback"}
    <2>1. e = [db EXCEPT !.posts = Without(@, arg.id)]
      BY <1>4 DEF MediaAfter
    <2> QED BY <1>4, <2>1, PostRemoved
  <1>5. CASE op \notin {"make", "attach", "patch", "delete", "rollback"}
    <2>1. e = db
      BY <1>5 DEF MediaAfter
    <2>2. PostsFollow(db, db)
      BY DEF PostsFollow, MediaPosts
    <2> QED BY <1>5, <2>1, <2>2
  <1> QED BY <1>1, <1>2, <1>3, <1>4, <1>5

-----------------------------------------------------------------------------
(* The gallery's calls.                                                     *)

MediaHolds(n, d, errors) ==
    Calls(n) /\ MediaPosts(d) /\ PostsStand(n, d, errors) /\ NoneForgotten(n, d)

LEMMA MediaHoldsIs ==
  MediaInv <=> /\ left \in Setting /\ left.errors <= 1 /\ left.lost = 0
               /\ MediaHolds(net, db, left.errors)
  BY DEF MediaInv, MediaHolds

LEMMA PostsStay ==
  ASSUME NEW d, MediaPosts(d)
  PROVE  PostsFollow(d, d)
  BY DEF PostsFollow, MediaPosts

LEMMA GoneStays ==
  ASSUME NEW d, NEW e, MediaPosts(d), PostsFollow(d, e), NEW id, id < d.next, NoPost(d, id)
  PROVE  NoPost(e, id)
  BY DEF PostsFollow, NoPost

LEMMA StandsStill ==
  ASSUME NEW c, NEW d, NEW errors, PostStands(c, d, errors), MediaPosts(d),
         NEW e, PostsFollow(d, e), NEW after, errors = 0 => after = 0
  PROVE  PostStands(c, e, after)
  <1>1. d.next \in Nat /\ e.next \in Nat /\ e.next >= d.next
    BY DEF PostsFollow, MediaPosts
  <1>2. c.op = "make" /\ c.back /\ c.out.ok => c.out.body \in Nat /\ c.out.body < e.next
    BY <1>1 DEF PostStands
  <1>3. c.op \in {"attach", "rollback"} => c.arg.id \in Nat /\ c.arg.id < d.next
                                           /\ c.arg.id < e.next
    BY <1>1 DEF PostStands
  <1>4. ASSUME c.op = "attach", c.back, c.out.ok, NEW p \in ToSet(e.posts), p.id = c.arg.id
        PROVE  p.media
    <2>1. PICK q \in ToSet(d.posts) : q.id = p.id /\ (q.media => p.media)
      BY <1>3, <1>4 DEF PostsFollow
    <2> QED BY <1>4, <2>1 DEF PostStands
  <1>5. (c.op = "attach" /\ c.back /\ ~c.out.ok) \/ c.op = "rollback" =>
           after = 0 \/ NoPost(e, c.arg.id)
    BY <1>3, GoneStays DEF PostStands
  <1>6. c.op = "rollback" /\ c.back => NoPost(e, c.arg.id)
    BY <1>3, GoneStays DEF PostStands
  <1> QED BY <1>2, <1>3, <1>4, <1>5, <1>6 DEF PostStands

\* A call that has nothing to do with the upload.
LEMMA OthersStand ==
  ASSUME NEW c, c.op \notin {"make", "attach", "rollback"}
  PROVE  (\A d, errors : PostStands(c, d, errors)) /\ (\A id : ~CaresFor(c, id))
  BY DEF PostStands, CaresFor

LEMMA NoCallStands == (\A d, errors : PostStands(NoCall, d, errors)) /\ (\A id : ~CaresFor(NoCall, id))
  BY NoCallIs, OthersStand

\* The calls and the posts move on: each call that has changed stands, and what it
\* cared for is cared for.
LEMMA MediaMoves ==
  ASSUME NEW n, NEW d, NEW errors, MediaHolds(n, d, errors),
         NEW m, Calls(m), NEW e, PostsFollow(d, e), NEW after, errors = 0 => after = 0,
         \A j \in Slots : m[j] = n[j] \/ PostStands(m[j], e, after),
         \A p \in ToSet(e.posts) : p.mine /\ ~p.media =>
            /\ \A j \in Slots : m[j] # n[j] /\ CaresFor(n[j], p.id) => CaredFor(m, p.id)
            /\ p.id >= d.next => CaredFor(m, p.id)
  PROVE  MediaHolds(m, e, after)
  <1>1. MediaPosts(e) /\ MediaPosts(d)
    BY DEF PostsFollow, MediaHolds
  <1>2. ASSUME NEW j \in Slots
        PROVE  PostStands(m[j], e, after)
    <2>1. PostStands(n[j], d, errors)
      BY DEF MediaHolds, PostsStand
    <2>2. PostStands(n[j], e, after)
      BY <1>1, <2>1, StandsStill
    <2> QED BY <2>2
  <1>3. ASSUME NEW p \in ToSet(e.posts), p.mine, ~p.media
        PROVE  CaredFor(m, p.id)
    <2>1. p.id \in Nat /\ d.next \in Nat
      BY <1>1, PostIs DEF MediaPosts
    <2>2. CASE p.id >= d.next
      BY <1>3, <2>2
    <2>3. CASE p.id < d.next
      <3>1. PICK q \in ToSet(d.posts) : q.id = p.id /\ q.mine = p.mine /\ (q.media => p.media)
        BY <2>3 DEF PostsFollow
      <3>2. PICK j \in Slots : CaresFor(n[j], p.id)
        BY <1>3, <3>1 DEF MediaHolds, NoneForgotten, CaredFor
      <3>3. CASE m[j] = n[j]
        BY <3>2, <3>3 DEF CaredFor
      <3>4. CASE m[j] # n[j]
        BY <1>3, <3>2, <3>4
      <3> QED BY <3>3, <3>4
    <2> QED BY <2>1, <2>2, <2>3
  <1> QED BY <1>1, <1>2, <1>3 DEF MediaHolds, PostsStand, NoneForgotten

\* A handler that sends nothing, of a call that cared for nothing any more.
LEMMA MediaSettled ==
  ASSUME NEW n, NEW d, NEW errors, MediaHolds(n, d, errors), NEW i \in Slots,
         \A id : ~CaresFor(n[i], id)
  PROVE  MediaHolds(Settle(n, i), d, errors)
  <1>1. PICK m : m = Settle(n, i)
    OBVIOUS
  <1>2. Calls(m) /\ m[i] = NoCall /\ \A j \in Slots \ {i} : m[j] = n[j]
    BY <1>1, SettleChanges DEF MediaHolds, Changed
  <1>3. \A j \in Slots : m[j] = n[j] \/ PostStands(m[j], d, errors)
    BY <1>2, NoCallStands
  <1>4. PostsFollow(d, d)
    BY PostsStay DEF MediaHolds
  <1>5. \A p \in ToSet(d.posts) :
           /\ \A j \in Slots : m[j] # n[j] /\ CaresFor(n[j], p.id) => CaredFor(m, p.id)
           /\ ~(p.id >= d.next)
    <2>1. \A p \in ToSet(d.posts) : p.id \in Nat /\ d.next \in Nat /\ p.id < d.next
      BY PostIs DEF MediaHolds, MediaPosts
    <2> QED BY <1>2, <2>1
  <1>6. MediaHolds(m, d, errors)
    BY <1>2, <1>3, <1>4, <1>5, MediaMoves
  <1> QED BY <1>1, <1>6

\* A call is sent.
LEMMA MediaSent ==
  ASSUME NEW n, NEW d, NEW errors, MediaHolds(n, d, errors), FreeSlots(n) # {},
         NEW op, op # "none", NEW arg, PostStands(Fresh(op, arg), d, errors)
  PROVE  MediaHolds(Send(n, op, arg), d, errors)
  <1>1. PICK m : m = Send(n, op, arg)
    OBVIOUS
  <1>2. PICK k \in FreeSlots(n) : Changed(n, m, k, Fresh(op, arg))
    BY <1>1, SendChanges DEF MediaHolds
  <1>3. k \in Slots /\ n[k].op = "none"
    BY DEF FreeSlots
  <1>4. Calls(m) /\ m[k] = Fresh(op, arg) /\ \A j \in Slots \ {k} : m[j] = n[j]
    BY <1>2 DEF Changed
  <1>5. \A id : ~CaresFor(n[k], id)
    BY <1>3, OthersStand
  <1>6. \A j \in Slots : m[j] = n[j] \/ PostStands(m[j], d, errors)
    BY <1>4
  <1>7. PostsFollow(d, d)
    BY PostsStay DEF MediaHolds
  <1>8. \A p \in ToSet(d.posts) :
           /\ \A j \in Slots : m[j] # n[j] /\ CaresFor(n[j], p.id) => CaredFor(m, p.id)
           /\ ~(p.id >= d.next)
    <2>1. \A p \in ToSet(d.posts) : p.id \in Nat /\ d.next \in Nat /\ p.id < d.next
      BY PostIs DEF MediaHolds, MediaPosts
    <2> QED BY <1>4, <1>5, <2>1
  <1>9. MediaHolds(m, d, errors)
    BY <1>4, <1>6, <1>7, <1>8, MediaMoves
  <1> QED BY <1>1, <1>9

\* A handler sends the next call, which cares for what its own call cared for.
LEMMA MediaGoesOn ==
  ASSUME NEW n, NEW d, NEW errors, MediaHolds(n, d, errors), NEW i \in Slots,
         NEW op, op # "none", NEW arg, PostStands(Fresh(op, arg), d, errors),
         \A id : CaresFor(n[i], id) => CaresFor(Fresh(op, arg), id)
  PROVE  MediaHolds(Send(Settle(n, i), op, arg), d, errors)
  <1>1. PICK s : s = Settle(n, i)
    OBVIOUS
  <1>2. Calls(s) /\ s[i] = NoCall /\ (\A j \in Slots \ {i} : s[j] = n[j]) /\ i \in FreeSlots(s)
    BY <1>1, SettleChanges DEF MediaHolds, Changed
  <1>3. PICK m : m = Send(s, op, arg)
    OBVIOUS
  <1>4. PICK k \in FreeSlots(s) : Changed(s, m, k, Fresh(op, arg))
    BY <1>2, <1>3, SendChanges
  <1>5. k \in Slots /\ s[k].op = "none"
    BY DEF FreeSlots
  <1>6. Calls(m) /\ m[k] = Fresh(op, arg) /\ \A j \in Slots \ {k} : m[j] = s[j]
    BY <1>4 DEF Changed
  <1>7. k # i => \A id : ~CaresFor(n[k], id)
    BY <1>2, <1>5, OthersStand
  <1>8. \A j \in Slots : m[j] = n[j] \/ PostStands(m[j], d, errors)
    BY <1>2, <1>6, NoCallStands
  <1>9. PostsFollow(d, d)
    BY PostsStay DEF MediaHolds
  <1>10. ASSUME NEW id, NEW j \in Slots, m[j] # n[j], CaresFor(n[j], id)
         PROVE  CaredFor(m, id)
    <2>1. j = i
      BY <1>2, <1>6, <1>7, <1>10
    <2>2. CaresFor(m[k], id)
      BY <1>6, <1>10, <2>1
    <2> QED BY <1>5, <2>2 DEF CaredFor
  <1>11. \A p \in ToSet(d.posts) : ~(p.id >= d.next)
    <2>1. \A p \in ToSet(d.posts) : p.id \in Nat /\ d.next \in Nat /\ p.id < d.next
      BY PostIs DEF MediaHolds, MediaPosts
    <2> QED BY <2>1
  <1>12. MediaHolds(m, d, errors)
    BY <1>6, <1>8, <1>9, <1>10, <1>11, MediaMoves
  <1> QED BY <1>1, <1>3, <1>12

LEMMA MediaSpent ==
  ASSUME left \in Setting, left' = Spent, left.acts > 0
  PROVE  left' \in Setting /\ left'.errors = left.errors /\ left'.lost = left.lost
  BY DEF Setting, Spent

LEMMA MediaUserStep ==
  ASSUME MediaInv, MediaUser
  PROVE  MediaInv'
  <1>1. /\ left \in Setting /\ left.errors <= 1 /\ left.lost = 0
        /\ MediaHolds(net, db, left.errors)
    BY MediaHoldsIs
  <1>2. left.acts > 0 /\ left' = Spent /\ db' = db
    BY DEF MediaUser, SubmitMedia, RefreshGallery, LoadMore, OpenDetail, CloseDetail, EditDetail,
           ChangeDetail, OnGallery, InWindow, Acts
  <1>3. left' \in Setting /\ left'.errors = left.errors /\ left'.lost = left.lost
    BY <1>1, <1>2, MediaSpent
  <1>4. SUFFICES MediaHolds(net', db, left.errors)
    BY <1>1, <1>2, <1>3 DEF MediaInv, MediaHolds
  <1>5. CASE net' = net
    BY <1>1, <1>5
  <1>6. ASSUME Acts(1), NEW op \in {"make", "page", "post", "patch", "delete"}, NEW arg,
               net' = Send(net, op, arg)
        PROVE  MediaHolds(net', db, left.errors)
    <2>1. FreeSlots(net) # {}
      BY <1>6, Room DEF Acts
    <2>2. op # "none"
      OBVIOUS
    <2>3. PostStands(Fresh(op, arg), db, left.errors)
      BY <2>2, FreshIs DEF PostStands
    <2>4. MediaHolds(Send(net, op, arg), db, left.errors)
      BY <1>1, <2>1, <2>2, <2>3, MediaSent
    <2> QED BY <1>6, <2>4
  <1>7. CASE SubmitMedia
    <2>1. PICK arg : arg = TRUE
      OBVIOUS
    <2> QED BY <1>6, <1>7, <2>1 DEF SubmitMedia, OnGallery
  <1>8. CASE RefreshGallery
    <2>1. PICK arg : arg = [reset |-> TRUE, cursor |-> 1, got |-> <<>>, read |-> 0,
                            pages |-> None, of |-> None]
      OBVIOUS
    <2> QED BY <1>6, <1>8, <2>1 DEF RefreshGallery, OnGallery, SendBatch
  <1>9. CASE LoadMore
    <2>1. PICK arg : arg = [reset |-> FALSE, cursor |-> ui.nextPage, got |-> <<>>, read |-> 0,
                            pages |-> None, of |-> None]
      OBVIOUS
    <2> QED BY <1>6, <1>9, <2>1 DEF LoadMore, OnGallery, SendBatch
  <1>10. ASSUME NEW p, OpenDetail(p)
         PROVE  MediaHolds(net', db, left.errors)
    <2>1. PICK arg : arg = [id |-> p]
      OBVIOUS
    <2> QED BY <1>6, <1>10, <2>1 DEF OpenDetail, OnGallery
  <1>11. ASSUME NEW op \in {"patch", "delete"}, ChangeDetail(op)
         PROVE  MediaHolds(net', db, left.errors)
    <2>1. PICK arg : arg = [id |-> ui.detail]
      OBVIOUS
    <2> QED BY <1>6, <1>11, <2>1 DEF ChangeDetail, InWindow
  <1>12. CASE CloseDetail \/ EditDetail
    BY <1>5, <1>12 DEF CloseDetail, EditDetail
  <1> QED BY <1>7, <1>8, <1>9, <1>10, <1>11, <1>12 DEF MediaUser

\* One call comes back; the posts follow it.
LEMMA MediaComesBack ==
  ASSUME NEW n, NEW d, NEW errors, MediaHolds(n, d, errors), NEW i \in Slots, IsOpen(n, i),
         NEW out, out = Failure \/ out = Success(out.body), NEW e, PostsFollow(d, e),
         NEW after, errors = 0 => after = 0,
         PostStands(Answer(n[i], out), e, after),
         \A p \in ToSet(e.posts) :
            p.mine /\ ~p.media /\ (CaresFor(n[i], p.id) \/ p.id >= d.next)
               => CaresFor(Answer(n[i], out), p.id)
  PROVE  MediaHolds(ComeBack(n, i, out), e, after)
  <1>1. PICK m : m = ComeBack(n, i, out)
    OBVIOUS
  <1>2. PICK c : c = Answer(n[i], out)
    OBVIOUS
  <1>3. Calls(m) /\ m[i] = c /\ \A j \in Slots \ {i} : m[j] = n[j]
    BY <1>1, <1>2, ComeBackChanges DEF MediaHolds, Changed
  <1>4. \A j \in Slots : m[j] = n[j] \/ PostStands(m[j], e, after)
    BY <1>2, <1>3
  <1>5. ASSUME NEW p \in ToSet(e.posts), p.mine, ~p.media
        PROVE  /\ \A j \in Slots : m[j] # n[j] /\ CaresFor(n[j], p.id) => CaredFor(m, p.id)
               /\ p.id >= d.next => CaredFor(m, p.id)
    <2>1. CaresFor(n[i], p.id) \/ p.id >= d.next => CaresFor(m[i], p.id)
      BY <1>2, <1>3, <1>5
    <2>2. CaresFor(m[i], p.id) => CaredFor(m, p.id)
      BY DEF CaredFor
    <2> QED BY <1>3, <2>1, <2>2
  <1>6. MediaHolds(m, e, after)
    BY <1>3, <1>4, <1>5, MediaMoves
  <1> QED BY <1>1, <1>6

LEMMA MediaServedStep ==
  ASSUME MediaInv, NEW i \in Slots, MediaServed(i)
  PROVE  MediaInv'
  <1>1. /\ left \in Setting /\ left.errors <= 1 /\ left.lost = 0
        /\ MediaHolds(net, db, left.errors)
    BY MediaHoldsIs
  <1>2. PICK c : c = net[i]
    OBVIOUS
  <1>3. PICK found : found = MediaFound(c.op, c.arg)
    OBVIOUS
  <1>4. PICK body : body = MediaBody(c.op, c.arg)
    OBVIOUS
  <1>5. PICK after : after = MediaAfter(c.op, c.arg)
    OBVIOUS
  <1>6. PICK out : out = IF found THEN Success(body) ELSE Failure
    OBVIOUS
  <1>7. IsOpen(net, i) /\ db' = (IF found THEN after ELSE db) /\ net' = ComeBack(net, i, out)
        /\ left' = left
    BY <1>1, <1>2, <1>3, <1>4, <1>5, <1>6 DEF MediaServed, Serve
  <1>8. SUFFICES MediaHolds(net', db', left.errors)
    BY <1>1, <1>7, MediaHoldsIs DEF MediaInv, MediaHolds
  <1>9. MediaPosts(db) /\ Calls(net) /\ PostStands(c, db, left.errors) /\ db.next \in Nat
    BY <1>1, <1>2 DEF MediaHolds, PostsStand, MediaPosts
  <1>10. IsCall(c) /\ ~c.back
    BY <1>2, <1>7, <1>9, CallIs DEF IsOpen
  <1>11. PICK a : a = Answer(c, out)
    OBVIOUS
  <1>12. out = Failure \/ out = Success(out.body)
    BY <1>6, OutcomeIs
  <1>13. a.op = c.op /\ a.arg = c.arg /\ a.back /\ a.out = out
    BY <1>10, <1>11, <1>12, AnswerIs
  <1>14. CASE found
    <2>1. MediaFound(c.op, c.arg)
      BY <1>3, <1>14
    <2>2. /\ PostsFollow(db, after)
          /\ c.op = "make" => after.next = db.next + 1 /\ body = db.next
          /\ c.op # "make" => after.next = db.next
          /\ c.op = "attach" => \A p \in ToSet(after.posts) : p.id = c.arg.id => p.media
          /\ c.op = "rollback" => NoPost(after, c.arg.id)
      BY <1>4, <1>5, <1>9, <2>1, MediaAfterIs
    <2>3. out.ok /\ out.body = body /\ db' = after
      BY <1>6, <1>7, <1>14, OutcomeIs
    <2>4. PostStands(a, after, left.errors)
      <3>1. a.op = "make" => a.out.body \in Nat /\ a.out.body < after.next
        BY <1>9, <1>13, <2>2, <2>3
      <3>2. a.op \in {"attach", "rollback"} => a.arg.id \in Nat /\ a.arg.id < after.next
        BY <1>9, <1>13, <2>2 DEF PostStands
      <3> QED BY <1>13, <2>2, <2>3, <3>1, <3>2 DEF PostStands
    <2>5. ASSUME NEW p \in ToSet(after.posts), p.mine, ~p.media,
                 CaresFor(c, p.id) \/ p.id >= db.next
          PROVE  CaresFor(a, p.id)
      <3>1. ~CaresFor(c, p.id)
        <4>1. c.op = "attach" => p.id # c.arg.id
          BY <2>2, <2>5
        <4>2. c.op = "rollback" => p.id # c.arg.id
          BY <2>2, <2>5 DEF NoPost
        <4> QED BY <1>10, <4>1, <4>2 DEF CaresFor
      <3>2. MediaPosts(after)
        BY <2>2 DEF PostsFollow
      <3>3. p.id \in Nat /\ p.id < after.next
        BY <3>2, PostIs
      <3>4. c.op = "make" /\ p.id = db.next
        BY <1>9, <2>2, <2>5, <3>1, <3>3
      <3> QED BY <1>13, <2>2, <2>3, <3>4 DEF CaresFor
    <2> QED BY <1>1, <1>2, <1>7, <1>11, <1>12, <2>2, <2>3, <2>4, <2>5, MediaComesBack
  <1>15. CASE ~found
    <2>1. ~out.ok /\ db' = db
      BY <1>6, <1>7, <1>15, OutcomeIs
    <2>2. c.op \in {"post", "patch", "delete", "attach", "rollback"} /\ NoPost(db, c.arg.id)
      BY <1>3, <1>15, HasIs DEF MediaFound
    <2>3. PostStands(a, db, left.errors)
      BY <1>9, <1>13, <2>1, <2>2 DEF PostStands
    <2>4. ASSUME NEW p \in ToSet(db.posts), p.mine, ~p.media,
                 CaresFor(c, p.id) \/ p.id >= db.next
          PROVE  CaresFor(a, p.id)
      <3>1. p.id \in Nat /\ p.id < db.next
        BY <1>9, PostIs
      <3>2. CaresFor(c, p.id)
        BY <1>9, <2>4, <3>1
      <3>3. p.id # c.arg.id
        BY <2>2 DEF NoPost
      <3> QED BY <2>2, <3>2, <3>3 DEF CaresFor
    <2>5. PostsFollow(db, db)
      BY <1>9, PostsStay
    <2> QED BY <1>1, <1>2, <1>7, <1>11, <1>12, <2>1, <2>3, <2>4, <2>5, MediaComesBack
  <1> QED BY <1>14, <1>15

LEMMA MediaRefusedStep ==
  ASSUME MediaInv, NEW i \in Slots, Refuse(i)
  PROVE  MediaInv'
  <1>1. /\ left \in Setting /\ left.errors <= 1 /\ left.lost = 0
        /\ MediaHolds(net, db, left.errors)
    BY MediaHoldsIs
  <1>2. /\ IsOpen(net, i) /\ left.errors > 0 /\ net' = ComeBack(net, i, Failure)
        /\ left' = [left EXCEPT !.errors = @ - 1] /\ db' = db
    BY DEF Refuse
  <1>3. left' \in Setting /\ left'.errors = 0 /\ left'.lost = 0
    BY <1>1, <1>2 DEF Setting
  <1>4. SUFFICES MediaHolds(net', db, 0)
    BY <1>2, <1>3 DEF MediaInv, MediaHolds
  <1>5. PICK c : c = net[i]
    OBVIOUS
  <1>6. MediaPosts(db) /\ Calls(net) /\ PostStands(c, db, left.errors)
    BY <1>1, <1>5 DEF MediaHolds, PostsStand
  <1>7. IsCall(c) /\ ~c.back
    BY <1>2, <1>5, <1>6, CallIs DEF IsOpen
  <1>8. PICK out : out = Failure
    OBVIOUS
  <1>9. PICK a : a = Answer(c, out)
    OBVIOUS
  <1>10. a.op = c.op /\ a.arg = c.arg /\ a.back /\ a.out = out /\ ~out.ok
    BY <1>7, <1>8, <1>9, AnswerIs, OutcomeIs
  <1>11. c.op = "rollback" => NoPost(db, c.arg.id)
    BY <1>1, <1>2, <1>6 DEF PostStands
  <1>12. PostStands(a, db, 0)
    BY <1>6, <1>10, <1>11 DEF PostStands
  <1>13. ASSUME NEW p \in ToSet(db.posts), CaresFor(c, p.id) \/ p.id >= db.next
         PROVE  CaresFor(a, p.id)
    <2>1. p.id \in Nat /\ db.next \in Nat /\ p.id < db.next
      BY <1>6, PostIs DEF MediaPosts
    <2>2. CaresFor(c, p.id)
      BY <1>13, <2>1
    <2>3. c.op = "rollback" => p.id # c.arg.id
      BY <1>11 DEF NoPost
    <2> QED BY <1>7, <1>10, <2>2, <2>3 DEF CaresFor
  <1>14. PostsFollow(db, db)
    BY <1>6, PostsStay
  <1> QED BY <1>1, <1>2, <1>5, <1>8, <1>9, <1>12, <1>13, <1>14, MediaComesBack

LEMMA MediaAnsweredStep ==
  ASSUME MediaInv, NEW i \in Slots, MediaAnswered(i)
  PROVE  MediaInv'
  <1>1. /\ left \in Setting /\ left.errors <= 1 /\ left.lost = 0
        /\ MediaHolds(net, db, left.errors)
    BY MediaHoldsIs
  <1>2. db' = db /\ left' = left
    BY DEF MediaAnswered, OnMe, OnPage, OnMade, OnNotAttached, OnUploadFailed, OnAttached,
           OnPost, OnPatched, OnDeleted, OnChangeRefused
  <1>3. SUFFICES MediaHolds(net', db, left.errors)
    BY <1>1, <1>2 DEF MediaInv, MediaHolds
  <1>4. PICK c : c = net[i]
    OBVIOUS
  <1>5. PostStands(c, db, left.errors)
    BY <1>1, <1>4 DEF MediaHolds, PostsStand
  <1>6. ASSUME net' = Settle(net, i), \A id : ~CaresFor(c, id)
        PROVE  MediaHolds(net', db, left.errors)
    BY <1>1, <1>4, <1>6, MediaSettled
  <1>7. ASSUME NEW op, op # "none", NEW arg, net' = Send(Settle(net, i), op, arg),
               PostStands(Fresh(op, arg), db, left.errors),
               \A id : CaresFor(c, id) => CaresFor(Fresh(op, arg), id)
        PROVE  MediaHolds(net', db, left.errors)
    <2>1. MediaHolds(Send(Settle(net, i), op, arg), db, left.errors)
      BY <1>1, <1>4, <1>7, MediaGoesOn
    <2> QED BY <1>7, <2>1
  <1>8. ASSUME NEW arg, net' = Send(Settle(net, i), "page", arg), \A id : ~CaresFor(c, id)
        PROVE  MediaHolds(net', db, left.errors)
    <2>1. PICK op : op = "page"
      OBVIOUS
    <2>2. PostStands(Fresh(op, arg), db, left.errors)
      BY <2>1, FreshIs, OthersStand
    <2> QED BY <1>7, <1>8, <2>1, <2>2
  <1>9. ASSUME NEW arg, net' = SendBatch(Settle(net, i), TRUE, 1, arg), \A id : ~CaresFor(c, id)
        PROVE  MediaHolds(net', db, left.errors)
    <2>1. PICK b : b = [reset |-> TRUE, cursor |-> 1, got |-> <<>>, read |-> 0,
                        pages |-> None, of |-> arg]
      OBVIOUS
    <2> QED BY <1>8, <1>9, <2>1 DEF SendBatch
  <1>10. CASE OnMe(i)
    <2>1. \A id : ~CaresFor(c, id)
      BY <1>4, <1>10, OthersStand DEF OnMe, Back
    <2> QED BY <1>9, <1>10, <2>1 DEF OnMe
  <1>11. CASE OnPage(i)
    <2>1. \A id : ~CaresFor(c, id)
      BY <1>4, <1>11, OthersStand DEF OnPage, Back
    <2>2. net' = Settle(net, i) \/ \E b : net' = Send(Settle(net, i), "page", b)
      BY <1>11 DEF OnPage
    <2> QED BY <1>6, <1>8, <2>1, <2>2
  <1>12. CASE OnMade(i)
    <2>1. /\ c.op = "make" /\ c.back /\ c.out.ok
          /\ net' = Send(Settle(net, i), "attach", [id |-> c.out.body])
      BY <1>4, <1>12 DEF OnMade, Good, Back, IsBack
    <2>2. PICK arg : arg = [id |-> c.out.body]
      OBVIOUS
    <2>3. PICK f : f = Fresh("attach", arg)
      OBVIOUS
    <2>4. f.op = "attach" /\ f.arg.id = c.out.body /\ ~f.back
      BY <2>2, <2>3, FreshIs
    <2>5. PostStands(f, db, left.errors)
      BY <1>5, <2>1, <2>4 DEF PostStands
    <2>6. \A id : CaresFor(c, id) => CaresFor(f, id)
      BY <2>1, <2>4 DEF CaresFor
    <2> QED BY <1>7, <2>1, <2>2, <2>3, <2>5, <2>6
  <1>13. CASE OnNotAttached(i)
    <2>1. /\ c.op = "attach" /\ c.back /\ ~c.out.ok
          /\ net' = Send(Settle(net, i), "rollback", c.arg)
      BY <1>4, <1>13 DEF OnNotAttached, Bad, Back, IsBack
    <2>2. PICK f : f = Fresh("rollback", c.arg)
      OBVIOUS
    <2>3. f.op = "rollback" /\ f.arg = c.arg /\ ~f.back
      BY <2>2, FreshIs
    <2>4. PostStands(f, db, left.errors)
      BY <1>5, <2>1, <2>3 DEF PostStands
    <2>5. \A id : CaresFor(c, id) => CaresFor(f, id)
      BY <2>1, <2>3 DEF CaresFor
    <2> QED BY <1>7, <2>1, <2>2, <2>4, <2>5
  <1>14. CASE OnUploadFailed(i)
    <2>1. net' = Settle(net, i) /\ c.back /\ ((c.op = "make" /\ ~c.out.ok) \/ c.op = "rollback")
      BY <1>4, <1>14 DEF OnUploadFailed, Bad, Back, IsBack
    <2>2. \A id : ~CaresFor(c, id)
      BY <2>1 DEF CaresFor
    <2> QED BY <1>6, <2>1, <2>2
  <1>15. CASE OnAttached(i)
    <2>1. c.op = "attach" /\ c.back /\ c.out.ok
      BY <1>4, <1>15 DEF OnAttached, Good, Back, IsBack
    <2>2. \A id : ~CaresFor(c, id)
      BY <2>1 DEF CaresFor
    <2> QED BY <1>9, <1>15, <2>2 DEF OnAttached
  <1>16. CASE OnPost(i)
    BY <1>4, <1>6, <1>16, OthersStand DEF OnPost, Back
  <1>17. CASE OnPatched(i)
    BY <1>4, <1>9, <1>17, OthersStand DEF OnPatched, Good, Back
  <1>18. CASE OnDeleted(i)
    BY <1>4, <1>9, <1>18, OthersStand DEF OnDeleted, Good, Back
  <1>19. CASE OnChangeRefused(i)
    BY <1>4, <1>6, <1>19, OthersStand DEF OnChangeRefused, Bad, Back
  <1> QED BY <1>10, <1>11, <1>12, <1>13, <1>14, <1>15, <1>16, <1>17, <1>18, <1>19
          DEF MediaAnswered

LEMMA MediaElsewhereStep ==
  ASSUME MediaInv, MediaElsewhere
  PROVE  MediaInv'
  <1>1. /\ left \in Setting /\ left.errors <= 1 /\ left.lost = 0
        /\ MediaHolds(net, db, left.errors)
    BY MediaHoldsIs
  <1>2. /\ left.others > 0 /\ left' = [left EXCEPT !.others = @ - 1] /\ net' = net
    BY DEF MediaElsewhere
  <1>3. left' \in Setting /\ left'.errors = left.errors /\ left'.lost = left.lost
    BY <1>1, <1>2 DEF Setting
  <1>4. SUFFICES MediaHolds(net, db', left.errors)
    BY <1>1, <1>2, <1>3 DEF MediaInv, MediaHolds
  <1>5. MediaPosts(db) /\ Calls(net)
    BY <1>1 DEF MediaHolds
  <1>6. ASSUME PostsFollow(db, db'), \A p \in ToSet(db'.posts) : p.id >= db.next => ~p.mine
        PROVE  MediaHolds(net, db', left.errors)
    BY <1>1, <1>5, <1>6, MediaMoves
  <1>7. CASE db' = [db EXCEPT !.posts = <<Post(db.next, TRUE, FALSE)>> \o @, !.next = @ + 1]
    <2>1. /\ PostsFollow(db, db')
          /\ \A p \in ToSet(db'.posts) : p.id >= db.next => p.id = db.next /\ p.mine = FALSE
      BY <1>5, <1>7, PostMade
    <2> QED BY <1>6, <2>1
  <1>8. ASSUME NEW n \in DOMAIN db.posts, db' = [db EXCEPT !.posts = Without(@, db.posts[n].id)]
        PROVE  MediaHolds(net, db', left.errors)
    <2>1. PostsFollow(db, db') /\ db'.next = db.next
      BY <1>5, <1>8, PostRemoved
    <2>2. MediaPosts(db') /\ db.next \in Nat
      BY <1>5, <2>1 DEF PostsFollow, MediaPosts
    <2>3. \A p \in ToSet(db'.posts) : p.id \in Nat /\ p.id < db.next
      BY <2>1, <2>2, PostIs
    <2> QED BY <1>6, <2>1, <2>2, <2>3
  <1> QED BY <1>7, <1>8 DEF MediaElsewhere

LEMMA MediaStart ==
  ASSUME MediaInit
  PROVE  MediaInv
  <1>1. left \in Setting /\ left.errors <= 1 /\ left.lost = 0
    BY DEF MediaInit
  <1>2. PICK kinds \in Seq(BOOLEAN) : MountMedia(kinds)
    BY DEF MediaInit
  <1>3. Len(kinds) \in Nat /\ DOMAIN kinds = 1 .. Len(kinds)
        /\ \A n \in DOMAIN kinds : kinds[n] \in BOOLEAN
    BY LenProperties, ElementOfSeq
  <1>4. PICK posts : posts = [n \in DOMAIN kinds |-> Post(n, kinds[n], FALSE)]
    OBVIOUS
  <1>5. \A n \in DOMAIN kinds : Post(n, kinds[n], FALSE) \in PostRecord
                                /\ Post(n, kinds[n], FALSE).id = n
                                /\ ~Post(n, kinds[n], FALSE).mine
    BY <1>3 DEF Post, PostRecord
  <1>6. posts \in Seq(PostRecord)
    <2>1. posts \in [1 .. Len(kinds) -> PostRecord]
      BY <1>3, <1>4, <1>5
    <2> QED BY <1>3, <2>1
  <1>7. DOMAIN posts = 1 .. Len(kinds) /\ \A n \in 1 .. Len(kinds) : posts[n].id = n /\ ~posts[n].mine
    BY <1>3, <1>4, <1>5
  <1>8. db = [posts |-> posts, next |-> Len(kinds) + 1]
    BY <1>2, <1>4 DEF MountMedia, MediaDb
  <1>9. db \in [posts : Seq(PostRecord), next : Nat] /\ db.posts = posts /\ db.next = Len(kinds) + 1
    BY <1>3, <1>6, <1>8
  <1>10. MediaPosts(db)
    BY <1>3, <1>7, <1>9 DEF MediaPosts
  <1>11. \A p \in ToSet(db.posts) : ~p.mine
    BY <1>7, <1>9, SetIs
  <1>12. PostsStand(NoCalls, db, left.errors)
    BY NoCallsAre, NoCallStands DEF PostsStand
  <1>13. MediaHolds(NoCalls, db, left.errors)
    BY <1>10, <1>11, <1>12, NoCallsAre DEF MediaHolds, NoneForgotten
  <1>14. PostStands(Fresh("me", TRUE), db, left.errors)
    <2>1. PICK arg : arg = TRUE
      OBVIOUS
    <2>2. Fresh("me", arg).op = "me"
      BY FreshIs
    <2>3. PostStands(Fresh("me", arg), db, left.errors)
      BY <2>2, OthersStand
    <2> QED BY <2>1, <2>3
  <1>15. FreeSlots(NoCalls) # {}
    BY CallsRoom
  <1>16. MediaHolds(Send(NoCalls, "me", TRUE), db, left.errors)
    BY <1>13, <1>14, <1>15, MediaSent
  <1> QED BY <1>1, <1>2, <1>16, MediaHoldsIs DEF MountMedia

LEMMA MediaKeep ==
  ASSUME MediaInv, [MediaNext]_vars
  PROVE  MediaInv'
  <1>1. CASE MediaUser
    BY <1>1, MediaUserStep
  <1>2. CASE HideUpload
    BY <1>2 DEF HideUpload, MediaInv
  <1>3. CASE MediaElsewhere
    BY <1>3, MediaElsewhereStep
  <1>4. ASSUME NEW i \in Slots, MediaServed(i) \/ Refuse(i) \/ MediaAnswered(i)
        PROVE  MediaInv'
    BY <1>4, MediaServedStep, MediaRefusedStep, MediaAnsweredStep
  <1>5. CASE UNCHANGED vars
    BY <1>5 DEF vars, MediaInv
  <1> QED BY <1>1, <1>2, <1>3, <1>4, <1>5 DEF MediaNext

\* A post made by the upload form of the gallery has its files, or is gone, when
\* nothing is under way any more.
THEOREM PostsHaveTheirFiles == MediaSpec => []MediaPostHasFiles
  <1>1. MediaInv => MediaPostHasFiles
    <2>1. ASSUME MediaInv, Quiet, NEW n \in DOMAIN db.posts, db.posts[n].mine
          PROVE  db.posts[n].media
      <3>1. db.posts[n] \in ToSet(db.posts)
        BY SetIs
      <3>2. ~CaredFor(net, db.posts[n].id)
        BY <2>1 DEF Quiet, CaredFor, CaresFor
      <3> QED BY <2>1, <3>1, <3>2 DEF MediaInv, NoneForgotten
    <2> QED BY <2>1 DEF MediaPostHasFiles
  <1>2. MediaInit => MediaInv
    BY MediaStart
  <1>3. MediaInv /\ [MediaNext]_vars => MediaInv'
    BY MediaKeep
  <1> QED BY <1>1, <1>2, <1>3, PTL DEF MediaSpec

-----------------------------------------------------------------------------
(* Array.filter keeps the members it is asked to keep, each where it was.   *)

-----------------------------------------------------------------------------
(* The mind map. Rows in an order: R is a strict total order on S.          *)

TotalOrder(R, S) ==
    /\ \A x \in S : <<x, x>> \notin R
    /\ \A x, y \in S : x # y => <<x, y>> \in R \/ <<y, x>> \in R
    /\ \A x, y, z \in S : <<x, y>> \in R /\ <<y, z>> \in R => <<x, z>> \in R

InOrder(s, R) == \A i, j \in DOMAIN s : i < j => <<s[i], s[j]>> \in R

\* A finite set that is not empty has a last element.
LEMMA HasLast ==
  ASSUME NEW R, NEW S, TotalOrder(R, S), IsFiniteSet(S), S # {}
  PROVE  \E x \in S : \A y \in S \ {x} : <<y, x>> \in R
  <1> DEFINE HasFirst(T) == T # {} => \E x \in T : \A y \in T \ {x} : <<y, x>> \in R
             P == {n \in Nat : \A T \in SUBSET S : Cardinality(T) = n => HasFirst(T)}
  <1>0. \A T \in SUBSET S : IsFiniteSet(T) /\ Cardinality(T) \in Nat
    BY FS_Subset, FS_CardinalityType
  <1>1. 0 \in P
    <2>1. \A T \in SUBSET S : Cardinality(T) = 0 => T = {}
      BY <1>0, FS_EmptySet
    <2> QED BY <2>1
  <1>2. ASSUME NEW n \in Nat, n \in P
        PROVE  n + 1 \in P
    <2>1. SUFFICES ASSUME NEW T \in SUBSET S, Cardinality(T) = n + 1, T # {} PROVE HasFirst(T)
      OBVIOUS
    <2>2. PICK x \in T : TRUE
      BY <2>1
    <2>3. PICK U : U = T \ {x}
      OBVIOUS
    <2>4. U \in SUBSET S /\ Cardinality(U) = n
      <3>1. Cardinality(U) = (n + 1) - 1
        BY <1>0, <2>1, <2>2, <2>3, FS_RemoveElement
      <3> QED BY <2>3, <3>1
    <2>5. HasFirst(U)
      BY <1>2, <2>4
    <2> HIDE DEF P
    <2>6. CASE U = {}
      BY <2>2, <2>3, <2>6
    <2>7. CASE U # {}
      <3>1. PICK z \in U : \A y \in U \ {z} : <<y, z>> \in R
        BY <2>5, <2>7
      <3>2. x \in S /\ z \in S /\ z \in T /\ x # z /\ \A y \in T : y \in S
        BY <2>2, <2>3, <2>4
      <3>3. <<x, z>> \in R \/ <<z, x>> \in R
        BY <3>2 DEF TotalOrder
      <3>4. CASE <<x, z>> \in R
        <4>1. \A y \in T \ {z} : <<y, z>> \in R
          BY <2>3, <3>1, <3>4
        <4> QED BY <3>2, <4>1
      <3>5. CASE <<z, x>> \in R
        <4>1. ASSUME NEW y \in T \ {x}
              PROVE  <<y, x>> \in R
          <5>1. y = z \/ <<y, z>> \in R
            BY <2>3, <3>1
          <5> QED BY <3>2, <3>5, <5>1 DEF TotalOrder
        <4> QED BY <2>2, <4>1
      <3> QED BY <3>3, <3>4, <3>5
    <2> QED BY <2>6, <2>7
  <1> HIDE DEF P, HasFirst
  <1>3. Nat \subseteq P
    BY <1>1, <1>2, Induction
  <1>4. HasFirst(S)
    BY <1>0, <1>3 DEF P
  <1> QED BY <1>4 DEF HasFirst

\* A finite set can be listed in its order.
LEMMA CanSort ==
  ASSUME NEW R, NEW S, TotalOrder(R, S), IsFiniteSet(S)
  PROVE  \E s \in [1 .. Cardinality(S) -> S] : InOrder(s, R)
  <1> DEFINE HasList(T, n) == \E s \in [1 .. n -> T] : InOrder(s, R)
             P == {n \in Nat : \A T \in SUBSET S : Cardinality(T) = n => HasList(T, n)}
  <1>0. \A T \in SUBSET S : IsFiniteSet(T) /\ Cardinality(T) \in Nat
    BY FS_Subset, FS_CardinalityType
  <1>1. 0 \in P
    <2>1. \A T : HasList(T, 0)
      <3>1. ASSUME NEW T
            PROVE  HasList(T, 0)
        <4>1. PICK s : s = [i \in 1 .. 0 |-> i]
          OBVIOUS
        <4>2. s \in [1 .. 0 -> T] /\ DOMAIN s = {}
          BY <4>1
        <4> QED BY <4>2 DEF InOrder
      <3> QED BY <3>1
    <2> QED BY <2>1
  <1>2. ASSUME NEW n \in Nat, n \in P
        PROVE  n + 1 \in P
    <2>1. SUFFICES ASSUME NEW T \in SUBSET S, Cardinality(T) = n + 1 PROVE HasList(T, n + 1)
      OBVIOUS
    <2>2. T # {} /\ IsFiniteSet(T) /\ TotalOrder(R, T)
      <3>1. Cardinality({}) = 0
        BY FS_EmptySet
      <3>2. T # {}
        BY <2>1, <3>1
      <3>3. \A x \in T : x \in S
        OBVIOUS
      <3>4. TotalOrder(R, T)
        BY <3>3 DEF TotalOrder
      <3> QED BY <1>0, <3>2, <3>4
    <2>3. PICK x \in T : \A y \in T \ {x} : <<y, x>> \in R
      BY <2>2, HasLast
    <2>4. PICK U : U = T \ {x}
      OBVIOUS
    <2>5. U \in SUBSET S /\ Cardinality(U) = n
      <3>1. Cardinality(U) = (n + 1) - 1
        BY <2>1, <2>2, <2>3, <2>4, FS_RemoveElement
      <3> QED BY <2>4, <3>1
    <2>6. HasList(U, n)
      BY <1>2, <2>5
    <2>7. PICK t \in [1 .. n -> U] : InOrder(t, R)
      BY <2>6
    <2>8. PICK s : s = [i \in 1 .. n + 1 |-> IF i = n + 1 THEN x ELSE t[i]]
      OBVIOUS
    <2>9. /\ DOMAIN s = 1 .. n + 1 /\ s[n + 1] = x
          /\ \A i \in 1 .. n : s[i] = t[i] /\ t[i] \in U /\ i \in DOMAIN t
      BY <2>7, <2>8
    <2>10. \A i \in 1 .. n + 1 : i = n + 1 \/ i \in 1 .. n
      OBVIOUS
    <2>11. s \in [1 .. n + 1 -> T]
      BY <2>4, <2>8, <2>9, <2>10
    <2>12. ASSUME NEW i \in 1 .. n + 1, NEW j \in 1 .. n + 1, i < j
           PROVE  <<s[i], s[j]>> \in R
      <3>1. i \in 1 .. n
        BY <2>12
      <3>2. CASE j = n + 1
        BY <2>3, <2>4, <2>9, <3>1, <3>2
      <3>3. CASE j \in 1 .. n
        BY <2>7, <2>9, <2>12, <3>1, <3>3 DEF InOrder
      <3> QED BY <2>10, <3>2, <3>3
    <2>13. InOrder(s, R)
      BY <2>9, <2>12 DEF InOrder
    <2> QED BY <2>11, <2>13
  <1> HIDE DEF P, HasList
  <1>3. Nat \subseteq P
    BY <1>1, <1>2, Induction
  <1>4. HasList(S, Cardinality(S))
    BY <1>0, <1>3 DEF P
  <1> QED BY <1>4 DEF HasList

\* What is listed in order is listed once, and all of it.
LEMMA SortedIs ==
  ASSUME NEW R, NEW S, TotalOrder(R, S), IsFiniteSet(S),
         NEW s \in [1 .. Cardinality(S) -> S], InOrder(s, R)
  PROVE  s \in Seq(S) /\ ToSet(s) = S
  <1> DEFINE c == Cardinality(S)
  <1>1. c \in Nat
    BY FS_CardinalityType
  <1>2. \A i \in DOMAIN s : s[i] \in S
    OBVIOUS
  <1>3. ASSUME NEW i \in DOMAIN s, NEW j \in DOMAIN s, i # j
        PROVE  s[i] # s[j]
    <2>1. i \in Int /\ j \in Int
      OBVIOUS
    <2>2. i < j \/ j < i
      BY <1>3, <2>1
    <2>3. <<s[i], s[j]>> \in R \/ <<s[j], s[i]>> \in R
      BY <2>2 DEF InOrder
    <2> QED BY <1>2, <2>3 DEF TotalOrder
  <1>4. s \in Injection(1 .. c, S)
    BY <1>3 DEF Injection, IsInjective
  <1>5. Cardinality(1 .. c) = c
    BY <1>1, FS_Interval
  <1> HIDE DEF c
  <1>6. s \in Surjection(1 .. c, S)
    BY <1>4, <1>5, FS_Injection DEF c
  <1>7. \A x \in S : \E i \in 1 .. c : s[i] = x
    BY <1>6 DEF Surjection
  <1>8. DOMAIN s = 1 .. c
    BY DEF c
  <1>9. ToSet(s) = S
    BY <1>2, <1>7, <1>8 DEF ToSet
  <1>10. s \in Seq(S)
    <2>1. s \in [1 .. c -> S]
      BY DEF c
    <2> QED BY <1>1, <2>1
  <1> QED BY <1>9, <1>10

\* The rows of a column are all rows.
LEMMA ByCountIs ==
  ASSUME NEW S, S \subseteq Int, IsFiniteSet(S), NEW count \in [S -> Nat]
  PROVE  ByCount(count) \in Seq(S) /\ ToSet(ByCount(count)) = S
  <1> DEFINE Before(x, y) == count[x] > count[y] \/ (count[x] = count[y] /\ x < y)
             R == {p \in S \X S : Before(p[1], p[2])}
  <1>1. \A x, y \in S : <<x, y>> \in R <=> Before(x, y)
    OBVIOUS
  <1> HIDE DEF R
  <1>2. TotalOrder(R, S)
    <2>1. \A x \in S : x \in Int /\ count[x] \in Nat
      OBVIOUS
    <2>2. \A x \in S : <<x, x>> \notin R
      BY <1>1, <2>1
    <2>3. \A x, y \in S : x # y => <<x, y>> \in R \/ <<y, x>> \in R
      BY <1>1, <2>1
    <2>4. \A x, y, z \in S : <<x, y>> \in R /\ <<y, z>> \in R => <<x, z>> \in R
      BY <1>1, <2>1
    <2> QED BY <2>2, <2>3, <2>4 DEF TotalOrder
  <1>3. PICK c : c = Cardinality(S)
    OBVIOUS
  <1>4. PICK t \in [1 .. c -> S] : InOrder(t, R)
    BY <1>2, <1>3, CanSort
  <1>5. \A s \in [1 .. c -> S] :
           InOrder(s, R) <=> \A i, j \in DOMAIN s : i < j => Before(s[i], s[j])
    BY <1>1 DEF InOrder
  <1>6. PICK s : s = ByCount(count)
    OBVIOUS
  <1>7. s = CHOOSE r \in [1 .. c -> S] : \A i, j \in DOMAIN r : i < j => Before(r[i], r[j])
    BY <1>3, <1>6 DEF ByCount
  <1> HIDE DEF Before
  <1>8. s \in [1 .. c -> S] /\ InOrder(s, R)
    BY <1>4, <1>5, <1>7
  <1> QED BY <1>2, <1>3, <1>6, <1>8, SortedIs

LEMMA LatestFirstIs ==
  ASSUME NEW S, S \subseteq Int, IsFiniteSet(S)
  PROVE  LatestFirst(S) \in Seq(S)
  <1> DEFINE R == {p \in S \X S : p[1] > p[2]}
  <1>1. \A x, y \in S : <<x, y>> \in R <=> x > y
    OBVIOUS
  <1> HIDE DEF R
  <1>2. TotalOrder(R, S)
    <2>1. \A x \in S : x \in Int
      OBVIOUS
    <2> QED BY <1>1, <2>1 DEF TotalOrder
  <1>3. PICK c : c = Cardinality(S)
    OBVIOUS
  <1>4. PICK t \in [1 .. c -> S] : InOrder(t, R)
    BY <1>2, <1>3, CanSort
  <1>5. \A s \in [1 .. c -> S] : InOrder(s, R) <=> \A i, j \in DOMAIN s : i < j => s[i] > s[j]
    BY <1>1 DEF InOrder
  <1>6. PICK s : s = LatestFirst(S)
    OBVIOUS
  <1>7. s = CHOOSE r \in [1 .. c -> S] : \A i, j \in DOMAIN r : i < j => r[i] > r[j]
    BY <1>3, <1>6 DEF LatestFirst
  <1>8. s \in [1 .. c -> S] /\ InOrder(s, R)
    BY <1>4, <1>5, <1>7
  <1> QED BY <1>2, <1>3, <1>6, <1>8, SortedIs

\* A list, of whatever.
IsOwnList(s) == s \in Seq(ToSet(s))

LEMMA ListIs ==
  ASSUME NEW T, NEW s \in Seq(T)
  PROVE  IsOwnList(s) /\ ToSet(s) \subseteq T /\ Len(s) \in Nat
  <1>1. /\ Len(s) \in Nat /\ DOMAIN s = 1 .. Len(s) /\ \A i \in 1 .. Len(s) : s[i] \in T
        /\ s \in [1 .. Len(s) -> T]
    BY LenProperties, ElementOfSeq
  <1>2. \A i \in 1 .. Len(s) : s[i] \in ToSet(s)
    BY <1>1 DEF ToSet
  <1>3. s \in [1 .. Len(s) -> ToSet(s)]
    BY SMTT(60), <1>1, <1>2
  <1>4. PICK n \in Nat : n = Len(s)
    BY <1>1
  <1>5. s \in Seq(ToSet(s))
    BY <1>3, <1>4
  <1> QED BY <1>1, <1>5 DEF IsOwnList, ToSet

LEMMA NoRows == IsOwnList(<<>>) /\ ToSet(<<>>) = {} /\ Len(<<>>) = 0
  <1>1. PICK e : e = <<>>
    OBVIOUS
  <1>2. PICK T : T = {}
    OBVIOUS
  <1>3. e \in Seq(T) /\ Len(e) = 0
    BY <1>1, EmptySeq
  <1>4. IsOwnList(e) /\ ToSet(e) \subseteq T
    BY <1>3, ListIs
  <1> QED BY <1>1, <1>2, <1>3, <1>4

\* The first rows.
LEMMA FirstIs ==
  ASSUME NEW T, NEW s \in Seq(T), NEW n \in Nat
  PROVE  /\ First(s, n) \in Seq(T) /\ Len(First(s, n)) <= n /\ Len(First(s, n)) \in Nat
         /\ ToSet(First(s, n)) \subseteq ToSet(s)
         /\ Len(s) <= n => First(s, n) = s
  <1>0. PICK k : k = Len(s)
    OBVIOUS
  <1>1. k \in Nat /\ DOMAIN s = 1 .. k /\ \A i \in 1 .. k : s[i] \in T
    BY <1>0, LenProperties, ElementOfSeq
  <1>2. PICK m \in Nat : m = (IF k < n THEN k ELSE n) /\ m <= n /\ m <= k
    BY <1>1
  <1>3. PICK u : u = SubSeq(s, 1, m)
    OBVIOUS
  <1>4. First(s, n) = u
    BY <1>0, <1>2, <1>3 DEF First
  <1>5. \A i \in 1 .. m : i \in 1 .. k
    BY <1>1, <1>2
  <1>6. \A i \in 1 .. m : s[i] \in T
    BY <1>1, <1>5
  <1>7. /\ u \in Seq(T) /\ Len(u) = (IF 1 <= m THEN m - 1 + 1 ELSE 0)
        /\ \A i \in 1 .. m - 1 + 1 : u[i] = s[1 + i - 1]
    BY <1>3, <1>6, SubSeqProperties
  <1>8. Len(u) = m
    BY <1>7
  <1>9. DOMAIN u = 1 .. m
    BY <1>7, <1>8, LenProperties
  <1>10. \A i \in DOMAIN u : u[i] = s[i] /\ i \in DOMAIN s
    BY <1>1, <1>5, <1>7, <1>9
  <1>11. ToSet(u) \subseteq ToSet(s)
    BY <1>10 DEF ToSet
  <1>12. ASSUME k <= n
         PROVE  u = s
    <2>1. m = k
      BY <1>1, <1>2, <1>12
    <2> QED BY <1>0, <1>3, <2>1, SubSeqFull
  <1> QED BY <1>0, <1>2, <1>4, <1>7, <1>8, <1>11, <1>12

\* What is drawn: no more than is allowed, and what is selected if it is a row.
LEMMA Prioritized ==
  ASSUME NEW rows, IsOwnList(rows), NEW selected, NEW max \in Nat \ {0}
  PROVE  /\ Len(PrioritizeSelected(rows, selected, max)) <= max
         /\ selected \in ToSet(rows) => selected \in ToSet(PrioritizeSelected(rows, selected, max))
  <1>1. PICK T : T = ToSet(rows)
    OBVIOUS
  <1>2. rows \in Seq(T) /\ Len(rows) \in Nat
    BY <1>1, ListIs DEF IsOwnList
  <1>3. PICK head : head = First(rows, max)
    OBVIOUS
  <1>4. Len(head) <= max /\ (Len(rows) <= max => head = rows)
    BY <1>2, <1>3, FirstIs
  <1>5. First(rows, Len(rows)) = rows
    BY <1>2, FirstIs
  <1>6. PICK r : r = PrioritizeSelected(rows, selected, max)
    OBVIOUS
  <1>7. CASE Len(rows) <= max \/ selected \notin T \/ selected \in ToSet(head)
    <2>1. r = head
      BY <1>1, <1>3, <1>5, <1>6, <1>7 DEF PrioritizeSelected
    <2> QED BY <1>1, <1>4, <1>6, <1>7, <2>1
  <1>8. CASE ~(Len(rows) <= max \/ selected \notin T \/ selected \in ToSet(head))
    <2>1. PICK k : k = Keeping(rows, ToSet(rows) \ {selected})
      OBVIOUS
    <2>2. k \in Seq(T)
      BY <1>2, <2>1, KeepingIs
    <2>3. PICK m \in Nat : m = max - 1
      OBVIOUS
    <2>4. PICK t : t = First(k, m)
      OBVIOUS
    <2>5. t \in Seq(T) /\ Len(t) <= m /\ Len(t) \in Nat
      BY <2>2, <2>4, FirstIs
    <2>6. PICK one : one = <<selected>>
      OBVIOUS
    <2>7. one \in Seq(T) /\ Len(one) = 1 /\ one[1] = selected
      BY <1>8, <2>6
    <2>8. r = one \o t
      BY <1>1, <1>3, <1>5, <1>6, <1>8, <2>1, <2>3, <2>4, <2>6 DEF PrioritizeSelected
    <2>9. /\ r \in Seq(T) /\ Len(r) = Len(one) + Len(t)
          /\ \A i \in 1 .. Len(one) + Len(t) : r[i] = IF i <= Len(one) THEN one[i] ELSE t[i - Len(one)]
      BY <2>5, <2>7, <2>8, ConcatProperties
    <2>10. 1 \in 1 .. Len(one) + Len(t) /\ Len(r) <= max
      BY <2>3, <2>5, <2>7, <2>9
    <2>11. r[1] = selected /\ 1 \in DOMAIN r
      BY <2>7, <2>9, <2>10, LenProperties
    <2>12. selected \in ToSet(r)
      BY <2>11 DEF ToSet
    <2> QED BY <1>6, <2>10, <2>12
  <1> QED BY <1>7, <1>8

-----------------------------------------------------------------------------
(* What the server answers.                                                 *)

MapDocSet == [id : Int, category : Categories, tags : SUBSET Tags, hit : BOOLEAN]
Docs(D) == D \subseteq MapDocSet /\ IsFiniteSet(D)

\* The columns of an answer; its tags are those of a category that has documents.
GoodData(x) ==
    /\ IsOwnList(x.categories) /\ IsOwnList(x.tags) /\ IsOwnList(x.documents)
    /\ ToSet(x.tags) # {} => x.asked.category \in ToSet(x.categories)

LEMMA EmptyIsGood == GoodData(EmptyData)
  <1>1. PICK e : e = <<>>
    OBVIOUS
  <1>2. IsOwnList(e) /\ ToSet(e) = {}
    BY <1>1, NoRows
  <1>3. PICK x : x = EmptyData
    OBVIOUS
  <1>4. x.categories = e /\ x.tags = e /\ x.documents = e
    BY <1>1, <1>3 DEF EmptyData
  <1> QED BY <1>2, <1>3, <1>4 DEF GoodData

\* A list of ids, and what is left of it from some row on.
LEMMA IdsAre ==
  ASSUME NEW D, Docs(D)
  PROVE  LatestFirst({d.id : d \in D}) \in Seq(Int)
  <1>1. PICK S : S = {d.id : d \in D}
    OBVIOUS
  <1>2. S \subseteq Int
    BY <1>1 DEF Docs, MapDocSet
  <1>3. PICK f : f = [d \in D |-> d.id]
    OBVIOUS
  <1>4. f \in Surjection(D, S)
    BY <1>1, <1>3 DEF Surjection
  <1>5. IsFiniteSet(S)
    BY <1>4, FS_Surjection DEF Docs
  <1>6. LatestFirst(S) \in Seq(S)
    BY <1>2, <1>5, LatestFirstIs
  <1>7. LatestFirst(S) \in Seq(Int)
    <2>1. PICK s : s = LatestFirst(S)
      OBVIOUS
    <2>2. PICK n \in Nat : n = Len(s)
      BY <1>6, <2>1, LenProperties
    <2>3. s \in [1 .. n -> S]
      BY <1>6, <2>1, <2>2, LenProperties
    <2>4. s \in [1 .. n -> Int]
      BY <1>2, <2>3
    <2> QED BY <2>1, <2>4
  <1> QED BY <1>1, <1>7

LEMMA PageIs ==
  ASSUME NEW s \in Seq(Int), NEW from \in Int, NEW n \in Nat
  PROVE  IsOwnList(First(SubSeq(s, from, Len(s)), n))
  <1>1. PICK m \in Nat : m = Len(s)
    BY LenProperties
  <1>2. PICK T : T = {s[i] : i \in from .. m}
    OBVIOUS
  <1>3. \A i \in from .. m : s[i] \in T
    BY <1>2
  <1>4. SubSeq(s, from, m) \in Seq(T)
    BY <1>3, SubSeqProperties
  <1>5. First(SubSeq(s, from, m), n) \in Seq(T)
    BY <1>4, FirstIs
  <1> QED BY <1>1, <1>5, ListIs

LEMMA TreeIs ==
  ASSUME NEW D, Docs(D), NEW a, a.page \in Int
  PROVE  GoodData(TreeOf(D, a)) /\ TreeOf(D, a).asked = a
  <1>1. PICK found : found = Matching(D, a.query)
    OBVIOUS
  <1>2. PICK mine : mine = InCategory(found, a.category)
    OBVIOUS
  <1>3. Docs(found) /\ Docs(mine) /\ mine \subseteq found
    <2>1. found \subseteq D
      BY <1>1 DEF Matching
    <2>2. mine \subseteq found
      BY <1>2 DEF InCategory
    <2>3. IsFiniteSet(found) /\ IsFiniteSet(mine)
      BY <2>1, <2>2, FS_Subset DEF Docs
    <2> QED BY <2>1, <2>2, <2>3 DEF Docs
  <1>4. PICK cs : cs = {d.category : d \in found}
    OBVIOUS
  <1>5. PICK cc : cc = [c \in cs |-> Cardinality(InCategory(found, c))]
    OBVIOUS
  <1>6. cs \subseteq Int /\ IsFiniteSet(cs)
    <2>1. cs \subseteq Categories
      BY <1>3, <1>4 DEF Docs, MapDocSet
    <2> QED BY <2>1, MapAssumption, FS_Subset
  <1>7. cc \in [cs -> Nat]
    <2>1. \A c : Cardinality(InCategory(found, c)) \in Nat
      <3>1. \A c : InCategory(found, c) \in SUBSET found
        BY DEF InCategory
      <3> QED BY <1>3, <3>1, FS_Subset, FS_CardinalityType DEF Docs
    <2> QED BY <1>5, <2>1
  <1>8. PICK categories : categories = ByCount(cc)
    OBVIOUS
  <1>9. categories \in Seq(cs) /\ ToSet(categories) = cs
    BY <1>6, <1>7, <1>8, ByCountIs
  <1>10. PICK ts : ts = UNION {TagsOf(d) : d \in mine}
    OBVIOUS
  <1>11. PICK tc : tc = [t \in ts |-> Cardinality(Tagged(mine, t))]
    OBVIOUS
  <1>12. ts \subseteq Int /\ IsFiniteSet(ts)
    <2>1. ts \subseteq Tags
      BY <1>3, <1>10, MapAssumption DEF Docs, MapDocSet, TagsOf
    <2> QED BY <2>1, MapAssumption, FS_Subset
  <1>13. tc \in [ts -> Nat]
    <2>1. \A t : Cardinality(Tagged(mine, t)) \in Nat
      <3>1. \A t : Tagged(mine, t) \in SUBSET mine
        BY DEF Tagged
      <3> QED BY <1>3, <3>1, FS_Subset, FS_CardinalityType DEF Docs
    <2> QED BY <1>11, <2>1
  <1>14. PICK all : all = ByCount(tc)
    OBVIOUS
  <1>15. all \in Seq(ts)
    BY <1>12, <1>13, <1>14, ByCountIs
  <1>16. PICK tags : tags = First(all, TagRows)
    OBVIOUS
  <1>17. tags \in Seq(ts)
    BY <1>15, <1>16, FirstIs, MapAssumption
  <1>18. PICK tag : tag = IF a.tag = None /\ tags # <<>> THEN tags[1] ELSE a.tag
    OBVIOUS
  <1>19. PICK ids : ids = LatestFirst({d.id : d \in Tagged(mine, tag)})
    OBVIOUS
  <1>20. ids \in Seq(Int)
    <2>1. Tagged(mine, tag) \in SUBSET mine
      BY DEF Tagged
    <2>2. Docs(Tagged(mine, tag))
      BY <1>3, <2>1, FS_Subset DEF Docs
    <2> QED BY <1>19, <2>2, IdsAre
  <1>21. PICK from \in Int : from = (a.page - 1) * MapPageSize + 1
    BY MapAssumption
  <1>22. PICK documents : documents = First(SubSeq(ids, from, Len(ids)), MapPageSize)
    OBVIOUS
  <1>23. IsOwnList(documents)
    BY <1>20, <1>22, PageIs, MapAssumption
  <1>24. PICK x : x = [asked |-> a, categories |-> categories, tags |-> tags,
                       documents |-> documents, total |-> Len(ids)]
    OBVIOUS
  <1>25. x = TreeOf(D, a)
    BY <1>1, <1>2, <1>4, <1>5, <1>8, <1>10, <1>11, <1>14, <1>16, <1>18, <1>19, <1>21,
       <1>22, <1>24 DEF TreeOf
  <1>26. x.asked = a /\ x.categories = categories /\ x.tags = tags /\ x.documents = documents
    BY <1>24
  <1>27. ToSet(tags) # {} => a.category \in cs
    <2>1. ToSet(tags) \subseteq ts
      BY <1>17, ListIs
    <2>2. ts # {} => mine # {}
      BY <1>10
    <2>3. mine # {} => a.category \in cs
      BY <1>2, <1>4 DEF InCategory
    <2> QED BY <2>1, <2>2, <2>3
  <1>28. GoodData(x)
    BY <1>9, <1>17, <1>23, <1>26, <1>27, ListIs DEF GoodData
  <1> QED BY <1>25, <1>26, <1>28

-----------------------------------------------------------------------------
(* One load at a time, for a user who waits.                                *)

MapUi(u) ==
    u \in [page : {"mindmap"}, category : {u.category}, tag : {u.tag}, pageNo : Int,
           query : {u.query}, data : {u.data}, loading : BOOLEAN, error : BOOLEAN,
           limit : MinNodes .. MaxNodes]

\* What is shown belongs together: an answer, and a tag of it.
MapShown(u) == MapUi(u) /\ GoodData(u.data) /\ (u.tag # None => u.tag \in ToSet(u.data.tags))

\* A load, and what it has come back with.
MapFits(c) ==
    /\ IsCall(c) /\ c.op = "tree" /\ c.arg.page \in Int
    /\ c.back /\ c.out.ok => GoodData(c.out.body) /\ c.out.body.asked = c.arg

\* The answer to what is selected is shown or under way.
MapLoads(n, u) ==
    \/ n = NoCalls /\ (~u.error => u.data.asked = KeyOf(u))
    \/ \E i \in Slots : \E c : n = Alone(i, c) /\ MapFits(c) /\ c.arg = KeyOf(u)

MapInv(n, d, u, l) ==
    /\ l \in Setting
    /\ l.patient => d = [docs |-> d.docs, stored |-> d.stored] /\ Docs(d.docs) /\ MapShown(u) /\ MapLoads(n, u)

MapInit ==
    /\ left \in Setting
    /\ \E docs \in SUBSET MapDocSet, raw \in Int \cup {None} :
          IsFiniteSet(docs) /\ MountMindMap(docs, raw)
MapSpec == MapInit /\ [][MapNext]_vars

\* The state of the map when it is opened is one of these.
LEMMA LimitIs ==
  ASSUME NEW raw \in Int \cup {None}
  PROVE  LoadedLimit(raw) \in MinNodes .. MaxNodes
  <1>1. DefaultNodes \in MinNodes .. MaxNodes /\ MinNodes \in Nat /\ MaxNodes \in Nat
    BY MapAssumption
  <1>2. CASE raw = None
    BY <1>1, <1>2 DEF LoadedLimit
  <1>3. CASE raw # None
    <2>1. raw \in Int
      BY <1>3
    <2>2. CASE raw < MinNodes
      BY <1>1, <1>3, <2>1, <2>2 DEF LoadedLimit
    <2>3. CASE ~(raw < MinNodes) /\ raw > MaxNodes
      BY <1>1, <1>3, <2>1, <2>3 DEF LoadedLimit
    <2>4. CASE ~(raw < MinNodes) /\ ~(raw > MaxNodes)
      <3>1. LoadedLimit(raw) = raw
        BY <1>3, <2>4 DEF LoadedLimit
      <3> QED BY <1>1, <2>1, <2>4, <3>1
    <2> QED BY <2>2, <2>3, <2>4
  <1> QED BY <1>2, <1>3

\* A load is sent when there is none.
LEMMA MapSent ==
  ASSUME NEW u, MapUi(u), NEW n, n = Send(NoCalls, "tree", KeyOf(u))
  PROVE  MapLoads(n, u)
  <1>1. PICK op : op = "tree"
    OBVIOUS
  <1>2. PICK a : a = KeyOf(u)
    OBVIOUS
  <1>3. n = Send(NoCalls, op, a) /\ op # "none"
    BY <1>1, <1>2
  <1>4. PICK i \in Slots : n = Alone(i, Fresh(op, a))
    BY <1>3, SendAlone
  <1>5. PICK c : c = Fresh(op, a)
    OBVIOUS
  <1>6. IsCall(c) /\ c.op = op /\ c.arg = a /\ ~c.back
    BY <1>3, <1>5, FreshIs
  <1>7. a.page \in Int
    BY <1>2 DEF KeyOf, Asked, MapUi
  <1>8. MapFits(c)
    BY <1>1, <1>6, <1>7 DEF MapFits
  <1> QED BY <1>2, <1>4, <1>5, <1>6, <1>8 DEF MapLoads

\* A tag that the answer does not have is given up; what changed is loaded.
LEMMA RenderedIs ==
  ASSUME NEW u, MapUi(u), GoodData(u.data), ~u.error => u.data.asked = KeyOf(ui),
         Rerendered(NoCalls, u)
  PROVE  MapShown(ui') /\ MapLoads(net', ui')
  <1>1. PICK v : v = DeselectTag(u)
    OBVIOUS
  <1>2. /\ MapUi(v) /\ v.data = u.data /\ v.error = u.error
        /\ v.tag # None => v.tag \in ToSet(v.data.tags)
    <2>1. CASE u.tag # None /\ u.tag \notin ToSet(u.data.tags)
      <3>1. PICK p \in Int : p = 1
        OBVIOUS
      <3>2. v = [u EXCEPT !.tag = None, !.pageNo = p]
        BY <1>1, <2>1, <3>1 DEF DeselectTag
      <3> QED BY <3>2 DEF MapUi
    <2>2. CASE ~(u.tag # None /\ u.tag \notin ToSet(u.data.tags))
      <3>1. v = u
        BY <1>1, <2>2 DEF DeselectTag
      <3> QED BY <2>2, <3>1
    <2> QED BY <2>1, <2>2
  <1>3. CASE KeyOf(v) # KeyOf(ui)
    <2>1. /\ ui' = [v EXCEPT !.loading = TRUE, !.error = FALSE]
          /\ net' = Send(NoCalls, "tree", KeyOf(v))
      BY <1>1, <1>3 DEF Rerendered
    <2>2. /\ MapUi(ui') /\ ui'.data = v.data /\ ui'.tag = v.tag
          /\ ui'.category = v.category /\ ui'.pageNo = v.pageNo /\ ui'.query = v.query
      BY <1>2, <2>1 DEF MapUi
    <2>3. KeyOf(ui') = KeyOf(v)
      BY <2>2 DEF KeyOf
    <2>4. MapShown(ui')
      BY <1>2, <2>2 DEF MapShown
    <2> QED BY <2>1, <2>2, <2>3, <2>4, MapSent
  <1>4. CASE KeyOf(v) = KeyOf(ui)
    <2>1. ui' = v /\ net' = NoCalls
      BY <1>1, <1>4 DEF Rerendered
    <2> QED BY <1>2, <1>4, <2>1 DEF MapShown, MapLoads
  <1> QED BY <1>3, <1>4

LEMMA MapStarts == MapInit => MapInv(net, db, ui, left)
  <1> SUFFICES ASSUME MapInit PROVE MapInv(net, db, ui, left)
    OBVIOUS
  <1>1. PICK docs \in SUBSET MapDocSet, raw \in Int \cup {None} :
           IsFiniteSet(docs) /\ MountMindMap(docs, raw)
    BY DEF MapInit
  <1>2. PICK limit \in MinNodes .. MaxNodes : limit = LoadedLimit(raw)
    BY LimitIs
  <1>3. PICK data : data = EmptyData
    OBVIOUS
  <1>4. GoodData(data)
    BY <1>3, EmptyIsGood
  <1>5. /\ ui = [page |-> "mindmap", category |-> None, tag |-> None, pageNo |-> 1,
                 query |-> FALSE, data |-> data, loading |-> TRUE, error |-> FALSE,
                 limit |-> limit]
        /\ db = [docs |-> docs, stored |-> limit]
        /\ net = Send(NoCalls, "tree", Asked(None, None, 1, FALSE))
    BY <1>1, <1>2, <1>3 DEF MountMindMap
  <1>6. MapShown(ui)
    BY <1>4, <1>5 DEF MapShown, MapUi
  <1>7. KeyOf(ui) = Asked(None, None, 1, FALSE)
    BY <1>5 DEF KeyOf
  <1>8. MapLoads(net, ui)
    BY <1>5, <1>6, <1>7, MapSent DEF MapShown
  <1>9. db = [docs |-> db.docs, stored |-> db.stored] /\ db.docs = docs
    BY <1>5
  <1>10. Docs(db.docs)
    BY <1>1, <1>9 DEF Docs
  <1> QED BY <1>6, <1>8, <1>9, <1>10 DEF MapInv, MapInit

\* The user: nothing is under way, and what is shown stays as it is.
LEMMA MapClick ==
  ASSUME MapInv(net, db, ui, left), NEW u, OnMap(u),
         MapUi(ui) => MapUi(u) /\ u.data = ui.data /\ u.error = ui.error,
         \/ db' = db
         \/ \E k : db' = [db EXCEPT !.stored = k]
  PROVE  MapInv(net', db', ui', left')
  <1>1. /\ left.acts > 0 /\ left' = Spent /\ (left.patient => Quiet) /\ Rerendered(net, u)
    BY DEF OnMap, Acts
  <1>2. left' \in Setting /\ left'.patient = left.patient
    BY <1>1, SpentIs DEF MapInv
  <1>3. SUFFICES ASSUME left.patient PROVE MapInv(net', db', ui', left')
    BY <1>2 DEF MapInv
  <1>4. /\ db = [docs |-> db.docs, stored |-> db.stored] /\ Docs(db.docs)
        /\ MapShown(ui) /\ MapLoads(net, ui)
    BY <1>3 DEF MapInv
  <1>5. net = NoCalls /\ (~ui.error => ui.data.asked = KeyOf(ui))
    <2>1. ASSUME NEW i \in Slots, NEW c, net = Alone(i, c), MapFits(c)
          PROVE  FALSE
      <3>1. c.op # "none"
        BY <2>1 DEF MapFits
      <3> QED BY <1>1, <1>3, <2>1, <3>1, AloneNotQuiet
    <2> QED BY <1>4, <2>1 DEF MapLoads
  <1>6. MapUi(u) /\ u.data = ui.data /\ u.error = ui.error
    BY <1>4 DEF MapShown
  <1>7. MapShown(ui') /\ MapLoads(net', ui')
    BY <1>1, <1>4, <1>5, <1>6, RenderedIs DEF MapShown
  <1>8. db' = [docs |-> db'.docs, stored |-> db'.stored] /\ db'.docs = db.docs
    BY <1>4
  <1> QED BY <1>2, <1>4, <1>7, <1>8 DEF MapInv

LEMMA MapUserStep ==
  ASSUME MapInv(net, db, ui, left), MapUser
  PROVE  MapInv(net', db', ui', left')
  <1>1. ASSUME NEW q \in BOOLEAN, SearchMap(q)
        PROVE  MapInv(net', db', ui', left')
    <2>0. PICK one \in Int : one = 1
      OBVIOUS
    <2>1. PICK u : u = [ui EXCEPT !.query = q, !.pageNo = one]
      OBVIOUS
    <2>2. OnMap(u) /\ db' = db
      BY <2>0, <1>1, <2>1 DEF SearchMap
    <2>3. MapUi(ui) => MapUi(u) /\ u.data = ui.data /\ u.error = ui.error
      BY <2>1 DEF MapUi
    <2> QED BY <2>2, <2>3, MapClick
  <1>2. ASSUME NEW c \in Categories, ClickCategory(c)
        PROVE  MapInv(net', db', ui', left')
    <2>0. PICK one \in Int : one = 1
      OBVIOUS
    <2>1. PICK u : u = [ui EXCEPT !.category = c, !.tag = None, !.pageNo = one]
      OBVIOUS
    <2>2. OnMap(u) /\ db' = db
      BY <2>0, <1>2, <2>1 DEF ClickCategory
    <2>3. MapUi(ui) => MapUi(u) /\ u.data = ui.data /\ u.error = ui.error
      BY <2>1 DEF MapUi
    <2> QED BY <2>2, <2>3, MapClick
  <1>3. ASSUME NEW t \in Tags, ClickTag(t)
        PROVE  MapInv(net', db', ui', left')
    <2>0. PICK one \in Int : one = 1
      OBVIOUS
    <2>1. PICK u : u = [ui EXCEPT !.tag = t, !.pageNo = one]
      OBVIOUS
    <2>2. OnMap(u) /\ db' = db
      BY <2>0, <1>3, <2>1 DEF ClickTag
    <2>3. MapUi(ui) => MapUi(u) /\ u.data = ui.data /\ u.error = ui.error
      BY <2>1 DEF MapUi
    <2> QED BY <2>2, <2>3, MapClick
  <1>4. ASSUME NEW p \in 1 .. 3, TurnPage(p)
        PROVE  MapInv(net', db', ui', left')
    <2>1. PICK u : u = [ui EXCEPT !.pageNo = p]
      OBVIOUS
    <2>2. OnMap(u) /\ db' = db
      BY <1>4, <2>1 DEF TurnPage
    <2>3. MapUi(ui) => MapUi(u) /\ u.data = ui.data /\ u.error = ui.error
      BY <2>1 DEF MapUi
    <2> QED BY <2>2, <2>3, MapClick
  <1>5. ASSUME NEW n \in MinNodes .. MaxNodes, SetLimit(n)
        PROVE  MapInv(net', db', ui', left')
    <2>1. PICK u : u = [ui EXCEPT !.limit = n]
      OBVIOUS
    <2>2. OnMap(u) /\ db' = [db EXCEPT !.stored = n]
      BY <1>5, <2>1 DEF SetLimit
    <2>3. MapUi(ui) => MapUi(u) /\ u.data = ui.data /\ u.error = ui.error
      BY <2>1 DEF MapUi
    <2> QED BY <2>2, <2>3, MapClick
  <1>6. CASE ResetMap
    <2>0. PICK one \in Int : one = 1
      OBVIOUS
    <2>5. PICK off : off = FALSE
      OBVIOUS
    <2>6. PICK nodes : nodes = DefaultNodes
      OBVIOUS
    <2>1. PICK u : u = [ui EXCEPT !.category = None, !.tag = None, !.pageNo = one,
                                  !.query = off, !.limit = nodes]
      OBVIOUS
    <2>2. OnMap(u) /\ db' = [db EXCEPT !.stored = DefaultNodes]
      BY <1>6, <2>0, <2>1, <2>5, <2>6 DEF ResetMap
    <2>3. nodes \in MinNodes .. MaxNodes
      BY <2>6, MapAssumption
    <2>4. MapUi(ui) => MapUi(u) /\ u.data = ui.data /\ u.error = ui.error
      BY <2>1, <2>3 DEF MapUi
    <2> QED BY <2>2, <2>4, MapClick
  <1> QED BY <1>1, <1>2, <1>3, <1>4, <1>5, <1>6 DEF MapUser

\* A document is deleted or gets another tag.
LEMMA MapElsewhereStep ==
  ASSUME MapInv(net, db, ui, left), MapElsewhere
  PROVE  MapInv(net', db', ui', left')
  <1>1. /\ left.others > 0 /\ left' = [left EXCEPT !.others = @ - 1] /\ net' = net /\ ui' = ui
    BY DEF MapElsewhere
  <1>2. left' \in Setting /\ left'.patient = left.patient
    BY <1>1 DEF MapInv, Setting
  <1>3. SUFFICES ASSUME left.patient PROVE MapInv(net', db', ui', left')
    BY <1>2 DEF MapInv
  <1>4. /\ db = [docs |-> db.docs, stored |-> db.stored] /\ Docs(db.docs)
        /\ MapShown(ui) /\ MapLoads(net, ui)
    BY <1>3 DEF MapInv
  <1>5. PICK D : db' = [db EXCEPT !.docs = D] /\ Docs(D)
    <2>1. PICK x \in db.docs :
             \/ db' = [db EXCEPT !.docs = @ \ {x}]
             \/ \E t \in Tags \ {Untagged} :
                   db' = [db EXCEPT !.docs = (@ \ {x}) \cup {[x EXCEPT !.tags = {t}]}]
      BY DEF MapElsewhere
    <2>2. PICK E : E = db.docs \ {x}
      OBVIOUS
    <2>3. Docs(E)
      BY <1>4, <2>2, FS_RemoveElement DEF Docs
    <2>4. CASE db' = [db EXCEPT !.docs = @ \ {x}]
      BY <2>2, <2>3, <2>4
    <2>5. ASSUME NEW t \in Tags \ {Untagged},
                 db' = [db EXCEPT !.docs = (@ \ {x}) \cup {[x EXCEPT !.tags = {t}]}]
          PROVE  \E F : db' = [db EXCEPT !.docs = F] /\ Docs(F)
      <3>1. PICK y : y = [x EXCEPT !.tags = {t}]
        OBVIOUS
      <3>2. y \in MapDocSet
        BY <1>4, <3>1 DEF Docs, MapDocSet
      <3>3. Docs(E \cup {y})
        BY <2>3, <3>2, FS_AddElement DEF Docs
      <3>4. db' = [db EXCEPT !.docs = E \cup {y}]
        BY <2>2, <2>5, <3>1
      <3> QED BY <3>3, <3>4
    <2> QED BY <2>1, <2>4, <2>5
  <1>6. db' = [docs |-> db'.docs, stored |-> db'.stored] /\ db'.docs = D
    BY <1>4, <1>5
  <1> QED BY <1>1, <1>2, <1>4, <1>5, <1>6 DEF MapInv

-----------------------------------------------------------------------------
(* What comes back.                                                         *)

LEMMA TreeServedStep ==
  ASSUME MapInv(net, db, ui, left), NEW j \in Slots, TreeServed(j) \/ Refuse(j)
  PROVE  MapInv(net', db', ui', left')
  <1>1. PICK found, body, after :
           /\ Serve(j, found, body, after) \/ Refuse(j)
           /\ after = db /\ body = TreeOf(db.docs, net[j].arg)
    BY DEF TreeServed, TreeAfter, TreeBody
  <1>2. left' \in Setting /\ left'.patient = left.patient
    BY <1>1, LeftIs DEF MapInv
  <1>3. SUFFICES ASSUME left.patient PROVE MapInv(net', db', ui', left')
    BY <1>2 DEF MapInv
  <1>4. /\ db = [docs |-> db.docs, stored |-> db.stored] /\ Docs(db.docs)
        /\ MapShown(ui) /\ MapLoads(net, ui)
    BY <1>3 DEF MapInv
  <1>5. PICK out : /\ out = Failure \/ out = Success(body)
                   /\ net' = ComeBack(net, j, out) /\ IsOpen(net, j) /\ ui' = ui /\ db' = db
    BY <1>1 DEF Serve, Refuse
  <1>a. PICK i \in Slots : \E c : net = Alone(i, c) /\ MapFits(c) /\ c.arg = KeyOf(ui)
    BY <1>4, <1>5, NoCallsQuiet DEF MapLoads
  <1>6. PICK c : net = Alone(i, c) /\ MapFits(c) /\ c.arg = KeyOf(ui)
    BY <1>a
  <1>7. j = i /\ net[i] = c /\ ~c.back
    BY <1>5, <1>6, AloneOpen
  <1>8. net' = Alone(i, Answer(c, out))
    BY <1>5, <1>6, <1>7, AloneIs
  <1>9. GoodData(body) /\ body.asked = c.arg
    BY <1>1, <1>4, <1>6, <1>7, TreeIs DEF MapFits
  <1>10. ~Failure.ok /\ Success(body).body = body
    BY OutcomeIs
  <1>11. out = Failure \/ out = Success(out.body)
    BY <1>5, <1>10
  <1>12. PICK k : k = Answer(c, out)
    OBVIOUS
  <1>13. IsCall(k) /\ k.op = c.op /\ k.arg = c.arg /\ k.out = out
    BY <1>6, <1>11, <1>12, AnswerIs DEF MapFits
  <1>14. MapFits(k)
    BY <1>5, <1>6, <1>9, <1>10, <1>13 DEF MapFits
  <1>15. MapLoads(net', ui')
    BY <1>5, <1>6, <1>8, <1>12, <1>13, <1>14 DEF MapLoads
  <1> QED BY <1>2, <1>4, <1>5, <1>15 DEF MapInv

LEMMA TreeShownStep ==
  ASSUME MapInv(net, db, ui, left), NEW j \in Slots, OnTree(j)
  PROVE  MapInv(net', db', ui', left')
  <1>1. SUFFICES ASSUME left.patient PROVE MapInv(net', db', ui', left')
    BY DEF MapInv, OnTree
  <1>2. /\ db = [docs |-> db.docs, stored |-> db.stored] /\ Docs(db.docs)
        /\ MapShown(ui) /\ MapLoads(net, ui)
    BY <1>1 DEF MapInv
  <1>3. IsBack(net, j)
    BY DEF OnTree, Back
  <1>a. PICK i \in Slots : \E c : net = Alone(i, c) /\ MapFits(c) /\ c.arg = KeyOf(ui)
    BY <1>2, <1>3, NoCallsQuiet DEF MapLoads
  <1>4. PICK c : net = Alone(i, c) /\ MapFits(c) /\ c.arg = KeyOf(ui)
    BY <1>a
  <1>5. j = i /\ net[i] = c /\ c.back
    BY <1>3, <1>4, AloneOpen
  <1>6. Settle(net, j) = NoCalls
    BY <1>4, <1>5, AloneIs
  <1>7. PICK data : data = IF c.out.ok THEN c.out.body ELSE EmptyData
    OBVIOUS
  <1>8. GoodData(data) /\ (c.out.ok => data.asked = KeyOf(ui))
    BY <1>4, <1>5, <1>7, EmptyIsGood DEF MapFits
  <1>9. c.out.ok \in BOOLEAN
    BY <1>4, OkIs DEF MapFits
  <1>10. PICK e \in BOOLEAN : e = (ui.error \/ ~c.out.ok)
    BY <1>9
  <1>11. PICK u : u = [ui EXCEPT !.data = data, !.error = e, !.loading = FALSE]
    OBVIOUS
  <1>12. Rerendered(NoCalls, u) /\ db' = db /\ left' = left
    BY <1>5, <1>6, <1>7, <1>10, <1>11 DEF OnTree
  <1>13. MapUi(u) /\ u.data = data /\ u.error = e
    BY <1>2, <1>11 DEF MapShown, MapUi
  <1>14. MapShown(ui') /\ MapLoads(net', ui')
    BY <1>8, <1>10, <1>12, <1>13, RenderedIs
  <1> QED BY <1>2, <1>12, <1>14 DEF MapInv

LEMMA MapStep ==
  ASSUME MapInv(net, db, ui, left), [MapNext]_vars
  PROVE  MapInv(net', db', ui', left')
  <1>1. CASE MapUser
    BY <1>1, MapUserStep
  <1>2. CASE MapElsewhere
    BY <1>2, MapElsewhereStep
  <1>3. ASSUME NEW i \in Slots, TreeServed(i) \/ Refuse(i)
        PROVE  MapInv(net', db', ui', left')
    BY <1>3, TreeServedStep
  <1>4. ASSUME NEW i \in Slots, OnTree(i)
        PROVE  MapInv(net', db', ui', left')
    BY <1>4, TreeShownStep
  <1>5. CASE UNCHANGED vars
    BY <1>5 DEF vars
  <1> QED BY <1>1, <1>2, <1>3, <1>4, <1>5 DEF MapNext

-----------------------------------------------------------------------------
LEMMA SelectionShown ==
  ASSUME MapInv(net, db, ui, left)
  PROVE  SelectionIsShown
  <1> SUFFICES ASSUME left.patient, Quiet, ~ui.error
               PROVE  /\ ui.data.asked = KeyOf(ui)
                      /\ ui.category \in ToSet(ui.data.categories) =>
                            ui.category \in ToSet(MapCategories(ui))
                      /\ ui.tag # None => ui.tag \in ToSet(MapTags(ui))
                      /\ \A rows \in {MapCategories(ui), MapTags(ui), MapDocuments(ui)} :
                            Len(rows) <= ui.limit
    BY DEF SelectionIsShown
  <1>1. MapShown(ui) /\ MapLoads(net, ui)
    BY DEF MapInv
  <1>2. ui.data.asked = KeyOf(ui)
    <2>1. ASSUME NEW i \in Slots, NEW c, net = Alone(i, c), MapFits(c)
          PROVE  FALSE
      <3>1. c.op # "none"
        BY <2>1 DEF MapFits
      <3> QED BY <2>1, <3>1, AloneNotQuiet
    <2> QED BY <1>1, <2>1 DEF MapLoads
  <1>3. ui.limit \in Nat \ {0}
    <2>1. ui.limit \in MinNodes .. MaxNodes
      BY <1>1 DEF MapShown, MapUi
    <2> QED BY <2>1, MapAssumption
  <1>4. /\ IsOwnList(ui.data.categories) /\ IsOwnList(ui.data.tags) /\ IsOwnList(ui.data.documents)
        /\ ToSet(ui.data.tags) # {} => ui.data.asked.category \in ToSet(ui.data.categories)
    BY <1>1 DEF MapShown, GoodData
  <1>5. /\ Len(MapCategories(ui)) <= ui.limit
        /\ ui.category \in ToSet(ui.data.categories) => ui.category \in ToSet(MapCategories(ui))
    BY <1>3, <1>4, Prioritized DEF MapCategories
  <1>6. ui.data.asked.category = ui.category
    BY <1>2 DEF KeyOf, Asked
  <1>7. ui.tag # None => ui.tag \in ToSet(MapTags(ui))
    <2>1. SUFFICES ASSUME ui.tag # None PROVE ui.tag \in ToSet(MapTags(ui))
      OBVIOUS
    <2>2. ui.tag \in ToSet(ui.data.tags)
      BY <1>1, <2>1 DEF MapShown
    <2>3. ui.category \in ToSet(MapCategories(ui))
      BY <1>4, <1>5, <1>6, <2>2
    <2>4. MapTags(ui) = PrioritizeSelected(ui.data.tags, ui.tag, ui.limit)
      BY <2>3 DEF MapTags
    <2> QED BY <1>3, <1>4, <2>2, <2>4, Prioritized
  <1>8. Len(MapTags(ui)) <= ui.limit
    <2>1. CASE ui.category \in ToSet(MapCategories(ui))
      <3>1. MapTags(ui) = PrioritizeSelected(ui.data.tags, ui.tag, ui.limit)
        BY <2>1 DEF MapTags
      <3> QED BY <1>3, <1>4, <3>1, Prioritized
    <2>2. CASE ui.category \notin ToSet(MapCategories(ui))
      <3>1. MapTags(ui) = <<>>
        BY <2>2 DEF MapTags
      <3> QED BY <1>3, <3>1, NoRows
    <2> QED BY <2>1, <2>2
  <1>9. Len(MapDocuments(ui)) <= ui.limit
    <2>1. PICK n \in Nat : n = ui.limit
      BY <1>3
    <2>2. Len(First(ui.data.documents, n)) <= n
      <3>1. PICK T : T = ToSet(ui.data.documents)
        OBVIOUS
      <3>2. ui.data.documents \in Seq(T)
        BY <1>4, <3>1 DEF IsOwnList
      <3> QED BY <3>2, FirstIs
    <2>3. CASE ui.tag \in ToSet(MapTags(ui))
      BY <2>1, <2>2, <2>3 DEF MapDocuments
    <2>4. CASE ui.tag \notin ToSet(MapTags(ui))
      <3>1. MapDocuments(ui) = <<>>
        BY <2>4 DEF MapDocuments
      <3> QED BY <2>1, <3>1, NoRows
    <2> QED BY <2>3, <2>4
  <1> QED BY <1>2, <1>5, <1>7, <1>8, <1>9

\* What is selected is what is shown, and it is drawn (SelectionIsShown), for any
\* documents, categories and tags, any number of rows and nodes, whatever is deleted or
\* tagged otherwise meanwhile: when the last load of a user who waits is in and has
\* not failed, it is the answer to his selection, and the selected tag is on the map.
THEOREM SelectionIsOnTheMap == MapSpec => []SelectionIsShown
  <1>1. MapInit => MapInv(net, db, ui, left)
    BY MapStarts
  <1>2. MapInv(net, db, ui, left) /\ [MapNext]_vars => MapInv(net, db, ui, left)'
    BY MapStep
  <1>3. MapInv(net, db, ui, left) => SelectionIsShown
    BY SelectionShown
  <1> QED BY <1>1, <1>2, <1>3, PTL DEF MapSpec
=============================================================================
