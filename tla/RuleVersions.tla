---------------------------- MODULE RuleVersions ----------------------------
(***************************************************************************)
(* Rulesets and their numbered versions (routes_rules.py): creation, import, *)
(* activation, and the version whose rules the ingest pipeline applies. A    *)
(* request reads, and commits later what it changed; an attribute that it    *)
(* sets to the value it has read is not written.                             *)
(***************************************************************************)
EXTENDS Integers, FiniteSets, FiniteSetsExt

CONSTANTS
    Rulesets, FirstRuleset,
    Callers,            \* requests that may be in flight
    MaxVersion,         \* bound: versions of a ruleset
    RuleSettings        \* inTurn: activations and imports are not in flight
                        \* together; and bounds: activations, updates of a ruleset

ASSUME RulesetsAssumption == FirstRuleset \in Rulesets
ASSUME VersionAssumption == MaxVersion \in Nat \ {0}
ASSUME RuleSettingsAssumption ==
    RuleSettings \subseteq [inTurn : BOOLEAN, activations : Nat, updates : Nat]

VARIABLES
    ruleset,    \* rows of rulesets: there, active, current (0 for null)
    version,    \* rows of rule_versions; published = 0 stands for null
    call,       \* requests in flight: what they have read
    stamp,      \* times given to published_at so far, each just before its commit
    chosen,     \* the version activated last, or none (history)
    allowance

ruleVars == <<ruleset, version, call, stamp, chosen, allowance>>

Row == [set : Rulesets, no : 1 .. MaxVersion, active : BOOLEAN, published : Nat]
NoRequest == [kind |-> "none"]
NewRuleset == [there |-> TRUE, active |-> TRUE, current |-> 0]

RulesInit ==
    /\ ruleset = [s \in Rulesets |-> [NewRuleset EXCEPT !.there = (s = FirstRuleset)]]
    /\ version = {}
    /\ call = [r \in Callers |-> NoRequest]
    /\ stamp = 0
    /\ chosen = {}
    /\ allowance \in RuleSettings

-----------------------------------------------------------------------------
Of(s) == {v \in version : v.set = s}
Numbers(s) == {v.no : v \in Of(s)}
Key(v) == <<v.set, v.no>>
Fresh(s, no) == [set |-> s, no |-> no, active |-> FALSE, published |-> 0]

\* Fault: no published_at.
Stamped_NoDate(v) == [v EXCEPT !.active = TRUE]
Stamped(v) == [v EXCEPT !.active = TRUE, !.published = stamp + 1]

\* Fault: no unique constraint.
Taken_Never(s, no) == FALSE
Taken(s, no) == no \in Numbers(s)

Free(r) == call[r].kind = "none"
Asked(r, kind) == call[r].kind = kind
Ask(r, q) == Free(r) /\ call' = [call EXCEPT ![r] = q]
Answer(r) == call' = [call EXCEPT ![r] = NoRequest]

\* _get_active_rules: of the active versions of all rulesets, switched off or not,
\* the one published last; there may be none.
InUse ==
    {Key(v) : v \in {w \in version :
        w.active /\ \A x \in version : x.active => x.published <= w.published}}

\* An activation reads the version, its ruleset and all versions of it. Where
\* activations are in turn, none is asked for while another is under way.
Activating(r) == Asked(r, "activate") \/ Asked(r, "import")
MayActivate ==
    /\ stamp < allowance.activations
    /\ allowance.inTurn => \A r \in Callers : ~Activating(r)

CreateRuleset(s) ==
    /\ ~ruleset[s].there
    /\ ruleset' = [ruleset EXCEPT ![s] = NewRuleset]
    /\ UNCHANGED <<version, call, stamp, chosen, allowance>>

\* A ruleset is switched on or off, which leaves its versions alone.
UpdateRuleset(s) ==
    /\ ruleset[s].there /\ allowance.updates > 0
    /\ ruleset' = [ruleset EXCEPT ![s].active = ~@]
    /\ allowance' = [allowance EXCEPT !.updates = @ - 1]
    /\ UNCHANGED <<version, call, stamp, chosen>>

\* A new version takes the number after the last; if that is taken by the time it
\* is inserted the request fails.
AskVersion(r, s) ==
    /\ ruleset[s].there /\ Cardinality(Of(s)) < MaxVersion
    /\ Ask(r, [kind |-> "create", set |-> s, no |-> Max(Numbers(s) \cup {0}) + 1])
    /\ UNCHANGED <<ruleset, version, stamp, chosen, allowance>>

CreateVersion(r) ==
    LET q == call[r] IN
    /\ Asked(r, "create")
    /\ version' = IF Taken(q.set, q.no) THEN version ELSE version \cup {Fresh(q.set, q.no)}
    /\ Answer(r)
    /\ UNCHANGED <<ruleset, stamp, chosen, allowance>>

\* An import commits its ruleset before it inserts the versions.
AskImport(r, s, n, latest) ==
    /\ ~ruleset[s].there
    /\ latest => MayActivate
    /\ ruleset' = [ruleset EXCEPT ![s] = NewRuleset]
    /\ Ask(r, [kind |-> "import", set |-> s, no |-> n, latest |-> latest])
    /\ UNCHANGED <<version, stamp, chosen, allowance>>

\* Fault: the imported ruleset does not get its current version.
Import_NoCurrent(r) ==
    LET q == call[r]
        made == {Fresh(q.set, i) : i \in 1 .. q.no}
        last == Fresh(q.set, q.no)
    IN  /\ Asked(r, "import")
        /\ \A i \in 1 .. q.no : ~Taken(q.set, i)
        /\ version' = version \cup
             IF q.latest THEN (made \ {last}) \cup {Stamped(last)} ELSE made
        /\ stamp' = IF q.latest THEN stamp + 1 ELSE stamp
        /\ chosen' = IF q.latest THEN {Key(last)} ELSE chosen
        /\ Answer(r)
        /\ UNCHANGED <<ruleset, allowance>>

\* The versions are numbered from 1; the last may be activated.
Import(r) ==
    LET q == call[r]
        made == {Fresh(q.set, i) : i \in 1 .. q.no}
        last == Fresh(q.set, q.no)
    IN  /\ Asked(r, "import")
        /\ \A i \in 1 .. q.no : ~Taken(q.set, i)
        /\ version' = version \cup
             IF q.latest THEN (made \ {last}) \cup {Stamped(last)} ELSE made
        /\ ruleset' = IF q.latest THEN [ruleset EXCEPT ![q.set].current = q.no]
                                  ELSE ruleset
        /\ stamp' = IF q.latest THEN stamp + 1 ELSE stamp
        /\ chosen' = IF q.latest THEN {Key(last)} ELSE chosen
        /\ Answer(r)
        /\ UNCHANGED allowance

\* A row in their way, or a version that is no object, fails the request: the
\* ruleset stays, without versions of this import.
ImportFails(r) ==
    /\ Asked(r, "import")
    /\ Answer(r)
    /\ UNCHANGED <<ruleset, version, stamp, chosen, allowance>>

AskActivate(r, v) ==
    /\ MayActivate
    /\ Ask(r, [kind |-> "activate", set |-> v.set, no |-> v.no, seen |-> Of(v.set),
               current |-> ruleset[v.set].current])
    /\ UNCHANGED <<ruleset, version, stamp, chosen, allowance>>

\* Fault: a version that was published before keeps its date.
Activated_OldStamp(q, v) ==
    LET seen == \E x \in q.seen : x.no = v.no /\ x.active IN
    IF v.no = q.no
    THEN [v EXCEPT !.active = @ \/ ~seen, !.published = IF @ = 0 THEN stamp + 1 ELSE @]
    ELSE [v EXCEPT !.active = @ /\ ~seen]

\* The row a version has after an activation: one seen active is switched off, the
\* chosen one is switched on unless it was seen on.
Activated(q, v) ==
    LET seen == \E x \in q.seen : x.no = v.no /\ x.active IN
    IF v.no = q.no THEN [v EXCEPT !.active = @ \/ ~seen, !.published = stamp + 1]
                   ELSE [v EXCEPT !.active = @ /\ ~seen]

Activate(r) ==
    LET q == call[r] IN
    /\ Asked(r, "activate")
    /\ version' = {IF v.set = q.set THEN Activated(q, v) ELSE v : v \in version}
    /\ ruleset' = IF q.current = q.no THEN ruleset
                  ELSE [ruleset EXCEPT ![q.set].current = q.no]
    /\ stamp' = stamp + 1
    /\ chosen' = {<<q.set, q.no>>}
    /\ Answer(r)
    /\ UNCHANGED allowance

-----------------------------------------------------------------------------
RulesNext ==
    \/ \E s \in Rulesets : CreateRuleset(s) \/ UpdateRuleset(s)
    \/ \E r \in Callers :
         \/ \E s \in Rulesets :
              \/ AskVersion(r, s)
              \/ \E n \in 1 .. MaxVersion, latest \in BOOLEAN : AskImport(r, s, n, latest)
         \/ \E v \in version : AskActivate(r, v)
         \/ CreateVersion(r) \/ Import(r) \/ ImportFails(r) \/ Activate(r)

RulesSpec == RulesInit /\ [][RulesNext]_ruleVars

-----------------------------------------------------------------------------
(* Properties *)

RulesTypeOK ==
    /\ ruleset \in [Rulesets -> [there : BOOLEAN, active : BOOLEAN, current : Nat]]
    /\ version \subseteq Row
    /\ \A v \in version : ruleset[v.set].there /\ (v.active => v.published # 0)
    /\ stamp \in Nat /\ Cardinality(chosen) <= 1

\* Which rules are in use is what an administrator decided. Whatever creations,
\* imports and activations are in flight, the versions of a ruleset are numbered 1,
\* 2, ... without a gap or a number given twice. And if activations are in turn,
\* the current version of a ruleset is its only active one, and the pipeline
\* applies the version that was activated last, in whichever ruleset. (Two
\* activations at once can leave two versions active, and from there none.)
RulesAsActivated ==
    /\ \A s \in Rulesets : Numbers(s) = 1 .. Cardinality(Of(s))
    /\ allowance.inTurn =>
         /\ \A s \in Rulesets :
              {v.no : v \in {w \in Of(s) : w.active}} =
                  IF ruleset[s].current = 0 THEN {} ELSE {ruleset[s].current}
         /\ InUse = chosen
=============================================================================
