--------------------------- MODULE RulesWorkspace ---------------------------
(* The rules page (components/rules/RulesWorkspace.tsx): the list of rulesets,  *)
(* the versions of the selected one, an editor with the rules of the selected    *)
(* version as a form and as JSON, and actions on rulesets and versions. None of   *)
(* its loads is ever cancelled; one busy flag serves all actions.                 *)
EXTENDS Page, Sequences

CONSTANTS
    Rulesets,       \* those that exist or can be created or imported
    Texts,          \* what the form can say
    RulesReads      \* actions that change nothing: "test", "simulate", "conflicts",
                    \* "backfill" and "export"

ASSUME RulesetsAssumption == None \notin Rulesets \cup Nat
ASSUME TextsAssumption == Texts # {}
ASSUME ReadsAssumption ==
    RulesReads \cap ({"none", "rulesets", "rulesDetail", "ruleVersion", "createRuleset",
                     "updateRuleset", "import", "createVersion", "activate"}) = {}

\* A rules_json: what the form editor has fields for, and whether a rule has what
\* only the engine knows (`priority`, keywords of `any` source).
RulesJson == [text : Texts, engine : BOOLEAN]

RulesDb(sets, versions) == [sets |-> sets, versions |-> versions]

VersionsOf(r) == {v \in 1 .. Len(db.versions) : db.versions[v].set = r}
DetailOf(r) == [of |-> r, versions |-> {[id |-> v, active |-> db.versions[v].active] :
                                           v \in VersionsOf(r)}]

RulesWrites == {"createRuleset", "updateRuleset", "import", "createVersion", "activate"}

RulesFound(op, arg) ==
    CASE op = "createRuleset" -> arg.set \notin db.sets
      [] op = "rulesDetail" -> arg.set \in db.sets
      [] OTHER -> TRUE

RulesBody(op, arg) ==
    CASE op = "rulesets" -> db.sets
      [] op = "rulesDetail" -> DetailOf(arg.set)
      [] op = "ruleVersion" -> [id |-> arg, rules |-> db.versions[arg].rules]
      [] op = "createVersion" -> Len(db.versions) + 1
      [] OTHER -> arg

RulesAfter(op, arg) ==
    CASE op \in {"createRuleset", "import"} -> [db EXCEPT !.sets = @ \cup {arg.set}]
      [] op = "createVersion" ->
           [db EXCEPT !.versions = Append(@, [set |-> arg.set, rules |-> arg.rules,
                                              active |-> FALSE])]
      [] op = "activate" ->
           [db EXCEPT !.versions = [v \in DOMAIN @ |->
               IF @[v].set = db.versions[arg.version].set
               THEN [@[v] EXCEPT !.active = (v = arg.version)] ELSE @[v]]]
      [] OTHER -> db

-----------------------------------------------------------------------------
\* The form has no field for what only the engine knows: parsing drops it.
ToForm(rules) == [rules EXCEPT !.engine = FALSE]
Template == [text |-> CHOOSE t \in Texts : TRUE, engine |-> FALSE]

\* The rules of a version are put in both editors.
Editing(rules) == [form |-> ToForm(rules), json |-> rules]

NoDetail == [of |-> None, versions |-> {}]

\* What a load of the list, or of the versions of a ruleset, is part of: of an
\* action that selects something once it is done, or loads the versions after the
\* list; or of none.
ForItself == [action |-> FALSE, select |-> None, reload |-> None]
ToSelect(x) == [action |-> TRUE, select |-> x, reload |-> None]
ToReload(r) == [action |-> TRUE, select |-> None, reload |-> r]

MountRules(sets, versions, mode) ==
    /\ net = Send(NoCalls, "rulesets", ForItself)
    /\ db = RulesDb(sets, versions)
    /\ ui = [page |-> "rules", sets |-> {}, set |-> None,
             detail |-> NoDetail, version |-> None, shown |-> None,
             editor |-> Editing(Template), mode |-> mode, listing |-> TRUE,
             busy |-> None]

\* The effects on the selected ruleset and on the selected version load them.
SelectSet(n, r) ==
    IF r = ui.set \/ r = None THEN n ELSE Send(n, "rulesDetail", [set |-> r, of |-> ForItself])
SelectVersion(n, v) == IF v = ui.version \/ v = None THEN n ELSE Send(n, "ruleVersion", v)
ShownFor(v) == IF v = None THEN None ELSE ui.shown

OnRules(n) == ui.page = "rules" /\ Acts(n)
Action(op, of) == [op |-> op, of |-> of]

-----------------------------------------------------------------------------
(* The user *)

RefreshRulesets ==
    /\ OnRules(1) /\ ~ui.listing
    /\ net' = Send(net, "rulesets", ForItself)
    /\ ui' = [ui EXCEPT !.listing = TRUE]
    /\ left' = Spent /\ UNCHANGED db

ChooseRuleset(r) ==
    /\ OnRules(1) /\ r \in ui.sets /\ r # ui.set
    /\ net' = SelectSet(net, r)
    /\ ui' = [ui EXCEPT !.set = r]
    /\ left' = Spent /\ UNCHANGED db

ChooseVersion(v) ==
    /\ OnRules(1) /\ \E x \in ui.detail.versions : x.id = v /\ v # ui.version
    /\ net' = SelectVersion(net, v)
    /\ ui' = [ui EXCEPT !.version = v]
    /\ left' = Spent /\ UNCHANGED db

\* A field of the form: the JSON is written anew from the form.
EditForm(t) ==
    /\ OnRules(0) /\ ui.mode = "form" /\ t # ui.editor.form.text
    /\ LET form == [ui.editor.form EXCEPT !.text = t] IN
       ui' = [ui EXCEPT !.editor = [@ EXCEPT !.form = form, !.json = form]]
    /\ left' = Spent /\ UNCHANGED <<net, db>>

\* The JSON editor leaves the form alone until it is applied to it.
EditJson(t) ==
    /\ OnRules(0) /\ ui.mode = "json" /\ t # ui.editor.json.text
    /\ ui' = [ui EXCEPT !.editor.json.text = t]
    /\ left' = Spent /\ UNCHANGED <<net, db>>

ApplyJson ==
    /\ OnRules(0) /\ ui.mode = "json"
    /\ LET form == ToForm(ui.editor.json) IN
       ui' = [ui EXCEPT !.editor = [@ EXCEPT !.form = form, !.json = form]]
    /\ left' = Spent /\ UNCHANGED <<net, db>>

\* runAction: the key of the newest action is the one that disables its button.
RunAction(action, arg) ==
    /\ ui.busy # action
    /\ net' = Send(net, action.op, arg)
    /\ ui' = [ui EXCEPT !.busy = action]
    /\ left' = Spent /\ UNCHANGED db

CreateRuleset(op, r) ==
    /\ OnRules(1) /\ op \in {"createRuleset", "import"}
    /\ RunAction(Action(op, None), [set |-> r])
UpdateRuleset ==
    /\ OnRules(1) /\ ui.set \in ui.sets
    /\ RunAction(Action("updateRuleset", None), [set |-> ui.set])

\* What is posted comes from the editor in use; both are set to it.
CreateVersion ==
    /\ OnRules(1) /\ ui.set # None /\ ui.busy # Action("createVersion", None)
    /\ LET rules == IF ui.mode = "json" THEN ui.editor.json ELSE ui.editor.form IN
       /\ net' = Send(net, "createVersion", [set |-> ui.set, rules |-> rules])
       /\ ui' = [ui EXCEPT !.busy = Action("createVersion", None), !.editor = Editing(rules)]
    /\ left' = Spent /\ UNCHANGED db

ActivateVersion(v) ==
    /\ OnRules(1) /\ [id |-> v, active |-> FALSE] \in ui.detail.versions
    /\ RunAction(Action("activate", v), [version |-> v, set |-> ui.set])

\* Test, simulation, conflicts and backfill are of the version selected; the
\* export is of the ruleset.
Examine(op) ==
    /\ OnRules(1) /\ op \in RulesReads
    /\ IF op = "export" THEN ui.set # None ELSE ui.version # None
    /\ RunAction(Action(op, None), [of |-> IF op = "export" THEN ui.set ELSE ui.version])

-----------------------------------------------------------------------------
(* What comes back *)

\* The selected ruleset stays if it is still there, else the first one is taken.
OnRulesets(i) ==
    /\ Back(i, "rulesets")
    /\ LET ok == net[i].out.ok
           arg == net[i].arg
           sets == IF ok THEN net[i].out.body ELSE ui.sets
           kept == IF ui.set \in sets \/ ~ok THEN ui.set
                   ELSE IF sets = {} THEN None ELSE CHOOSE r \in sets : TRUE
           next == IF arg.select = None THEN kept ELSE arg.select
           n == SelectSet(Settle(net, i), next)
       IN  /\ arg.reload # None => HasRoom(n, 1)
           /\ net' = IF arg.reload = None THEN n
                     ELSE Send(n, "rulesDetail", [set |-> arg.reload, of |-> ToSelect(None)])
           /\ ui' = [ui EXCEPT !.sets = sets, !.set = next, !.listing = FALSE,
                               !.busy = IF arg.action /\ arg.reload = None THEN None ELSE @]
    /\ UNCHANGED <<db, left>>

\* Fault: the version of another ruleset stays selected.
PickVersion_Any(prev, versions) ==
    IF prev # None THEN prev
    ELSE IF versions = {} THEN None ELSE (CHOOSE x \in versions : TRUE).id

\* The selected version stays if the ruleset has it; else its active one is
\* taken, or the first of the list, or none.
PickVersion(prev, versions) ==
    LET active == {x \in versions : x.active}
        ids == {x.id : x \in versions}
    IN  IF prev \in ids THEN prev
        ELSE IF active # {} THEN (CHOOSE x \in active : TRUE).id
        ELSE IF ids # {} THEN CHOOSE v \in ids : \A w \in ids : w <= v
        ELSE None

OnRulesDetail(i) ==
    /\ Back(i, "rulesDetail")
    /\ LET ok == net[i].out.ok
           of == net[i].arg.of
           detail == IF ok THEN net[i].out.body ELSE NoDetail
           v == IF of.select # None THEN of.select
                ELSE IF ok THEN PickVersion(ui.version, detail.versions) ELSE None
       IN  /\ net' = SelectVersion(Settle(net, i), v)
           /\ ui' = [ui EXCEPT !.detail = detail, !.version = v, !.shown = ShownFor(v),
                               !.busy = IF of.action THEN None ELSE @]
    /\ UNCHANGED <<db, left>>

\* A failed load leaves the editors as they are.
OnRuleVersion(i) ==
    /\ Back(i, "ruleVersion")
    /\ net' = Settle(net, i)
    /\ LET out == net[i].out IN
       ui' = IF out.ok THEN [ui EXCEPT !.shown = out.body.id,
                                       !.editor = Editing(out.body.rules)]
             ELSE [ui EXCEPT !.shown = None]
    /\ UNCHANGED <<db, left>>

\* A new or imported ruleset is selected after the list is loaded anew; after a
\* change of a ruleset the list and its versions are.
OnRulesetWritten(i) ==
    /\ Good(i, "createRuleset") \/ Good(i, "import") \/ Good(i, "updateRuleset")
    /\ net' = Send(Settle(net, i), "rulesets",
                   IF net[i].op = "updateRuleset" THEN ToReload(net[i].arg.set)
                   ELSE ToSelect(net[i].arg.set))
    /\ ui' = [ui EXCEPT !.listing = TRUE]
    /\ UNCHANGED <<db, left>>

\* A created or activated version is selected after the reload of the versions of
\* the ruleset of the click, whether that succeeds or not.
OnVersionWritten(i) ==
    /\ Good(i, "createVersion") \/ Good(i, "activate")
    /\ LET arg == net[i].arg IN
       net' = Send(Settle(net, i), "rulesDetail",
                   [set |-> arg.set,
                    of |-> ToSelect(IF net[i].op = "activate" THEN arg.version
                                    ELSE net[i].out.body)])
    /\ UNCHANGED <<db, ui, left>>

OnExamined(i) ==
    /\ IsBack(net, i) /\ net[i].out.ok /\ net[i].op \in RulesReads
    /\ net' = Settle(net, i)
    /\ ui' = [ui EXCEPT !.busy = None]
    /\ UNCHANGED <<db, left>>

RulesActionFails(i) ==
    /\ IsBack(net, i) /\ ~net[i].out.ok /\ net[i].op \in RulesWrites \cup RulesReads
    /\ net' = Settle(net, i)
    /\ ui' = [ui EXCEPT !.busy = None]
    /\ UNCHANGED <<db, left>>

-----------------------------------------------------------------------------
RulesUser ==
    \/ RefreshRulesets
    \/ \E r \in Rulesets : ChooseRuleset(r) \/ \E op \in {"createRuleset", "import"} : CreateRuleset(op, r)
    \/ UpdateRuleset
    \/ \E v \in 1 .. Len(db.versions) : ChooseVersion(v) \/ ActivateVersion(v)
    \/ \E t \in Texts : EditForm(t) \/ EditJson(t)
    \/ ApplyJson
    \/ CreateVersion
    \/ \E op \in RulesReads : Examine(op)

RulesAnswered(i) ==
    \/ OnRulesets(i) \/ OnRulesDetail(i) \/ OnRuleVersion(i) \/ OnRulesetWritten(i)
    \/ OnVersionWritten(i) \/ OnExamined(i) \/ RulesActionFails(i)

RulesServed(i) ==
    LET op == net[i].op
        arg == net[i].arg
    IN  Serve(i, RulesFound(op, arg), RulesBody(op, arg), RulesAfter(op, arg))

RulesNext ==
    /\ ui.page = "rules"
    /\ \/ RulesUser
       \/ \E i \in Slots :
             RulesServed(i) \/ Refuse(i) \/ RulesAnswered(i)

-----------------------------------------------------------------------------
(* Properties *)

\* For a user who waits, what the page shows belongs together, whatever was
\* refused: the versions are those of the selected ruleset, the selected version
\* is one of them, so that activation, backfill and test are of the ruleset shown,
\* and the editor was last filled from it. A user who does not wait can get the
\* versions of one ruleset under another: no load of the page is cancelled.
RulesBelongTogether ==
    ui.page = "rules" /\ left.patient /\ Quiet =>
        /\ ui.detail.of \in {None, ui.set}
        /\ ui.version # None /\ ui.detail.of # None =>
              \E x \in ui.detail.versions : x.id = ui.version
        /\ ui.shown \in {None, ui.version}
        /\ \A x \in ui.detail.versions : db.versions[x.id].set = ui.set
=============================================================================
