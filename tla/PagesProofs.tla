---------------------------- MODULE PagesProofs ----------------------------
(***************************************************************************)
(* What holds of the dashboard and of the page of one document for every    *)
(* number of calls under way, whatever they show and whatever the user does. *)
(***************************************************************************)
EXTENDS DashboardSummary, DocumentPage, FormsProofs

-----------------------------------------------------------------------------
(* The dashboard.                                                           *)

StoredTasks ==
    [Tasks -> [month : Months \cup {0}, rev : Nat, link : LinkDocs \cup {None}]]

\* There is room for what the page loads when it is mounted, and no answer is lost:
\* what a lost answer was about is loaded no more, so the page shows old tasks.
DashboardInit ==
    /\ left \in Setting /\ left.lost = 0 /\ MaxCalls >= 3
    /\ \E api \in BOOLEAN, tasks \in StoredTasks, month \in Months,
          local \in TaskSettings \cup {None} : MountDashboard(api, tasks, month, local)

DashboardSpec == DashboardInit /\ [][DashboardNext]_vars

ListShape(l) ==
    l \in [of : {l.of}, items : {l.items}, loading : BOOLEAN, wanted : {l.wanted}]
FormShape(f) ==
    f \in [open : {f.open}, task : {f.task}, editing : {f.editing}, link : {f.link},
           file : {f.file}, files : {f.files}, filesLoading : {f.filesLoading}]
DashboardShape(u) ==
    /\ u \in [page : {"dashboard"}, summary : {u.summary}, month : {u.month},
              calendar : {u.calendar}, list : {u.list}, settings : {u.settings},
              settingsLoading : BOOLEAN, loaded : BOOLEAN, supported : BOOLEAN,
              local : {u.local}, form : {u.form}, modal : {u.modal}]
    /\ ListShape(u.list) /\ FormShape(u.form)

DashboardTyped == Calls(net) /\ DashboardShape(ui) /\ left \in Setting /\ left.lost = 0

\* Of everybody: the load of the list that counts is of the window wanted.
LiveLists(n, w) == \A i \in Slots : n[i].op = "list" /\ n[i].live => n[i].arg.of = w
AskedOf(n, l) == LiveLists(n, l.wanted) /\ (~l.loading => l.of = l.wanted)
ListAsked == AskedOf(net, ui.list)

\* Of a user who waits, with the calls n, the server d and the page u: what is on the
\* screen is what the server has.
MonthsOf(tasks, S) ==
    {[task |-> t, rev |-> tasks[t].rev, link |-> tasks[t].link] :
        t \in {x \in Tasks : tasks[x].month \in S}}

CalendarRight(d, u) ==
    u.calendar.of = u.month /\ u.calendar.items \in {{}, MonthsOf(d.tasks, {u.month})}
ListRight(d, u) == u.list.items \in {{}, MonthsOf(d.tasks, Window[u.settings.form])}
FilesRight(u) == {u.form.file, u.form.files} \subseteq {None, u.form.link}

\* The settings are those that are stored, by the server or by the browser, unless
\* they could not be loaded.
StoredOf(d, u) ==
    IF d.api THEN d.settings ELSE IF u.local = None THEN DefaultSettings ELSE u.local
SettingsRight(d, u) == u.loaded => u.settings = StoredOf(d, u)

SettingsKnown(d, u) ==
    /\ d \in [tasks : {d.tasks}, settings : TaskSettings, meant : TaskSettings,
              api : BOOLEAN, blind : BOOLEAN]
    /\ ~d.blind => StoredOf(d, u) = d.meant
    /\ u.settings \in TaskSettings /\ u.local \in TaskSettings \cup {None}
    /\ ~u.supported => ~d.api

\* The loads of the page, each once; the settings decide which list is loaded.
LoadFits(c, d, u) ==
    /\ c.live
    /\ c.op \in {"summary", "settings", "calendar", "list"}
    /\ c.op = "settings" => 
          u.settingsLoading /\ (c.out.ok => c.out.body = IF d.api THEN d.settings ELSE None)
    /\ c.op = "calendar" =>
          c.arg.of = u.month /\ (c.out.ok => c.out.body = MonthsOf(d.tasks, {u.month}))
    /\ c.op = "list" =>
          /\ c.arg.of = u.settings.form
          /\ c.out.ok => c.out.body = MonthsOf(d.tasks, Window[u.settings.form])

LoadsFit(n, d, u) ==
    \A i \in Slots : n[i].op # "none" =>
        LoadFits(n[i], d, u) /\ \A j \in Slots : n[j].op = n[i].op => j = i

Loading(n, d, u) ==
    /\ LoadsFit(n, d, u)
    /\ NoneOf(n, "settings") => ~u.settingsLoading
    /\ NoneOf(n, "settings") \/ NoneOf(n, "list")
    /\ NoneOf(n, "calendar") => CalendarRight(d, u)
    /\ NoneOf(n, "list") /\ NoneOf(n, "settings") => ListRight(d, u)
    /\ FilesRight(u) /\ SettingsRight(d, u)

\* The call of an action, which is alone, and what it leaves to be loaded.
FilesFits(c, d, u) ==
    /\ CalendarRight(d, u) /\ ListRight(d, u) /\ SettingsRight(d, u)
    /\ u.form.file \in {None, u.form.link}
    /\ c.arg = u.form.link /\ (c.out.ok => c.out.body = c.arg)

SaveFits(c, d, u) ==
    /\ FilesRight(u) /\ SettingsRight(d, u)
    /\ c.arg.at = u.month /\ c.arg.window = u.settings.form
    /\ ~c.out.ok => CalendarRight(d, u) /\ ListRight(d, u)

PutFits(c, d, u) ==
    /\ CalendarRight(d, u) /\ ListRight(d, u) /\ FilesRight(u)
    /\ c.arg.put \in TaskSettings /\ c.arg.loaded = u.loaded
    /\ c.op = "putForm" => c.arg.put.days = u.settings.days
    /\ c.op = "putDays" => c.arg.put.form = u.settings.form
    /\ IF c.out.ok /\ d.api THEN c.out.body = c.arg.put /\ d.settings = c.arg.put
       ELSE SettingsRight(d, u) /\ (c.out.ok => c.out.body = None)

Acting(c, d, u) ==
    /\ IsCall(c) /\ c.live
    /\ c.op \in {"files", "saveTask", "putForm", "putDays"} /\ ~u.settingsLoading
    /\ c.op = "files" => FilesFits(c, d, u)
    /\ c.op = "saveTask" => SaveFits(c, d, u)
    /\ c.op \in {"putForm", "putDays"} => PutFits(c, d, u)

UserWaits(n, d, u) ==
    /\ SettingsKnown(d, u)
    /\ Loading(n, d, u) \/ \E i \in Slots : \E c \in {n[i]} : n = Alone(i, c) /\ Acting(c, d, u)

TasksInv == DashboardTyped /\ ListAsked /\ (left.patient => UserWaits(net, db, ui))

LEMMA ListsKept ==
  ASSUME NEW n, NEW m, NEW i \in Slots, NEW c, Changed(n, m, i, c), NEW w, LiveLists(n, w),
         c.op # "list" \/ (n[i].op = "list" /\ c.arg = n[i].arg /\ c.live = n[i].live)
  PROVE  LiveLists(m, w)
  BY DEF Changed, LiveLists

LEMMA LoadListIs ==
  ASSUME NEW n, Calls(n), FreeSlots(n) # {}, NEW w, NEW form
  PROVE  /\ Calls(LoadList(n, w, form)) /\ LiveLists(LoadList(n, w, form), w)
         /\ NoneOf(n, "list") =>
               LoadList(n, w, form) = Send(n, "list", [of |-> w, form |-> form])
  <1> DEFINE k == Cancel(n, "list")
             arg == [of |-> w, form |-> form]
  <1>1. /\ Calls(k) /\ FreeSlots(k) = FreeSlots(n) /\ (NoneOf(n, "list") => k = n)
        /\ \A i \in Slots : k[i].op = "list" => ~k[i].live
    BY CancelIs
  <1>2. LoadList(n, w, form) = Send(k, "list", arg)
    BY DEF LoadList, Rerun
  <1> HIDE DEF k
  <1>3. PICK i \in FreeSlots(k) : Changed(k, Send(k, "list", arg), i, Fresh("list", arg))
    BY <1>1, SendChanges
  <1>4. arg.of = w /\ i \in Slots /\ Fresh("list", arg).arg = arg
    BY <1>3, FreshIs DEF FreeSlots
  <1> HIDE DEF arg
  <1>5. Calls(Send(k, "list", arg)) /\ LiveLists(Send(k, "list", arg), w)
    BY <1>1, <1>3, <1>4 DEF Changed, LiveLists
  <1> QED BY <1>1, <1>2, <1>5 DEF arg

\* The list follows the settings.
LEMMA ListFollows ==
  ASSUME DashboardShape(ui), NEW n, Calls(n), FreeSlots(n) # {}, AskedOf(n, ui.list), NEW s
  PROVE  /\ Calls(Following(n, s)) /\ AskedOf(Following(n, s), ListFor(s))
         /\ ListShape(ListFor(s))
  <1>1. CASE ui.settingsLoading \/ Window[s.form] = Window[ui.settings.form]
    BY <1>1 DEF Following, ListFor, DashboardShape
  <1>2. CASE ~(ui.settingsLoading \/ Window[s.form] = Window[ui.settings.form])
    <2>1. ListFor(s) = [ui.list EXCEPT !.loading = TRUE, !.wanted = s.form]
          /\ Following(n, s) = LoadList(n, s.form, FALSE)
      BY <1>2 DEF Following, ListFor
    <2>2. ListShape(ListFor(s)) /\ ListFor(s).loading /\ ListFor(s).wanted = s.form
      BY <2>1 DEF DashboardShape, ListShape
    <2>3. Calls(LoadList(n, s.form, FALSE)) /\ LiveLists(LoadList(n, s.form, FALSE), s.form)
      BY LoadListIs
    <2> QED BY <2>1, <2>2, <2>3 DEF AskedOf
  <1> QED BY <1>1, <1>2

\* A call of another kind is sent, settled or answered.
LEMMA AskedStill ==
  ASSUME NEW n, NEW m, NEW i \in Slots, NEW c, Changed(n, m, i, c), NEW l, AskedOf(n, l),
         c.op # "list" \/ (n[i].op = "list" /\ c.arg = n[i].arg /\ c.live = n[i].live)
  PROVE  Calls(m) /\ AskedOf(m, l)
  BY ListsKept DEF AskedOf, Changed

LEMMA AskedAfterSend ==
  ASSUME NEW n, Calls(n), FreeSlots(n) # {}, NEW l, AskedOf(n, l), NEW op, NEW arg,
         op \notin {"none", "list"}
  PROVE  Calls(Send(n, op, arg)) /\ AskedOf(Send(n, op, arg), l)
  <1>1. PICK i \in FreeSlots(n) : Changed(n, Send(n, op, arg), i, Fresh(op, arg))
    BY SendChanges
  <1>2. i \in Slots /\ Fresh(op, arg).op = op
    BY FreshIs DEF FreeSlots
  <1> QED BY <1>1, <1>2, AskedStill

LEMMA AskedAfterSettle ==
  ASSUME NEW n, Calls(n), NEW i \in Slots, NEW l, AskedOf(n, l)
  PROVE  /\ Calls(Settle(n, i)) /\ AskedOf(Settle(n, i), l)
         /\ FreeSlots(Settle(n, i)) # {}
  BY SettleChanges, AskedStill, NoCallIs

TasksAsked(n, u) == Calls(n) /\ DashboardShape(u) /\ AskedOf(n, u.list)

\* The forms of a task, and the page that keeps its settings itself.
LEMMA ClosedFormIs ==
  FormShape(ClosedForm) /\ ClosedForm.file = None /\ ClosedForm.files = None
  BY DEF FormShape, ClosedForm, NoForm

LEMMA EditedFormIs ==
  ASSUME NEW x
  PROVE  /\ FormShape(EditedForm(x)) /\ EditedForm(x).link = x.link
         /\ EditedForm(x).file = x.link /\ EditedForm(x).files = None
  BY DEF FormShape, EditedForm

LEMMA LinkedFormIs ==
  ASSUME NEW d, FormShape(ui.form)
  PROVE  /\ FormShape(LinkedForm(d)) /\ LinkedForm(d).link = d /\ LinkedForm(d).file = None
         /\ d = None => LinkedForm(d).files = None
  <1>1. PICK files : files = IF d = None THEN None ELSE ui.form.files
    OBVIOUS
  <1>2. PICK b : b = (ui.form.filesLoading \/ d # None)
    OBVIOUS
  <1>3. LinkedForm(d) = [ui.form EXCEPT !.link = d, !.file = None, !.files = files,
                                        !.filesLoading = b]
    BY <1>1, <1>2 DEF LinkedForm, FormShape
  <1> QED BY <1>1, <1>3 DEF FormShape

LEMMA FormWithIs ==
  ASSUME NEW x, FormShape(ui.form)
  PROVE  /\ FormShape(FormWith(x)) /\ FormWith(x).link = ui.form.link
         /\ FormWith(x).files = x /\ FormWith(x).file \in {x, None}
  <1>1. PICK y : y = IF ui.form.file = x THEN ui.form.file ELSE None
    OBVIOUS
  <1>2. FormWith(x) = [ui.form EXCEPT !.files = x, !.filesLoading = FALSE, !.file = y]
    BY <1>1 DEF FormWith, FormShape
  <1> QED BY <1>1, <1>2 DEF FormShape

LEMMA KeptIs ==
  ASSUME DashboardShape(ui), NEW op, NEW s, ListShape(ListFor(s)), NEW v, v = KeptLocally(op, s)
  PROVE  /\ DashboardShape(v) /\ v.settings = s /\ v.local = s /\ v.loaded /\ ~v.supported
         /\ v.list = ListFor(s) /\ v.month = ui.month /\ v.calendar = ui.calendar
         /\ v.form = ui.form /\ v.settingsLoading = ui.settingsLoading
  <1>1. PICK l : l = ListFor(s)
    OBVIOUS
  <1>2. PICK modal : modal = Closing(op)
    OBVIOUS
  <1>3. v = [ui EXCEPT !.settings = s, !.local = s, !.loaded = TRUE, !.supported = FALSE,
                       !.modal = modal, !.list = l]
    BY <1>1, <1>2 DEF KeptLocally
  <1> QED BY <1>1, <1>3 DEF DashboardShape

LEMMA SpentKeeps ==
  ASSUME left \in Setting, left.lost = 0, left.acts > 0, left' = Spent
  PROVE  left' \in Setting /\ left'.lost = 0
  BY DEF Setting, Spent

LEMMA ActsIs ==
  ASSUME NEW n \in {0, 1}, OnDashboard(n)
  PROVE  left.acts > 0 /\ (n = 1 => FreeSlots(net) # {}) /\ (left.patient => Quiet)
  BY Room DEF OnDashboard, Acts

LEMMA UserAsks ==
  ASSUME DashboardTyped, ListAsked, DashboardUser
  PROVE  (DashboardTyped /\ ListAsked)'
  <1>1. TasksAsked(net, ui)
    BY SMTT(60) DEF TasksAsked, DashboardTyped, ListAsked
  <1>2. left.acts > 0 /\ left' = Spent
    BY ZenonT(60) DEF DashboardUser, TurnMonth, SubmitTask, NewTask, EditTask, LinkTo, PickFile,
           CloseTask, OpenSettings, CloseSettings, SubmitForm, SubmitDays, OnDashboard, Acts
  <1>3. left' \in Setting /\ left'.lost = 0
    BY <1>2, SpentKeeps DEF DashboardTyped
  <1>4. ASSUME NEW m \in Months, TurnMonth(m)
        PROVE  TasksAsked(net', ui')
    <2>1. PICK arg : arg = [of |-> m, form |-> FALSE]
      OBVIOUS
    <2>2. net' = Send(net, "calendar", arg) /\ FreeSlots(net) # {} /\ ui' = [ui EXCEPT !.month = m]
      BY <1>4, <2>1, ActsIs DEF TurnMonth, LoadCalendar
    <2>3. Calls(net') /\ AskedOf(net', ui.list)
      BY <1>1, <2>2, AskedAfterSend DEF TasksAsked
    <2>4. DashboardShape(ui') /\ ui'.list = ui.list
      BY <1>1, <2>2 DEF TasksAsked, DashboardShape
    <2> QED BY <2>3, <2>4 DEF TasksAsked
  <1>5. ASSUME NEW m \in Months, SubmitTask(m)
        PROVE  TasksAsked(net', ui')
    <2>1. PICK arg : net' = Send(net, "saveTask", arg)
      BY <1>5 DEF SubmitTask
    <2>2. FreeSlots(net) # {} /\ ui' = ui
      BY <1>5, ActsIs DEF SubmitTask
    <2>3. Calls(net') /\ AskedOf(net', ui.list)
      BY <1>1, <2>1, <2>2, AskedAfterSend DEF TasksAsked
    <2> QED BY <1>1, <2>2, <2>3 DEF TasksAsked
  <1>6. ASSUME NEW f, FormShape(f), ui' = [ui EXCEPT !.form = f],
               \/ net' = net
               \/ FreeSlots(net) # {} /\ \E d : net' = Send(net, "files", d)
        PROVE  TasksAsked(net', ui')
    <2>1. Calls(net') /\ AskedOf(net', ui.list)
      BY <1>1, <1>6, AskedAfterSend DEF TasksAsked
    <2>2. DashboardShape(ui') /\ ui'.list = ui.list
      BY <1>1, <1>6 DEF TasksAsked, DashboardShape
    <2> QED BY <2>1, <2>2 DEF TasksAsked
  <1>7. ASSUME NEW t \in Tasks, NewTask(t)
        PROVE  TasksAsked(net', ui')
    <2>1. PICK f : f = [ClosedForm EXCEPT !.open = TRUE, !.task = t]
      OBVIOUS
    <2>2. FormShape(f)
      BY <2>1 DEF FormShape, ClosedForm, NoForm
    <2> QED BY <1>6, <1>7, <2>1, <2>2 DEF NewTask
  <1>8. ASSUME NEW x, EditTask(x)
        PROVE  TasksAsked(net', ui')
    <2>1. PICK f : f = EditedForm(x)
      OBVIOUS
    <2>2. ui' = [ui EXCEPT !.form = f]
      BY <1>8, <2>1 DEF EditTask
    <2>3. net' = net \/ \E d : net' = Send(net, "files", d)
      BY <1>8 DEF EditTask
    <2> QED BY <1>6, <1>8, <2>1, <2>2, <2>3, EditedFormIs, ActsIs DEF EditTask
  <1>15. ASSUME NEW d, LinkTo(d)
        PROVE  TasksAsked(net', ui')
    <2>1. PICK f : f = LinkedForm(d)
      OBVIOUS
    <2>2. ui' = [ui EXCEPT !.form = f]
      <3>1. ui' = [ui EXCEPT !.form = LinkedForm(d)]
        BY <1>15 DEF LinkTo
      <3> QED BY <2>1, <3>1
    <2>3. net' = net \/ \E x : net' = Send(net, "files", x)
      BY <1>15 DEF LinkTo
    <2>4. FormShape(f)
      BY <1>1, <2>1, LinkedFormIs DEF TasksAsked, DashboardShape
    <2> QED BY <1>6, <1>15, <2>2, <2>3, <2>4, ActsIs DEF LinkTo
  <1>16. ASSUME PickFile
        PROVE  TasksAsked(net', ui')
    <2>1. PICK f : f = [ui.form EXCEPT !.file = ui.form.files]
      OBVIOUS
    <2>2. ui' = [ui EXCEPT !.form = f] /\ net' = net
      BY <1>1, <1>16, <2>1 DEF PickFile, TasksAsked, DashboardShape
    <2>3. FormShape(f)
      BY <1>1, <2>1 DEF TasksAsked, DashboardShape, FormShape
    <2> QED BY <1>6, <2>2, <2>3
  <1>17. ASSUME CloseTask
        PROVE  TasksAsked(net', ui')
    <2>1. PICK f : f = ClosedForm
      OBVIOUS
    <2> QED BY <1>6, <1>17, <2>1, ClosedFormIs DEF CloseTask
  <1>9. ASSUME NEW m, OpenSettings(m) \/ CloseSettings
        PROVE  TasksAsked(net', ui')
    <2>1. PICK x : net' = net /\ ui' = [ui EXCEPT !.modal = x]
      BY <1>9 DEF OpenSettings, CloseSettings
    <2>2. DashboardShape(ui') /\ ui'.list = ui.list
      BY <1>1, <2>1 DEF TasksAsked, DashboardShape
    <2> QED BY <1>1, <2>1, <2>2 DEF TasksAsked
  <1>10. ASSUME NEW op \in {"putForm", "putDays"}, NEW s, Save(op, s), FreeSlots(net) # {}
         PROVE  TasksAsked(net', ui')
    <2>1. CASE ui.supported
      <3>1. PICK arg : net' = Send(net, op, arg) /\ ui' = ui
        BY <1>10, <2>1 DEF Save
      <3>2. Calls(net') /\ AskedOf(net', ui.list)
        BY <1>1, <1>10, <3>1, AskedAfterSend DEF TasksAsked
      <3> QED BY <1>1, <3>1, <3>2 DEF TasksAsked
    <2>2. CASE ~ui.supported
      <3>1. net' = Following(net, s) /\ ui' = KeptLocally(op, s)
        BY <1>10, <2>2 DEF Save
      <3>2. Calls(net') /\ AskedOf(net', ListFor(s)) /\ ListShape(ListFor(s))
        BY <1>1, <1>10, <3>1, ListFollows DEF TasksAsked
      <3>3. DashboardShape(ui') /\ ui'.list = ListFor(s)
        BY <1>1, <3>1, <3>2, KeptIs DEF TasksAsked
      <3> QED BY <3>2, <3>3 DEF TasksAsked
    <2> QED BY <2>1, <2>2
  <1>12. ASSUME NEW f \in Forms, SubmitForm(f)
         PROVE  TasksAsked(net', ui')
    <2>1. Save("putForm", FormPut(f)) /\ FreeSlots(net) # {}
      BY <1>12, ActsIs DEF SubmitForm
    <2> QED BY <1>10, <2>1
  <1>13. ASSUME NEW S \in SUBSET Days, SubmitDays(S)
         PROVE  TasksAsked(net', ui')
    <2>1. PICK put : put = [form |-> ui.settings.form, days |-> S]
      OBVIOUS
    <2>2. Save("putDays", put) /\ FreeSlots(net) # {}
      BY <1>13, <2>1, ActsIs DEF SubmitDays
    <2> QED BY <1>10, <2>2
  <1>14. TasksAsked(net', ui')
    BY <1>4, <1>5, <1>7, <1>8, <1>9, <1>12, <1>13, <1>15, <1>16, <1>17 DEF DashboardUser
  <1> QED BY <1>3, <1>14 DEF TasksAsked, DashboardTyped, ListAsked

LEMMA ServedAsks ==
  ASSUME DashboardTyped, ListAsked, NEW i \in Slots, TaskServed(i) \/ Refuse(i)
  PROVE  (DashboardTyped /\ ListAsked)'
  <1>1. PICK out : /\ IsOpen(net, i) /\ net' = ComeBack(net, i, out) /\ ui' = ui
                   /\ out = Failure \/ out = Success(out.body)
    <2>1. \A x : Success(x) = Success(Success(x).body)
      BY OutcomeIs
    <2> QED BY <2>1 DEF TaskServed, Serve, Refuse
  <1>2. Changed(net, net', i, Answer(net[i], out)) /\ IsCall(net[i])
    BY <1>1, ComeBackChanges DEF DashboardTyped
  <1>3. /\ Answer(net[i], out).op = net[i].op /\ Answer(net[i], out).arg = net[i].arg
        /\ Answer(net[i], out).live = net[i].live
    BY <1>1, <1>2, AnswerIs
  <1>4. Calls(net') /\ AskedOf(net', ui.list)
    BY ZenonT(60), <1>2, <1>3, AskedStill DEF ListAsked
  <1>5. left' \in Setting
    BY LeftIs DEF DashboardTyped, TaskServed
  <1>6. left'.lost = 0
    <2>1. \/ left' = left
          \/ left.lost > 0
          \/ left.errors > 0 /\ left' = [left EXCEPT !.errors = @ - 1]
      BY DEF TaskServed, Serve, Refuse
    <2> QED BY <2>1 DEF DashboardTyped, Setting
  <1> QED BY <1>1, <1>4, <1>5, <1>6 DEF DashboardTyped, ListAsked

LEMMA AnswerAsks ==
  ASSUME DashboardTyped, ListAsked, NEW i \in Slots, Late(i) \/ DashboardAnswered(i)
  PROVE  (DashboardTyped /\ ListAsked)'
  <1> DEFINE c == net[i]
             n == Settle(net, i)
  <1>1. TasksAsked(net, ui)
    BY DEF TasksAsked, DashboardTyped, ListAsked
  <1>2. IsBack(net, i) /\ left' = left
    BY DEF Late, DashboardAnswered, OnSummary, OnSettings, OnCalendar, OnList, OnFiles, OnTaskSaved,
           OnFormPut, OnDaysPut, OnNoEndpoint, SaveFails, Back, Good, Bad
  <1>3. IsCall(c) /\ c.out.ok \in BOOLEAN
    <2>1. IsCall(c)
      BY <1>1, <1>2, CallIs DEF TasksAsked, IsBack
    <2> QED BY <2>1, OkIs
  <1>4. Calls(n) /\ AskedOf(n, ui.list) /\ FreeSlots(n) # {}
    BY <1>1, AskedAfterSettle DEF TasksAsked
  <1>5. ASSUME net' = n, DashboardShape(ui'), ui'.list = ui.list
        PROVE  TasksAsked(net', ui')
    BY <1>4, <1>5 DEF TasksAsked
  <1>6. ASSUME Late(i)
        PROVE  TasksAsked(net', ui')
    BY <1>1, <1>5, <1>6 DEF Late, TasksAsked
  <1>7. ASSUME OnSummary(i)
        PROVE  TasksAsked(net', ui')
    <2>1. PICK x : ui' = [ui EXCEPT !.summary = x]
      BY <1>7 DEF OnSummary
    <2>2. DashboardShape(ui') /\ ui'.list = ui.list
      BY <1>1, <2>1 DEF TasksAsked, DashboardShape
    <2> QED BY <1>5, <1>7, <2>2 DEF OnSummary
  <1>8. ASSUME OnSettings(i)
        PROVE  TasksAsked(net', ui')
    <2>1. PICK s : s = IF c.out.ok /\ c.out.body # None THEN c.out.body
                       ELSE IF c.out.ok /\ ui.local # None THEN ui.local ELSE DefaultSettings
      OBVIOUS
    <2>2. PICK b \in BOOLEAN : b = c.out.ok
      BY <1>3
    <2>3. PICK supported \in BOOLEAN :
             supported = IF c.out.ok THEN c.out.ok /\ c.out.body # None ELSE ui.supported
      BY <1>1, <1>3 DEF TasksAsked, DashboardShape
    <2>4. PICK l : l = [ui.list EXCEPT !.loading = TRUE, !.wanted = s.form]
      OBVIOUS
    <2>5. PICK modal : modal = IF c.arg THEN Closing("putForm") ELSE ui.modal
      OBVIOUS
    <2>6. /\ net' = LoadList(n, s.form, FALSE)
          /\ ui' = [ui EXCEPT !.settings = s, !.settingsLoading = FALSE, !.loaded = b,
                              !.supported = supported, !.list = l, !.modal = modal]
      BY <1>8, <2>1, <2>2, <2>3, <2>4, <2>5 DEF OnSettings
    <2>7. ListShape(l) /\ l.loading /\ l.wanted = s.form
      BY <1>1, <2>4 DEF TasksAsked, DashboardShape, ListShape
    <2>8. Calls(net') /\ LiveLists(net', s.form)
      BY <1>4, <2>6, LoadListIs
    <2>9. DashboardShape(ui') /\ ui'.list = l
      BY ZenonT(60), <1>1, <2>6, <2>7 DEF TasksAsked, DashboardShape
    <2> QED BY <2>7, <2>8, <2>9 DEF TasksAsked, AskedOf
  <1>9. ASSUME OnCalendar(i)
        PROVE  TasksAsked(net', ui')
    <2>1. PICK x : ui' = [ui EXCEPT !.calendar = x]
      BY <1>9 DEF OnCalendar
    <2>2. DashboardShape(ui') /\ ui'.list = ui.list
      BY <1>1, <2>1 DEF TasksAsked, DashboardShape
    <2> QED BY <1>5, <1>9, <2>2 DEF OnCalendar
  <1>10. ASSUME OnList(i)
        PROVE  TasksAsked(net', ui')
    <2>1. PICK items : items = IF c.out.ok THEN c.out.body ELSE {}
      OBVIOUS
    <2>2. PICK l : l = [ui.list EXCEPT !.of = c.arg.of, !.loading = FALSE, !.items = items]
      OBVIOUS
    <2>3. net' = n /\ ui' = [ui EXCEPT !.list = l] /\ c.op = "list" /\ c.live
      BY <1>10, <2>1, <2>2 DEF OnList, Back
    <2>4. ListShape(l) /\ l.of = c.arg.of /\ l.wanted = ui.list.wanted
      BY <1>1, <2>2 DEF TasksAsked, DashboardShape, ListShape
    <2>5. l.of = l.wanted
      BY <1>1, <2>3, <2>4 DEF TasksAsked, AskedOf, LiveLists
    <2>6. DashboardShape(ui') /\ ui'.list = l
      BY <1>1, <2>3, <2>4 DEF TasksAsked, DashboardShape
    <2> QED BY <1>4, <2>3, <2>4, <2>5, <2>6 DEF TasksAsked, AskedOf
  <1>11. ASSUME OnFiles(i)
        PROVE  TasksAsked(net', ui')
    <2>1. PICK x : x = IF c.out.ok THEN c.out.body ELSE None
      OBVIOUS
    <2>2. PICK f : f = FormWith(x)
      OBVIOUS
    <2>3. net' = n /\ ui' = [ui EXCEPT !.form = f]
      <3>1. net' = n /\ ui' = [ui EXCEPT !.form = FormWith(IF c.out.ok THEN c.out.body ELSE None)]
        BY <1>11 DEF OnFiles
      <3> QED BY <2>1, <2>2, <3>1
    <2>4. FormShape(f)
      BY <1>1, <2>2, FormWithIs DEF TasksAsked, DashboardShape
    <2>5. DashboardShape(ui') /\ ui'.list = ui.list
      BY <1>1, <2>3, <2>4 DEF TasksAsked, DashboardShape
    <2> QED BY <1>5, <2>3, <2>5
  <1>12. ASSUME OnTaskSaved(i)
        PROVE  TasksAsked(net', ui')
    <2>1. PICK arg : arg = [of |-> c.arg.at, form |-> TRUE]
      OBVIOUS
    <2>2. PICK w : w = c.arg.window
      OBVIOUS
    <2>3. PICK l : l = [ui.list EXCEPT !.loading = TRUE, !.wanted = w]
      OBVIOUS
    <2>4. PICK m : m = Send(n, "calendar", arg)
      OBVIOUS
    <2>5. /\ net' = LoadList(m, w, TRUE) /\ HasRoom(n, 2)
          /\ ui' = [ui EXCEPT !.form = ClosedForm, !.list = l]
      BY <1>12, <2>1, <2>2, <2>3, <2>4 DEF OnTaskSaved, LoadCalendar
    <2>6. PICK j \in FreeSlots(n) : Changed(n, m, j, Fresh("calendar", arg))
      BY <1>4, <2>4, SendChanges
    <2>7. Calls(m) /\ FreeSlots(m) # {}
      <3>1. PICK k \in FreeSlots(n) \ {j} : TRUE
        BY <2>5, RoomForMore
      <3>2. k \in FreeSlots(m)
        BY <2>6, <3>1 DEF Changed, FreeSlots
      <3> QED BY <2>6, <3>2 DEF Changed
    <2>8. Calls(net') /\ LiveLists(net', w)
      BY <2>5, <2>7, LoadListIs
    <2>9. ListShape(l) /\ l.loading /\ l.wanted = w
      BY <1>1, <2>3 DEF TasksAsked, DashboardShape, ListShape
    <2>11. DashboardShape(ui') /\ ui'.list = l
      BY <1>1, <2>5, <2>9, ClosedFormIs DEF TasksAsked, DashboardShape
    <2> QED BY <2>8, <2>9, <2>11 DEF TasksAsked, AskedOf
  <1>13. ASSUME OnFormPut(i)
        PROVE  TasksAsked(net', ui')
    <2>1. PICK s : s = c.out.body
      OBVIOUS
    <2>2. /\ net' = Send(n, "settings", TRUE)
          /\ ui' = [ui EXCEPT !.settings = s, !.local = s, !.loaded = TRUE,
                              !.settingsLoading = TRUE]
      BY <1>13, <2>1 DEF OnFormPut
    <2>3. Calls(net') /\ AskedOf(net', ui.list)
      BY <1>4, <2>2, AskedAfterSend
    <2>4. DashboardShape(ui') /\ ui'.list = ui.list
      BY <1>1, <2>2 DEF TasksAsked, DashboardShape
    <2> QED BY <2>3, <2>4 DEF TasksAsked
  <1>14. ASSUME OnDaysPut(i)
        PROVE  TasksAsked(net', ui')
    <2>1. PICK s : s = c.out.body
      OBVIOUS
    <2>2. PICK l : l = ListFor(s)
      OBVIOUS
    <2>3. /\ net' = Following(n, s)
          /\ ui' = [ui EXCEPT !.settings = s, !.local = s, !.loaded = TRUE, !.list = l]
      BY <1>14, <2>1, <2>2 DEF OnDaysPut
    <2>4. Calls(net') /\ AskedOf(net', l) /\ ListShape(l)
      BY <1>1, <1>4, <2>2, <2>3, ListFollows DEF TasksAsked
    <2>5. DashboardShape(ui') /\ ui'.list = l
      BY <1>1, <2>3, <2>4 DEF TasksAsked, DashboardShape
    <2> QED BY <2>4, <2>5 DEF TasksAsked
  <1>15. ASSUME OnNoEndpoint(i)
        PROVE  TasksAsked(net', ui')
    <2>1. PICK op : net' = Following(n, c.arg.put) /\ ui' = KeptLocally(op, c.arg.put)
      BY <1>15 DEF OnNoEndpoint
    <2>2. PICK s : s = c.arg.put
      OBVIOUS
    <2>3. Calls(net') /\ AskedOf(net', ListFor(s)) /\ ListShape(ListFor(s))
      BY <1>1, <1>4, <2>1, <2>2, ListFollows DEF TasksAsked
    <2>4. DashboardShape(ui') /\ ui'.list = ListFor(s)
      BY <1>1, <2>1, <2>2, <2>3, KeptIs DEF TasksAsked
    <2> QED BY <2>3, <2>4 DEF TasksAsked
  <1>17. ASSUME SaveFails(i)
        PROVE  TasksAsked(net', ui')
    BY <1>1, <1>5, <1>17 DEF SaveFails, TasksAsked
  <1>16. TasksAsked(net', ui')
    BY <1>6, <1>7, <1>8, <1>9, <1>10, <1>11, <1>12, <1>13, <1>14, <1>15, <1>17 DEF DashboardAnswered
  <1> QED BY <1>2, <1>16 DEF TasksAsked, DashboardTyped, ListAsked

-----------------------------------------------------------------------------
(* The dashboard of a user who waits.                                       *)

LEMMA MonthsAre ==
  ASSUME NEW S
  PROVE  InMonths(S) = MonthsOf(db.tasks, S)
  BY DEF InMonths, TaskItem, MonthsOf

\* What the page has when nothing is under way.
AtRest(d, u) ==
    /\ ~u.settingsLoading
    /\ CalendarRight(d, u) /\ ListRight(d, u) /\ FilesRight(u) /\ SettingsRight(d, u)

LEMMA NoneNow ==
  ASSUME NEW op, op # "none"
  PROVE  NoneOf(NoCalls, op)
  BY NoCallsAre DEF NoneOf

LEMMA RestIs ==
  ASSUME NEW d, NEW u
  PROVE  /\ UserWaits(NoCalls, d, u) => AtRest(d, u)
         /\ SettingsKnown(d, u) /\ AtRest(d, u) => UserWaits(NoCalls, d, u)
  <1>1. NoneOf(NoCalls, "settings") /\ NoneOf(NoCalls, "list") /\ NoneOf(NoCalls, "calendar")
    BY NoneNow
  <1>2. LoadsFit(NoCalls, d, u)
    BY NoCallsAre DEF LoadsFit
  <1>3. ASSUME UserWaits(NoCalls, d, u)
        PROVE  Loading(NoCalls, d, u)
    <2>1. ASSUME NEW i \in Slots, NEW c, NoCalls = Alone(i, c), IsCall(c)
          PROVE  FALSE
      BY <2>1, NoCallsAre, AloneIs DEF IsCall
    <2> QED BY <1>3, <2>1 DEF UserWaits, Acting
  <1>4. Loading(NoCalls, d, u) => AtRest(d, u)
    BY <1>1 DEF Loading, AtRest
  <1>5. AtRest(d, u) => Loading(NoCalls, d, u)
    BY <1>1, <1>2 DEF Loading, AtRest
  <1> QED BY <1>3, <1>4, <1>5 DEF UserWaits

\* One more load is sent; one has come back; the server answers one.
LEMMA LoadSent ==
  ASSUME NEW n, Calls(n), FreeSlots(n) # {}, NEW op, op # "none", NEW arg, NEW d, NEW u,
         LoadsFit(n, d, u), NoneOf(n, op), LoadFits(Fresh(op, arg), d, u)
  PROVE  /\ Calls(Send(n, op, arg)) /\ LoadsFit(Send(n, op, arg), d, u)
         /\ \A x : x # "none" => (NoneOf(Send(n, op, arg), x) <=> NoneOf(n, x) /\ x # op)
  <1> DEFINE m == Send(n, op, arg)
  <1>1. PICK i \in FreeSlots(n) : Changed(n, m, i, Fresh(op, arg))
    BY SendChanges
  <1> HIDE DEF m
  <1>2. i \in Slots /\ n[i].op = "none" /\ m[i] = Fresh(op, arg) /\ m[i].op = op
    BY <1>1, FreshIs DEF FreeSlots, Changed
  <1>3. \A j \in Slots \ {i} : m[j] = n[j]
    BY <1>1 DEF Changed
  <1>4. LoadsFit(m, d, u)
    BY <1>2, <1>3 DEF LoadsFit, NoneOf
  <1>5. \A x : x # "none" => (NoneOf(m, x) <=> NoneOf(n, x) /\ x # op)
    BY <1>2, <1>3 DEF NoneOf
  <1> QED BY <1>1, <1>4, <1>5 DEF Changed, m

LEMMA LoadSettled ==
  ASSUME NEW n, Calls(n), NEW i \in Slots, n[i].op # "none", NEW d, NEW u, LoadsFit(n, d, u)
  PROVE  /\ Calls(Settle(n, i)) /\ LoadsFit(Settle(n, i), d, u)
         /\ FreeSlots(Settle(n, i)) # {}
         /\ \A x : x # "none" => (NoneOf(Settle(n, i), x) <=> NoneOf(n, x) \/ x = n[i].op)
  <1> DEFINE m == Settle(n, i)
  <1>1. Changed(n, m, i, NoCall) /\ i \in FreeSlots(m)
    BY SettleChanges
  <1> HIDE DEF m
  <1>2. m[i].op = "none" /\ \A j \in Slots \ {i} : m[j] = n[j]
    BY <1>1, NoCallIs DEF Changed
  <1>3. LoadsFit(m, d, u)
    BY <1>2 DEF LoadsFit
  <1>4. \A x : x # "none" => (NoneOf(m, x) <=> NoneOf(n, x) \/ x = n[i].op)
    BY <1>2 DEF NoneOf, LoadsFit
  <1> QED BY <1>1, <1>3, <1>4 DEF Changed, m

LEMMA LoadAnswered ==
  ASSUME NEW n, NEW m, NEW i \in Slots, NEW c, Changed(n, m, i, c), c.op = n[i].op,
         NEW d, NEW u, n[i].op # "none" => LoadFits(c, d, u), LoadsFit(n, d, u)
  PROVE  /\ LoadsFit(m, d, u)
         /\ \A x : NoneOf(m, x) <=> NoneOf(n, x)
  <1>1. m[i] = c /\ \A j \in Slots \ {i} : m[j] = n[j]
    BY DEF Changed
  <1>2. \A j \in Slots : m[j].op = n[j].op
    BY <1>1
  <1> QED BY <1>1, <1>2 DEF LoadsFit, NoneOf

\* What the user or the page sends when nothing else is under way.
LEMMA LoadAlone ==
  ASSUME NEW d, NEW u, SettingsKnown(d, u), NEW op, op # "none", NEW arg,
         LoadFits(Fresh(op, arg), d, u),
         op # "settings" => ~u.settingsLoading /\ SettingsRight(d, u),
         op # "calendar" => CalendarRight(d, u),
         op \notin {"settings", "list"} => ListRight(d, u),
         FilesRight(u), SettingsRight(d, u)
  PROVE  UserWaits(Send(NoCalls, op, arg), d, u)
  <1> DEFINE m == Send(NoCalls, op, arg)
  <1>1. LoadsFit(NoCalls, d, u) /\ NoneOf(NoCalls, op)
    BY NoCallsAre, NoneNow DEF LoadsFit
  <1>2. LoadsFit(m, d, u) /\ \A x : x # "none" => (NoneOf(m, x) <=> NoneOf(NoCalls, x) /\ x # op)
    BY <1>1, LoadSent, CallsRoom
  <1> HIDE DEF m
  <1>3. \A x : x # "none" => (NoneOf(m, x) <=> x # op)
    BY <1>2, NoneNow
  <1>4. Loading(m, d, u)
    BY <1>2, <1>3 DEF Loading
  <1> QED BY <1>4 DEF UserWaits, m

LEMMA ActionAlone ==
  ASSUME NEW d, NEW u, SettingsKnown(d, u), NEW op, op # "none", NEW arg,
         Acting(Fresh(op, arg), d, u)
  PROVE  UserWaits(Send(NoCalls, op, arg), d, u)
  <1>1. PICK i \in Slots : Send(NoCalls, op, arg) = Alone(i, Fresh(op, arg))
    BY SendAlone
  <1>2. Send(NoCalls, op, arg)[i] = Fresh(op, arg)
    BY <1>1, AloneIs
  <1> QED BY <1>1, <1>2 DEF UserWaits

LEMMA FollowsAlone ==
  ASSUME NEW s, NEW d, NEW v, DashboardShape(ui),
         ~ui.settingsLoading, CalendarRight(d, ui), ListRight(d, ui), FilesRight(ui),
         v.settings = s, v.list = ListFor(s), ~v.settingsLoading, v.month = ui.month,
         v.calendar = ui.calendar, v.form = ui.form,
         SettingsKnown(d, v), SettingsRight(d, v)
  PROVE  UserWaits(Following(NoCalls, s), d, v)
  <1>1. CalendarRight(d, v) /\ FilesRight(v)
    BY DEF CalendarRight, FilesRight
  <1>2. CASE Window[s.form] = Window[ui.settings.form]
    <2>1. Following(NoCalls, s) = NoCalls /\ v.list = ui.list
      BY <1>2 DEF Following, ListFor
    <2>2. ListRight(d, v)
      BY <1>2, <2>1 DEF ListRight
    <2> QED BY <1>1, <2>1, <2>2, RestIs DEF AtRest
  <1>3. CASE Window[s.form] # Window[ui.settings.form]
    <2>1. PICK arg : arg = [of |-> s.form, form |-> FALSE]
      OBVIOUS
    <2>2. Following(NoCalls, s) = Send(NoCalls, "list", arg)
      <3>1. Following(NoCalls, s) = LoadList(NoCalls, s.form, FALSE)
        BY <1>3 DEF Following
      <3>2. NoneOf(NoCalls, "list")
        BY NoneNow
      <3>3. ASSUME NEW w, NEW form, NEW n, Calls(n), FreeSlots(n) # {}, NoneOf(n, "list")
            PROVE  LoadList(n, w, form) = Send(n, "list", [of |-> w, form |-> form])
        BY <3>3, LoadListIs
      <3>4. LoadList(NoCalls, s.form, FALSE) = Send(NoCalls, "list", [of |-> s.form, form |-> FALSE])
        BY <3>2, <3>3, CallsRoom
      <3> QED BY <2>1, <3>1, <3>4
    <2>3. arg.of = s.form
      BY <2>1
    <2>4. LoadFits(Fresh("list", arg), d, v)
      BY <2>3, FreshIs DEF LoadFits
    <2> QED BY <1>1, <2>2, <2>4, LoadAlone
  <1> QED BY <1>2, <1>3

\* What is put is what is meant, since the form of the one shows what the other saved:
\* unless the defaults stood in.
LEMMA MeansIs ==
  ASSUME SettingsKnown(db, ui), SettingsRight(db, ui), ui.loaded \in BOOLEAN,
         NEW op \in {"putForm", "putDays"}, NEW arg, arg.put \in TaskSettings,
         arg.loaded = ui.loaded,
         op = "putForm" => arg.put.days = ui.settings.days,
         op = "putDays" => arg.put.form = ui.settings.form
  PROVE  \E meant \in TaskSettings, blind \in BOOLEAN :
            /\ Means(op, arg) = [db EXCEPT !.meant = meant, !.blind = blind]
            /\ ~blind => meant = arg.put
  <1>1. PICK meant : meant = IF op = "putForm" THEN [db.meant EXCEPT !.form = arg.put.form]
                             ELSE [db.meant EXCEPT !.days = arg.put.days]
    OBVIOUS
  <1>2. PICK blind \in BOOLEAN : blind = (db.blind \/ ~arg.loaded)
    BY DEF SettingsKnown
  <1>3. meant \in TaskSettings
    BY <1>1 DEF SettingsKnown, TaskSettings
  <1>4. ~blind => meant = arg.put
    <2>1. ASSUME ~blind
          PROVE  meant = arg.put
      <3>1. db.meant \in TaskSettings /\ db.meant = ui.settings
        BY <1>2, <2>1 DEF SettingsKnown, SettingsRight
      <3> QED BY <1>1, <3>1 DEF TaskSettings
    <2> QED BY <2>1
  <1>5. Means(op, arg) = [db EXCEPT !.meant = meant, !.blind = blind]
    BY <1>1, <1>2 DEF Means, SettingsKnown
  <1> QED BY <1>3, <1>4, <1>5

\* The server keeps what is put to it, the browser what it has no server for.
\* A put of one form, from what the page u shows.
Puts(op, arg, u) ==
    /\ op \in {"putForm", "putDays"}
    /\ arg.put \in TaskSettings /\ arg.loaded = u.loaded
    /\ op = "putForm" => arg.put.days = u.settings.days
    /\ op = "putDays" => arg.put.form = u.settings.form

\* What the server is once it has carried it out.
Holds(op, arg, e) == e = [Means(op, arg) EXCEPT !.settings = arg.put]

LEMMA PutKeeps ==
  ASSUME SettingsKnown(db, ui), SettingsRight(db, ui), ui.loaded \in BOOLEAN, db.api,
         NEW op, NEW arg, NEW e, Puts(op, arg, ui), Holds(op, arg, e)
  PROVE  SettingsKnown(e, ui) /\ e.settings = arg.put /\ e.tasks = db.tasks /\ e.api
  <1>1. PICK meant \in TaskSettings, blind \in BOOLEAN :
           /\ Means(op, arg) = [db EXCEPT !.meant = meant, !.blind = blind]
           /\ ~blind => meant = arg.put
    BY MeansIs DEF Puts
  <1>2. /\ e = [db EXCEPT !.meant = meant, !.blind = blind, !.settings = arg.put]
        /\ arg.put \in TaskSettings
    BY <1>1 DEF Puts, Holds
  <1>3. /\ e \in [tasks : {e.tasks}, settings : TaskSettings, meant : TaskSettings,
                   api : BOOLEAN, blind : BOOLEAN]
        /\ e.settings = arg.put /\ e.tasks = db.tasks /\ e.api /\ e.meant = meant
        /\ e.blind = blind /\ e.api = db.api
    BY <1>2 DEF SettingsKnown
  <1> QED BY <1>1, <1>3 DEF SettingsKnown, StoredOf

LEMMA BrowserKeeps ==
  ASSUME SettingsKnown(db, ui), SettingsRight(db, ui), ui.loaded \in BOOLEAN,
         NEW op \in {"putForm", "putDays"}, NEW arg, arg.put \in TaskSettings,
         arg.loaded = ui.loaded,
         op = "putForm" => arg.put.days = ui.settings.days,
         op = "putDays" => arg.put.form = ui.settings.form,
         ~db.api, NEW e, e = Means(op, arg),
         NEW v, v.settings = arg.put, v.local = arg.put
  PROVE  SettingsKnown(e, v) /\ SettingsRight(e, v) /\ e.tasks = db.tasks
  <1>1. PICK meant \in TaskSettings, blind \in BOOLEAN :
           /\ Means(op, arg) = [db EXCEPT !.meant = meant, !.blind = blind]
           /\ ~blind => meant = arg.put
    BY MeansIs
  <1>2. /\ e \in [tasks : {e.tasks}, settings : TaskSettings, meant : TaskSettings,
                   api : BOOLEAN, blind : BOOLEAN]
        /\ e.tasks = db.tasks /\ ~e.api /\ e.meant = meant /\ e.blind = blind
    BY <1>1 DEF SettingsKnown
  <1>3. StoredOf(e, v) = arg.put
    BY <1>2, NoneAssumption DEF StoredOf
  <1> QED BY <1>1, <1>2, <1>3 DEF SettingsKnown, SettingsRight

\* The browser keeps them, and the list follows.
LEMMA KeptWaits ==
  ASSUME DashboardShape(ui), SettingsKnown(db, ui), AtRest(db, ui), ~db.api,
         NEW op \in {"putForm", "putDays"}, NEW arg, arg.put \in TaskSettings,
         arg.loaded = ui.loaded,
         op = "putForm" => arg.put.days = ui.settings.days,
         op = "putDays" => arg.put.form = ui.settings.form
  PROVE  UserWaits(Following(NoCalls, arg.put), Means(op, arg), KeptLocally(op, arg.put))
  <1>1. PICK s, e, v : s = arg.put /\ e = Means(op, arg) /\ v = KeptLocally(op, arg.put)
    OBVIOUS
  <1>2. ui.loaded \in BOOLEAN /\ SettingsRight(db, ui) /\ ~ui.settingsLoading
        /\ AskedOf(NoCalls, [ui.list EXCEPT !.loading = TRUE])
    BY NoCallsAre DEF DashboardShape, AtRest, AskedOf, LiveLists, ListShape
  <1>3. ListShape(ListFor(s))
    BY DEF DashboardShape, ListShape, ListFor
  <1>4. /\ v.settings = s /\ v.local = s /\ v.list = ListFor(s) /\ v.month = ui.month
        /\ v.calendar = ui.calendar /\ v.form = ui.form /\ ~v.settingsLoading
    BY <1>1, <1>2, <1>3, KeptIs
  <1>5. SettingsKnown(e, v) /\ SettingsRight(e, v) /\ e.tasks = db.tasks
    BY <1>1, <1>2, <1>4, BrowserKeeps
  <1>6. CalendarRight(e, ui) /\ ListRight(e, ui) /\ FilesRight(ui)
    BY <1>5 DEF AtRest, CalendarRight, ListRight
  <1>7. UserWaits(Following(NoCalls, s), e, v)
    BY <1>2, <1>4, <1>5, <1>6, FollowsAlone
  <1> QED BY <1>1, <1>7

LEMMA WaitsAtRest ==
  ASSUME TasksInv, left.patient, Quiet
  PROVE  net = NoCalls /\ DashboardShape(ui) /\ SettingsKnown(db, ui) /\ AtRest(db, ui)
  <1>1. net = NoCalls
    BY QuietIs DEF TasksInv, DashboardTyped
  <1> QED BY <1>1, RestIs DEF TasksInv, DashboardTyped, UserWaits

LEMMA UserActs ==
  ASSUME TasksInv, left.patient, DashboardUser
  PROVE  UserWaits(net', db', ui')
  <1>1. Quiet
    BY ZenonT(60) DEF DashboardUser, TurnMonth, SubmitTask, NewTask, EditTask, LinkTo, PickFile,
           CloseTask, OpenSettings, CloseSettings, SubmitForm, SubmitDays, OnDashboard, Acts
  <1>2. net = NoCalls /\ DashboardShape(ui) /\ SettingsKnown(db, ui) /\ AtRest(db, ui)
    BY <1>1, WaitsAtRest
  <1>3. ASSUME net' = NoCalls, db' = db, SettingsKnown(db, ui'), AtRest(db, ui')
        PROVE  UserWaits(net', db', ui')
    BY <1>3, RestIs
  <1>4. ASSUME NEW m \in Months, TurnMonth(m)
        PROVE  UserWaits(net', db', ui')
    <2>1. PICK arg : arg = [of |-> m, form |-> FALSE]
      OBVIOUS
    <2>2. /\ net' = Send(NoCalls, "calendar", arg) /\ ui' = [ui EXCEPT !.month = m]
          /\ arg.of = m /\ db' = db
      BY <1>2, <1>4, <2>1 DEF TurnMonth, LoadCalendar
    <2>3. PICK u : u = ui'
      OBVIOUS
    <2>4. /\ u.month = m /\ u.settingsLoading = ui.settingsLoading /\ u.list = ui.list
          /\ u.settings = ui.settings /\ u.form = ui.form /\ u.loaded = ui.loaded
          /\ u.local = ui.local /\ u.supported = ui.supported
      BY <1>2, <2>2, <2>3 DEF DashboardShape
    <2>5. LoadFits(Fresh("calendar", arg), db, u)
      BY <2>2, <2>4, FreshIs DEF LoadFits
    <2>6. SettingsKnown(db, u) /\ ListRight(db, u) /\ FilesRight(u) /\ SettingsRight(db, u)
          /\ ~u.settingsLoading
      BY <1>2, <2>4 DEF SettingsKnown, StoredOf, AtRest, ListRight, FilesRight, SettingsRight
    <2> QED BY <2>2, <2>3, <2>5, <2>6, LoadAlone
  <1>5. ASSUME NEW m \in Months, SubmitTask(m)
        PROVE  UserWaits(net', db', ui')
    <2>1. PICK arg : /\ net' = Send(NoCalls, "saveTask", arg) /\ ui' = ui /\ db' = db
                     /\ arg.at = ui.month /\ arg.window = ui.settings.form
      BY <1>2, <1>5 DEF SubmitTask
    <2>2. Acting(Fresh("saveTask", arg), db, ui)
      BY <1>2, <2>1, FreshIs DEF Acting, SaveFits, AtRest
    <2> QED BY <1>2, <2>1, <2>2, ActionAlone
  <1>6. ASSUME db' = db, NEW f, ui' = [ui EXCEPT !.form = f], f.file \in {None, f.link},
               \/ net' = net /\ {f.file, f.files} \subseteq {None, f.link}
               \/ net' = Send(net, "files", f.link)
        PROVE  UserWaits(net', db', ui')
    <2>1. PICK v : v = ui'
      OBVIOUS
    <2>2. /\ v.month = ui.month /\ v.settingsLoading = ui.settingsLoading
          /\ v.list = ui.list /\ v.calendar = ui.calendar /\ v.form = f
          /\ v.settings = ui.settings /\ v.loaded = ui.loaded
          /\ v.local = ui.local /\ v.supported = ui.supported
      BY <1>2, <1>6, <2>1 DEF DashboardShape
    <2>3. /\ SettingsKnown(db, v) /\ ListRight(db, v) /\ CalendarRight(db, v)
          /\ SettingsRight(db, v) /\ ~v.settingsLoading
      BY <1>2, <2>2 DEF SettingsKnown, StoredOf, AtRest, ListRight, CalendarRight, SettingsRight
    <2>4. CASE net' = net /\ {f.file, f.files} \subseteq {None, f.link}
      <3>1. FilesRight(v)
        BY <2>2, <2>4 DEF FilesRight
      <3> QED BY <1>2, <1>3, <1>6, <2>1, <2>3, <2>4, <3>1 DEF AtRest
    <2>5. CASE net' = Send(net, "files", f.link)
      <3>1. Acting(Fresh("files", f.link), db, v)
        BY <1>6, <2>2, <2>3, FreshIs DEF Acting, FilesFits
      <3> QED BY <1>2, <1>6, <2>1, <2>3, <2>5, <3>1, ActionAlone
    <2> QED BY <1>6, <2>4, <2>5
  <1>7. ASSUME NEW t \in Tasks, NewTask(t)
        PROVE  UserWaits(net', db', ui')
    <2>1. PICK f : f = [ClosedForm EXCEPT !.open = TRUE, !.task = t]
      OBVIOUS
    <2>2. net' = net /\ db' = db /\ ui' = [ui EXCEPT !.form = f]
      BY <1>7, <2>1 DEF NewTask
    <2>3. f.files = None /\ f.file = None
      BY <2>1 DEF ClosedForm, NoForm
    <2> QED BY <1>6, <2>2, <2>3
  <1>8. ASSUME NEW x, EditTask(x)
        PROVE  UserWaits(net', db', ui')
    <2>1. PICK f : f = EditedForm(x)
      OBVIOUS
    <2>2. ui' = [ui EXCEPT !.form = f] /\ db' = db
      BY <1>8, <2>1 DEF EditTask
    <2>3. f.link = x.link /\ f.file = x.link /\ f.files = None
      BY <2>1, EditedFormIs
    <2>4. net' = IF x.link = None THEN net ELSE Send(net, "files", x.link)
      BY <1>8 DEF EditTask
    <2> QED BY <1>6, <2>2, <2>3, <2>4
  <1>9. ASSUME NEW d, LinkTo(d)
        PROVE  UserWaits(net', db', ui')
    <2>1. PICK f : f = LinkedForm(d)
      OBVIOUS
    <2>2. ui' = [ui EXCEPT !.form = f] /\ db' = db
      <3>1. ui' = [ui EXCEPT !.form = LinkedForm(d)] /\ db' = db
        BY <1>9 DEF LinkTo
      <3> QED BY <2>1, <3>1
    <2>3. f.link = d /\ f.file = None /\ (d = None => f.files = None)
      BY <1>2, <2>1, LinkedFormIs DEF DashboardShape
    <2>4. net' = IF d = None THEN net ELSE Send(net, "files", d)
      BY <1>9 DEF LinkTo
    <2> QED BY <1>6, <2>2, <2>3, <2>4
  <1>14. ASSUME PickFile
         PROVE  UserWaits(net', db', ui')
    <2>1. PICK f : f = [ui.form EXCEPT !.file = ui.form.files]
      OBVIOUS
    <2>2. ui' = [ui EXCEPT !.form = f] /\ net' = net /\ db' = db
      BY <1>2, <1>14, <2>1 DEF PickFile, DashboardShape
    <2>3. f.link = ui.form.link /\ f.file = ui.form.files /\ f.files = ui.form.files
      BY <1>2, <2>1 DEF DashboardShape, FormShape
    <2>4. ui.form.files \in {None, ui.form.link}
      BY <1>2 DEF AtRest, FilesRight
    <2> QED BY <1>6, <2>2, <2>3, <2>4
  <1>15. ASSUME CloseTask
         PROVE  UserWaits(net', db', ui')
    <2>1. PICK f : f = ClosedForm
      OBVIOUS
    <2> QED BY <1>6, <1>15, <2>1, ClosedFormIs DEF CloseTask
  <1>10. ASSUME NEW m, OpenSettings(m) \/ CloseSettings
         PROVE  UserWaits(net', db', ui')
    <2>1. PICK x : net' = net /\ db' = db /\ ui' = [ui EXCEPT !.modal = x]
      BY <1>10 DEF OpenSettings, CloseSettings
    <2>2. /\ ui'.month = ui.month /\ ui'.settingsLoading = ui.settingsLoading
          /\ ui'.list = ui.list /\ ui'.calendar = ui.calendar /\ ui'.form = ui.form
          /\ ui'.settings = ui.settings /\ ui'.loaded = ui.loaded
          /\ ui'.local = ui.local /\ ui'.supported = ui.supported
      BY <1>2, <2>1 DEF DashboardShape
    <2> QED BY <1>2, <1>3, <2>1, <2>2 DEF SettingsKnown, StoredOf, AtRest, ListRight,
                                          FilesRight, SettingsRight, CalendarRight
  <1>11. ASSUME NEW op \in {"putForm", "putDays"}, NEW put \in TaskSettings, Save(op, put),
                op = "putForm" => put.days = ui.settings.days,
                op = "putDays" => put.form = ui.settings.form
         PROVE  UserWaits(net', db', ui')
    <2>1. PICK arg : arg = [put |-> put, loaded |-> ui.loaded]
      OBVIOUS
    <2>2. arg.put = put /\ arg.loaded = ui.loaded
      BY <2>1
    <2>3. CASE ui.supported
      <3>1. net' = Send(NoCalls, op, arg) /\ ui' = ui /\ db' = db
        BY <1>2, <1>11, <2>1, <2>3 DEF Save
      <3>2. Acting(Fresh(op, arg), db, ui)
        BY <1>2, <1>11, <2>2, FreshIs DEF Acting, PutFits, AtRest
      <3> QED BY <1>2, <1>11, <3>1, <3>2, ActionAlone
    <2>4. CASE ~ui.supported
      <3>1. /\ net' = Following(NoCalls, put) /\ ui' = KeptLocally(op, put)
            /\ db' = Means(op, arg)
        BY <1>2, <1>11, <2>1, <2>4 DEF Save
      <3>2. ~db.api
        BY <1>2, <2>4 DEF SettingsKnown
      <3> QED BY <1>2, <1>11, <2>2, <3>1, <3>2, KeptWaits
    <2> QED BY <2>3, <2>4
  <1>12. ASSUME NEW f \in Forms, SubmitForm(f)
         PROVE  UserWaits(net', db', ui')
    <2>1. PICK put : put = FormPut(f)
      OBVIOUS
    <2>2. Save("putForm", put)
      BY <1>12, <2>1 DEF SubmitForm
    <2>3. put \in TaskSettings /\ put.days = ui.settings.days
      BY <1>2, <2>1 DEF FormPut, TaskSettings, SettingsKnown
    <2> QED BY <1>11, <2>2, <2>3
  <1>13. ASSUME NEW S \in SUBSET Days, SubmitDays(S)
         PROVE  UserWaits(net', db', ui')
    <2>1. PICK put : put = [form |-> ui.settings.form, days |-> S]
      OBVIOUS
    <2>2. Save("putDays", put)
      BY <1>13, <2>1 DEF SubmitDays
    <2>3. put \in TaskSettings /\ put.form = ui.settings.form
      BY <1>2, <2>1 DEF TaskSettings, SettingsKnown
    <2> QED BY <1>11, <2>2, <2>3
  <1> QED BY <1>4, <1>5, <1>7, <1>8, <1>9, <1>10, <1>12, <1>13, <1>14, <1>15 DEF DashboardUser

\* What the server answers, and what it holds then.
LEMMA TaskBodyIs ==
  ASSUME NEW arg
  PROVE  /\ TaskBody("settings", arg) = IF db.api THEN db.settings ELSE None
         /\ TaskBody("calendar", arg) = InMonths({arg.of})
         /\ TaskBody("list", arg) = InMonths(Window[arg.of])
         /\ TaskBody("files", arg) = arg
         /\ \A op \in {"putForm", "putDays"} :
               TaskBody(op, arg) = IF db.api THEN arg.put ELSE None
  BY DEF TaskBody

LEMMA TaskAfterIs ==
  ASSUME NEW op, NEW arg
  PROVE  /\ op \notin {"saveTask", "putForm", "putDays"} => TaskAfter(op, arg) = db
         /\ op = "saveTask" => \E x : TaskAfter(op, arg) = [db EXCEPT !.tasks = x]
         /\ op \in {"putForm", "putDays"} =>
               TaskAfter(op, arg) =
                  IF db.api THEN [Means(op, arg) EXCEPT !.settings = arg.put] ELSE db
  <1>1. ASSUME op \notin {"saveTask", "putForm", "putDays"}
        PROVE  TaskAfter(op, arg) = db
    BY <1>1 DEF TaskAfter
  <1>2. ASSUME op = "saveTask"
        PROVE  \E x : TaskAfter(op, arg) = [db EXCEPT !.tasks = x]
    <2>1. TaskAfter(op, arg) =
             [db EXCEPT !.tasks[arg.task] =
                           [month |-> arg.month, rev |-> @.rev + 1, link |-> arg.link]]
      BY <1>2 DEF TaskAfter
    <2>2. PICK x : x = [db.tasks EXCEPT ![arg.task] =
                           [month |-> arg.month, rev |-> @.rev + 1, link |-> arg.link]]
      OBVIOUS
    <2>3. TaskAfter(op, arg) = [db EXCEPT !.tasks = x]
      BY <2>1, <2>2
    <2> QED BY <2>3
  <1>3. ASSUME op \in {"putForm", "putDays"}
        PROVE  TaskAfter(op, arg) =
                  IF db.api THEN [Means(op, arg) EXCEPT !.settings = arg.put] ELSE db
    BY <1>3 DEF TaskAfter
  <1> QED BY <1>1, <1>2, <1>3

LEMMA TaskSavedKeeps ==
  ASSUME SettingsKnown(db, ui), NEW x, NEW e, e = [db EXCEPT !.tasks = x]
  PROVE  SettingsKnown(e, ui) /\ StoredOf(e, ui) = StoredOf(db, ui)
  <1>1. /\ e \in [tasks : {e.tasks}, settings : TaskSettings, meant : TaskSettings,
                   api : BOOLEAN, blind : BOOLEAN]
        /\ e.settings = db.settings /\ e.api = db.api /\ e.meant = db.meant
        /\ e.blind = db.blind
    BY DEF SettingsKnown
  <1> QED BY <1>1 DEF SettingsKnown, StoredOf

LEMMA LoadOutcome ==
  ASSUME NEW n, NEW i \in Slots, IsCall(n[i]), LoadFits(n[i], db, ui), NEW out,
         \/ out = Failure
         \/ /\ TaskFound(n[i].op, n[i].arg)
            /\ out = Success(TaskBody(n[i].op, n[i].arg))
  PROVE  LoadFits(Answer(n[i], out), db, ui)
  <1> DEFINE c == n[i]
             a == Answer(c, out)
  <1>1. out = Failure \/ out = Success(out.body)
    BY OutcomeIs
  <1>2. a.op = c.op /\ a.arg = c.arg /\ a.live = c.live /\ a.out = out
    BY <1>1, AnswerIs
  <1> HIDE DEF a
  <1>3. out.ok => out.body = TaskBody(c.op, c.arg) /\ TaskFound(c.op, c.arg)
    BY OutcomeIs
  <1>4. c.op = "settings" /\ out.ok => out.body = IF db.api THEN db.settings ELSE None
    BY <1>3, TaskBodyIs
  <1>5. c.op = "calendar" /\ out.ok => out.body = MonthsOf(db.tasks, {c.arg.of})
    BY <1>3, TaskBodyIs, MonthsAre
  <1>6. c.op = "list" /\ out.ok => out.body = MonthsOf(db.tasks, Window[c.arg.of])
    BY <1>3, TaskBodyIs, MonthsAre
  <1>7. LoadFits(a, db, ui)
    BY <1>2, <1>4, <1>5, <1>6 DEF LoadFits
  <1> QED BY <1>7 DEF a

LEMMA ActingOutcome ==
  ASSUME NEW c, Acting(c, db, ui), SettingsKnown(db, ui), DashboardShape(ui), ~c.back, NEW out,
         NEW d,
         \/ out = Failure /\ d = db
         \/ /\ TaskFound(c.op, c.arg) /\ d = TaskAfter(c.op, c.arg)
            /\ out = Success(TaskBody(c.op, c.arg))
  PROVE  SettingsKnown(d, ui) /\ Acting(Answer(c, out), d, ui)
  <1> DEFINE a == Answer(c, out)
  <1>1. out = Failure \/ out = Success(out.body)
    BY OutcomeIs
  <1>2. IsCall(c) /\ ~c.out.ok
    BY OutcomeIs DEF Acting, IsCall
  <1>3. a.op = c.op /\ a.arg = c.arg /\ a.live = c.live /\ a.out = out /\ IsCall(a)
    BY <1>1, <1>2, AnswerIs
  <1> HIDE DEF a
  <1>4. \/ ~out.ok /\ d = db
        \/ /\ out.ok /\ out.body = TaskBody(c.op, c.arg) /\ TaskFound(c.op, c.arg)
           /\ d = TaskAfter(c.op, c.arg)
    BY OutcomeIs
  <1>5. ASSUME c.op = "files"
        PROVE  SettingsKnown(d, ui) /\ Acting(a, d, ui)
    <2>1. d = db
      BY <1>4, <1>5, TaskAfterIs
    <2>2. out.ok => out.body = c.arg
      BY <1>4, <1>5, TaskBodyIs
    <2>3. FilesFits(a, d, ui)
      BY <1>3, <1>5, <2>1, <2>2 DEF Acting, FilesFits
    <2> QED BY SMTT(60), <1>3, <1>5, <2>1, <2>3 DEF Acting
  <1>6. ASSUME c.op = "saveTask"
        PROVE  SettingsKnown(d, ui) /\ Acting(a, d, ui)
    <2>1. SettingsKnown(d, ui) /\ StoredOf(d, ui) = StoredOf(db, ui)
      <3>1. \E x : TaskAfter(c.op, c.arg) = [db EXCEPT !.tasks = x]
        BY <1>6, TaskAfterIs
      <3>2. PICK x : TaskAfter(c.op, c.arg) = [db EXCEPT !.tasks = x]
        BY <3>1
      <3>3. d = db \/ d = [db EXCEPT !.tasks = x]
        BY <1>4, <3>2
      <3> QED BY SMTT(60), <3>3, TaskSavedKeeps
    <2>2. SettingsRight(d, ui)
      BY <1>6, <2>1 DEF Acting, SaveFits, SettingsRight
    <2>3. ~out.ok => CalendarRight(d, ui) /\ ListRight(d, ui)
      BY <1>2, <1>4, <1>6 DEF Acting, SaveFits
    <2>4. SaveFits(a, d, ui)
      BY <1>3, <1>6, <2>2, <2>3 DEF Acting, SaveFits
    <2> QED BY <1>3, <1>6, <2>1, <2>4 DEF Acting
  <1>7. ASSUME c.op \in {"putForm", "putDays"}
        PROVE  SettingsKnown(d, ui) /\ Acting(a, d, ui)
    <2>1. PutFits(c, db, ui) /\ SettingsRight(db, ui)
      BY <1>2, <1>7 DEF Acting, PutFits
    <2>2. CASE ~out.ok /\ d = db
      <3>1. PutFits(a, d, ui)
        BY <1>3, <1>7, <2>1, <2>2 DEF PutFits
      <3> QED BY <1>3, <1>7, <2>2, <3>1 DEF Acting
    <2>3. CASE ~(~out.ok /\ d = db)
      <3>1. /\ out.ok /\ out.body = TaskBody(c.op, c.arg) /\ TaskFound(c.op, c.arg)
            /\ d = TaskAfter(c.op, c.arg)
        BY <1>4, <2>3
      <3>2. ui.loaded \in BOOLEAN
        BY DEF DashboardShape
      <3>3. CASE db.api
        <4>1. out.body = c.arg.put /\ d = [Means(c.op, c.arg) EXCEPT !.settings = c.arg.put]
          <5>1. TaskBody(c.op, c.arg) = IF db.api THEN c.arg.put ELSE None
            BY <1>7, TaskBodyIs
          <5>2. PICK e : e = [Means(c.op, c.arg) EXCEPT !.settings = c.arg.put]
            OBVIOUS
          <5>3. TaskAfter(c.op, c.arg) = IF db.api THEN e ELSE db
            BY <1>7, <5>2, TaskAfterIs
          <5> QED BY <3>1, <3>3, <5>1, <5>2, <5>3
        <4>2. SettingsKnown(d, ui) /\ d.settings = c.arg.put /\ d.tasks = db.tasks /\ d.api
          <5>1. PICK op, arg : op = c.op /\ arg = c.arg
            OBVIOUS
          <5>2. Puts(op, arg, ui)
            BY <1>7, <2>1, <5>1 DEF PutFits, Puts
          <5>3. Holds(op, arg, d)
            BY <4>1, <5>1 DEF Holds
          <5>4. SettingsKnown(d, ui) /\ d.settings = arg.put /\ d.tasks = db.tasks /\ d.api
            BY Zenon, <2>1, <3>2, <3>3, <5>2, <5>3, PutKeeps
          <5> QED BY <5>1, <5>4
        <4>3. CalendarRight(d, ui) /\ ListRight(d, ui)
          BY <2>1, <4>2 DEF PutFits, CalendarRight, ListRight
        <4>4. PutFits(a, d, ui)
          BY <1>3, <2>1, <3>1, <4>1, <4>2, <4>3 DEF PutFits
        <4> QED BY <1>3, <1>7, <4>2, <4>4 DEF Acting
      <3>4. CASE ~db.api
        <4>1. out.body = None /\ d = db
          BY <1>7, <3>1, <3>4, TaskBodyIs, TaskAfterIs
        <4>2. PutFits(a, d, ui)
          BY <1>3, <2>1, <3>1, <3>4, <4>1 DEF PutFits
        <4> QED BY <1>3, <1>7, <4>1, <4>2 DEF Acting
      <3> QED BY <3>3, <3>4
    <2> QED BY <2>2, <2>3
  <1>8. c.op \in {"files", "saveTask", "putForm", "putDays"}
    BY DEF Acting
  <1> QED BY <1>5, <1>6, <1>7, <1>8 DEF a

LEMMA ServedWaits ==
  ASSUME TasksInv, left.patient, NEW i \in Slots, TaskServed(i) \/ Refuse(i)
  PROVE  UserWaits(net', db', ui')
  <1>1. Calls(net) /\ DashboardShape(ui) /\ left.lost = 0 /\ UserWaits(net, db, ui)
    BY DEF TasksInv, DashboardTyped
  <1>2. ~(left.lost > 0)
    BY <1>1
  <1>3. PICK out : /\ IsOpen(net, i) /\ net' = ComeBack(net, i, out) /\ ui' = ui
                   /\ \/ out = Failure /\ db' = db
                      \/ /\ TaskFound(net[i].op, net[i].arg)
                         /\ db' = TaskAfter(net[i].op, net[i].arg)
                         /\ out = Success(TaskBody(net[i].op, net[i].arg))
    <2>1. CASE Refuse(i)
      BY <2>1 DEF Refuse
    <2>2. CASE TaskServed(i)
      BY <1>2, <2>2 DEF TaskServed, Serve
    <2> QED BY <2>1, <2>2
  <1>4. out = Failure \/ out = Success(out.body)
    BY <1>3, OutcomeIs
  <1>5. Changed(net, net', i, Answer(net[i], out)) /\ IsCall(net[i])
    BY <1>1, <1>3, <1>4, ComeBackChanges
  <1>6. PICK d : d = db'
    OBVIOUS
  <1>7. ASSUME Loading(net, db, ui)
        PROVE  UserWaits(net', db', ui')
    <2>1. LoadFits(net[i], db, ui) /\ net[i].op # "none"
      BY <1>5, <1>7 DEF Loading, LoadsFit, IsCall
    <2>2. db' = db
      <3>1. net[i].op \notin {"saveTask", "putForm", "putDays"}
        BY SMTT(60), <2>1 DEF LoadFits
      <3>2. TaskAfter(net[i].op, net[i].arg) = db
        BY <3>1, TaskAfterIs
      <3> QED BY <1>3, <3>2
    <2>3. LoadFits(Answer(net[i], out), db, ui)
      BY <1>3, <1>5, <2>1, LoadOutcome
    <2>4. Answer(net[i], out).op = net[i].op
      BY <1>4, <1>5, AnswerIs
    <2>5. LoadsFit(net', db, ui) /\ \A x : NoneOf(net', x) <=> NoneOf(net, x)
      BY <1>5, <1>7, <2>3, <2>4, LoadAnswered DEF Loading
    <2>6. Loading(net', db, ui)
      BY <1>7, <2>5 DEF Loading
    <2> QED BY <1>1, <1>3, <2>2, <2>6 DEF UserWaits
  <1>8. ASSUME NEW k \in Slots, NEW c, net = Alone(k, c), Acting(c, db, ui)
        PROVE  UserWaits(net', db', ui')
    <2>1. k = i /\ net[i] = c /\ ~c.back
      BY <1>3, <1>8, AloneOpen
    <2>2. net' = Alone(i, Answer(c, out))
      BY <1>3, <1>8, <2>1, AloneIs
    <2>3. SettingsKnown(d, ui) /\ Acting(Answer(c, out), d, ui)
      BY <1>1, <1>3, <1>6, <1>8, <2>1, ActingOutcome DEF UserWaits
    <2>4. net'[i] = Answer(c, out)
      BY <1>5, <2>1 DEF Changed
    <2> QED BY <1>3, <1>6, <2>2, <2>3, <2>4 DEF UserWaits
  <1> QED BY <1>1, <1>7, <1>8 DEF UserWaits

\* What of the page the calls of a user who waits depend on.
SameScreen(u, v) ==
    /\ v.month = u.month /\ v.calendar = u.calendar /\ v.list = u.list /\ v.form = u.form
    /\ v.settings = u.settings /\ v.settingsLoading = u.settingsLoading
    /\ v.loaded = u.loaded /\ v.local = u.local /\ v.supported = u.supported

LEMMA ScreenStays ==
  ASSUME NEW n, NEW d, NEW u, NEW v, SameScreen(u, v), SettingsKnown(d, u), Loading(n, d, u)
  PROVE  UserWaits(n, d, v)
  <1>1. SettingsKnown(d, v)
    BY DEF SameScreen, SettingsKnown, StoredOf
  <1>2. LoadsFit(n, d, v)
    <2>1. \A c : LoadFits(c, d, u) => LoadFits(c, d, v)
      BY DEF SameScreen, LoadFits
    <2> QED BY <2>1 DEF Loading, LoadsFit
  <1>3. /\ CalendarRight(d, u) => CalendarRight(d, v)
        /\ ListRight(d, u) => ListRight(d, v)
        /\ FilesRight(u) => FilesRight(v)
        /\ SettingsRight(d, u) => SettingsRight(d, v)
        /\ ~u.settingsLoading => ~v.settingsLoading
    BY DEF SameScreen, CalendarRight, ListRight, FilesRight, SettingsRight, StoredOf
  <1>4. Loading(n, d, v)
    BY <1>2, <1>3 DEF Loading
  <1> QED BY <1>1, <1>4 DEF UserWaits

LEMMA AnsweredIs ==
  ASSUME TasksInv, left.patient, NEW i \in Slots, IsBack(net, i)
  PROVE  /\ Calls(net) /\ DashboardShape(ui) /\ SettingsKnown(db, ui)
         /\ IsCall(net[i]) /\ net[i].live /\ net[i].op # "none" /\ net[i].out.ok \in BOOLEAN
         /\ \/ Loading(net, db, ui) /\ LoadFits(net[i], db, ui)
            \/ Acting(net[i], db, ui) /\ Settle(net, i) = NoCalls
  <1>1. Calls(net) /\ DashboardShape(ui) /\ UserWaits(net, db, ui)
    BY DEF TasksInv, DashboardTyped
  <1>2. IsCall(net[i]) /\ net[i].op # "none"
    BY <1>1, CallIs DEF IsBack
  <1>3. net[i].out.ok \in BOOLEAN
    BY <1>2, OkIs
  <1>4. ASSUME Loading(net, db, ui)
        PROVE  LoadFits(net[i], db, ui) /\ net[i].live
    BY <1>2, <1>4 DEF Loading, LoadsFit, LoadFits
  <1>5. ASSUME NEW k \in Slots, NEW c, net = Alone(k, c), Acting(c, db, ui)
        PROVE  Acting(net[i], db, ui) /\ net[i].live /\ Settle(net, i) = NoCalls
    <2>1. k = i /\ net[i] = c
      BY <1>5, AloneOpen
    <2> QED BY <1>5, <2>1, AloneIs DEF Acting
  <1> QED BY <1>1, <1>2, <1>3, <1>4, <1>5 DEF UserWaits

LEMMA OnSummaryWaits ==
  ASSUME TasksInv, left.patient, NEW i \in Slots, OnSummary(i)
  PROVE  UserWaits(net', db', ui')
  <1>1. IsBack(net, i) /\ net[i].op = "summary" /\ net' = Settle(net, i) /\ db' = db
    BY DEF OnSummary, Back
  <1>2. /\ Calls(net) /\ DashboardShape(ui) /\ SettingsKnown(db, ui) /\ net[i].op # "none"
        /\ Loading(net, db, ui)
    BY <1>1, AnsweredIs DEF Acting
  <1>3. PICK summary : ui' = [ui EXCEPT !.summary = summary]
    BY DEF OnSummary
  <1>4. SameScreen(ui, ui')
    BY <1>2, <1>3 DEF DashboardShape, SameScreen
  <1>5. LoadsFit(net', db, ui)
        /\ \A x : x # "none" => (NoneOf(net', x) <=> NoneOf(net, x) \/ x = "summary")
    BY <1>1, <1>2, LoadSettled DEF Loading
  <1>6. Loading(net', db, ui)
    BY <1>2, <1>5 DEF Loading
  <1> QED BY <1>1, <1>2, <1>4, <1>6, ScreenStays

LEMMA OnCalendarWaits ==
  ASSUME TasksInv, left.patient, NEW i \in Slots, OnCalendar(i)
  PROVE  UserWaits(net', db', ui')
  <1>1. IsBack(net, i) /\ net[i].op = "calendar" /\ net' = Settle(net, i) /\ db' = db
    BY DEF OnCalendar, Back
  <1>2. /\ Calls(net) /\ DashboardShape(ui) /\ SettingsKnown(db, ui) /\ net[i].op # "none"
        /\ Loading(net, db, ui) /\ LoadFits(net[i], db, ui)
    BY <1>1, AnsweredIs DEF Acting
  <1>3. PICK items : items = IF net[i].out.ok THEN net[i].out.body ELSE {}
    OBVIOUS
  <1>4. PICK k : k = [of |-> net[i].arg.of, items |-> items]
    OBVIOUS
  <1>5. ui' = [ui EXCEPT !.calendar = k]
    BY <1>3, <1>4 DEF OnCalendar
  <1>6. PICK v : v = ui'
    OBVIOUS
  <1>7. /\ v.month = ui.month /\ v.calendar = k /\ v.list = ui.list /\ v.form = ui.form
        /\ v.settings = ui.settings /\ v.settingsLoading = ui.settingsLoading
        /\ v.loaded = ui.loaded /\ v.local = ui.local /\ v.supported = ui.supported
    BY <1>2, <1>5, <1>6 DEF DashboardShape
  <1>8. CalendarRight(db, v)
    BY <1>1, <1>2, <1>3, <1>4, <1>7 DEF LoadFits, CalendarRight
  <1>9. LoadsFit(net', db, ui)
        /\ \A x : x # "none" => (NoneOf(net', x) <=> NoneOf(net, x) \/ x = "calendar")
    BY <1>1, <1>2, LoadSettled DEF Loading
  <1>10. LoadsFit(net', db, v)
    <2>1. \A c : LoadFits(c, db, ui) => LoadFits(c, db, v)
      BY <1>7 DEF LoadFits
    <2> QED BY <1>9, <2>1 DEF LoadsFit
  <1>11. /\ SettingsKnown(db, v) /\ (ListRight(db, ui) => ListRight(db, v))
         /\ (FilesRight(ui) => FilesRight(v)) /\ (SettingsRight(db, ui) => SettingsRight(db, v))
    BY <1>2, <1>7 DEF SettingsKnown, StoredOf, ListRight, FilesRight, SettingsRight
  <1>12. Loading(net', db, v)
    BY <1>2, <1>7, <1>8, <1>9, <1>10, <1>11 DEF Loading
  <1> QED BY <1>1, <1>6, <1>11, <1>12 DEF UserWaits

LEMMA OnListWaits ==
  ASSUME TasksInv, left.patient, NEW i \in Slots, OnList(i)
  PROVE  UserWaits(net', db', ui')
  <1>1. IsBack(net, i) /\ net[i].op = "list" /\ net' = Settle(net, i) /\ db' = db
    BY DEF OnList, Back
  <1>2. /\ Calls(net) /\ DashboardShape(ui) /\ SettingsKnown(db, ui) /\ net[i].op # "none"
        /\ Loading(net, db, ui) /\ LoadFits(net[i], db, ui)
    BY <1>1, AnsweredIs DEF Acting
  <1>3. PICK items : items = IF net[i].out.ok THEN net[i].out.body ELSE {}
    OBVIOUS
  <1>4. PICK l : l = [ui.list EXCEPT !.of = net[i].arg.of, !.loading = FALSE, !.items = items]
    OBVIOUS
  <1>5. ui' = [ui EXCEPT !.list = l]
    BY <1>3, <1>4 DEF OnList
  <1>6. PICK v : v = ui'
    OBVIOUS
  <1>7. /\ v.month = ui.month /\ v.calendar = ui.calendar /\ v.list = l /\ v.form = ui.form
        /\ v.settings = ui.settings /\ v.settingsLoading = ui.settingsLoading
        /\ v.loaded = ui.loaded /\ v.local = ui.local /\ v.supported = ui.supported
    BY <1>2, <1>5, <1>6 DEF DashboardShape
  <1>8. ListRight(db, v)
    <2>1. l.items = items
      BY <1>2, <1>4 DEF DashboardShape, ListShape
    <2> QED BY <1>1, <1>2, <1>3, <1>7, <2>1 DEF LoadFits, ListRight
  <1>9. LoadsFit(net', db, ui)
        /\ \A x : x # "none" => (NoneOf(net', x) <=> NoneOf(net, x) \/ x = "list")
    BY <1>1, <1>2, LoadSettled DEF Loading
  <1>10. LoadsFit(net', db, v)
    <2>1. \A c : LoadFits(c, db, ui) => LoadFits(c, db, v)
      BY <1>7 DEF LoadFits
    <2> QED BY <1>9, <2>1 DEF LoadsFit
  <1>11. /\ SettingsKnown(db, v) /\ (CalendarRight(db, ui) => CalendarRight(db, v))
         /\ (FilesRight(ui) => FilesRight(v)) /\ (SettingsRight(db, ui) => SettingsRight(db, v))
    BY <1>2, <1>7 DEF SettingsKnown, StoredOf, CalendarRight, FilesRight, SettingsRight
  <1>12. Loading(net', db, v)
    BY <1>2, <1>7, <1>8, <1>9, <1>10, <1>11 DEF Loading
  <1> QED BY <1>1, <1>6, <1>11, <1>12 DEF UserWaits

LEMMA DefaultsAre == DefaultSettings \in TaskSettings
  BY FormsAssumption DEF DefaultSettings, TaskSettings

LEMMA OnSettingsWaits ==
  ASSUME TasksInv, left.patient, NEW i \in Slots, OnSettings(i)
  PROVE  UserWaits(net', db', ui')
  <1> DEFINE c == net[i]
             n == Settle(net, i)
  <1>1. IsBack(net, i) /\ c.op = "settings" /\ db' = db
    BY DEF OnSettings, Back
  <1>2. /\ Calls(net) /\ DashboardShape(ui) /\ SettingsKnown(db, ui) /\ c.op # "none"
        /\ Loading(net, db, ui) /\ LoadFits(c, db, ui) /\ c.out.ok \in BOOLEAN
    BY <1>1, AnsweredIs DEF Acting
  <1>3. PICK s : s = IF c.out.ok /\ c.out.body # None THEN c.out.body
                     ELSE IF c.out.ok /\ ui.local # None THEN ui.local ELSE DefaultSettings
    OBVIOUS
  <1>4. PICK b \in BOOLEAN : b = c.out.ok
    BY <1>2
  <1>5. PICK supported \in BOOLEAN :
           supported = IF c.out.ok THEN c.out.ok /\ c.out.body # None ELSE ui.supported
    BY <1>2 DEF DashboardShape
  <1>6. PICK l : l = [ui.list EXCEPT !.loading = TRUE, !.wanted = s.form]
    OBVIOUS
  <1>7. PICK modal : modal = IF c.arg THEN Closing("putForm") ELSE ui.modal
    OBVIOUS
  <1>8. PICK arg : arg = [of |-> s.form, form |-> FALSE]
    OBVIOUS
  <1>9. /\ net' = LoadList(n, s.form, FALSE)
        /\ ui' = [ui EXCEPT !.settings = s, !.settingsLoading = FALSE, !.loaded = b,
                            !.supported = supported, !.list = l, !.modal = modal]
    BY <1>3, <1>4, <1>5, <1>6, <1>7 DEF OnSettings
  <1>10. PICK v : v = ui'
    OBVIOUS
  <1>11. /\ v.settings = s /\ ~v.settingsLoading /\ v.loaded = b /\ v.supported = supported
         /\ v.local = ui.local /\ v.month = ui.month /\ v.calendar = ui.calendar
         /\ v.form = ui.form
    BY <1>2, <1>9, <1>10 DEF DashboardShape
  <1>12. /\ c.out.ok => s = StoredOf(db, ui)
         /\ c.out.ok => (c.out.body # None <=> db.api)
    <2>1. c.out.ok => c.out.body = IF db.api THEN db.settings ELSE None
      BY <1>1, <1>2 DEF LoadFits
    <2>2. db.settings # None /\ db.api \in BOOLEAN
      BY <1>2, NoneAssumption DEF SettingsKnown
    <2> QED BY <1>3, <2>1, <2>2 DEF StoredOf
  <1>13. s \in TaskSettings
    BY <1>2, <1>3, <1>12, DefaultsAre DEF SettingsKnown, StoredOf
  <1>14. SettingsKnown(db, v) /\ SettingsRight(db, v)
    <2>1. StoredOf(db, v) = StoredOf(db, ui)
      BY <1>11 DEF StoredOf
    <2>2. ~supported => ~db.api
      BY <1>2, <1>5, <1>12 DEF SettingsKnown
    <2> QED BY <1>2, <1>4, <1>11, <1>12, <1>13, <2>1, <2>2 DEF SettingsKnown, SettingsRight
  <1>15. /\ Calls(n) /\ LoadsFit(n, db, ui) /\ FreeSlots(n) # {}
         /\ \A x : x # "none" => (NoneOf(n, x) <=> NoneOf(net, x) \/ x = "settings")
    BY <1>1, <1>2, LoadSettled DEF Loading
  <1> HIDE DEF n
  <1>16. NoneOf(n, "settings") /\ NoneOf(n, "list")
    <2>1. ~NoneOf(net, "settings")
      BY <1>1 DEF NoneOf
    <2> QED BY <1>2, <1>15, <2>1 DEF Loading
  <1>17. LoadsFit(n, db, v)
    BY <1>11, <1>15, <1>16 DEF LoadsFit, LoadFits, NoneOf
  <1>18. net' = Send(n, "list", arg)
    <2>1. LoadList(n, s.form, FALSE) = Send(n, "list", [of |-> s.form, form |-> FALSE])
      BY <1>15, <1>16, LoadListIs
    <2> QED BY <1>8, <1>9, <2>1
  <1>19. LoadFits(Fresh("list", arg), db, v)
    <2>1. arg.of = s.form
      BY <1>8
    <2> QED BY <1>11, <2>1, FreshIs DEF LoadFits
  <1>20. /\ LoadsFit(net', db, v)
         /\ \A x : x # "none" => (NoneOf(net', x) <=> NoneOf(n, x) /\ x # "list")
    BY <1>15, <1>16, <1>17, <1>18, <1>19, LoadSent
  <1>21. /\ CalendarRight(db, ui) => CalendarRight(db, v)
         /\ FilesRight(ui) => FilesRight(v)
    BY <1>11 DEF CalendarRight, FilesRight
  <1>22. NoneOf(net', "settings") /\ ~NoneOf(net', "list")
         /\ (NoneOf(net', "calendar") => NoneOf(net, "calendar"))
    BY <1>15, <1>16, <1>20
  <1>23. Loading(net', db, v)
    BY <1>2, <1>11, <1>14, <1>20, <1>21, <1>22 DEF Loading
  <1> QED BY <1>1, <1>10, <1>14, <1>23 DEF UserWaits

LEMMA OnFilesWaits ==
  ASSUME TasksInv, left.patient, NEW i \in Slots, OnFiles(i)
  PROVE  UserWaits(net', db', ui')
  <1> DEFINE c == net[i]
  <1>1. IsBack(net, i) /\ c.op = "files" /\ net' = Settle(net, i) /\ db' = db
    BY DEF OnFiles, Back
  <1>2. /\ DashboardShape(ui) /\ SettingsKnown(db, ui) /\ c.out.ok \in BOOLEAN
        /\ Acting(c, db, ui) /\ net' = NoCalls
    BY <1>1, AnsweredIs DEF LoadFits
  <1>3. PICK x : x = IF c.out.ok THEN c.out.body ELSE None
    OBVIOUS
  <1>4. PICK f : f = FormWith(x)
    OBVIOUS
  <1>5. ui' = [ui EXCEPT !.form = f]
    <2>1. ui' = [ui EXCEPT !.form = FormWith(IF c.out.ok THEN c.out.body ELSE None)]
      BY DEF OnFiles
    <2> QED BY <1>3, <1>4, <2>1
  <1>6. PICK v : v = ui'
    OBVIOUS
  <1>7. /\ v.month = ui.month /\ v.calendar = ui.calendar /\ v.list = ui.list /\ v.form = f
        /\ v.settings = ui.settings /\ v.settingsLoading = ui.settingsLoading
        /\ v.loaded = ui.loaded /\ v.local = ui.local /\ v.supported = ui.supported
    BY <1>2, <1>5, <1>6 DEF DashboardShape
  <1>8. f.files = x /\ f.file \in {x, None} /\ f.link = ui.form.link
    BY <1>2, <1>4, FormWithIs DEF DashboardShape
  <1>9. x \in {None, ui.form.link}
    BY <1>1, <1>2, <1>3 DEF Acting, FilesFits
  <1>10. FilesRight(v)
    BY <1>7, <1>8, <1>9 DEF FilesRight
  <1>11. SettingsKnown(db, v) /\ AtRest(db, v)
    BY <1>1, <1>2, <1>7, <1>10 DEF SettingsKnown, StoredOf, AtRest, Acting, FilesFits,
                                   CalendarRight, ListRight, SettingsRight
  <1> QED BY <1>1, <1>2, <1>6, <1>11, RestIs

LEMMA OnTaskSavedWaits ==
  ASSUME TasksInv, left.patient, NEW i \in Slots, OnTaskSaved(i)
  PROVE  UserWaits(net', db', ui')
  <1> DEFINE c == net[i]
  <1>1. IsBack(net, i) /\ c.op = "saveTask" /\ c.out.ok /\ db' = db
    BY DEF OnTaskSaved, Good, Back
  <1>2. /\ DashboardShape(ui) /\ SettingsKnown(db, ui)
        /\ Acting(c, db, ui) /\ Settle(net, i) = NoCalls
    BY <1>1, AnsweredIs DEF LoadFits
  <1>3. SaveFits(c, db, ui) /\ ~ui.settingsLoading
    BY <1>1, <1>2 DEF Acting
  <1>4. PICK arg : arg = [of |-> c.arg.at, form |-> TRUE]
    OBVIOUS
  <1>5. PICK w : w = c.arg.window
    OBVIOUS
  <1>6. PICK more : more = [of |-> w, form |-> TRUE]
    OBVIOUS
  <1>7. PICK l : l = [ui.list EXCEPT !.loading = TRUE, !.wanted = w]
    OBVIOUS
  <1>8. PICK m : m = Send(NoCalls, "calendar", arg)
    OBVIOUS
  <1>9. /\ net' = LoadList(m, w, TRUE) /\ HasRoom(NoCalls, 2)
        /\ ui' = [ui EXCEPT !.form = ClosedForm, !.list = l]
    BY <1>2, <1>4, <1>5, <1>7, <1>8 DEF OnTaskSaved, LoadCalendar
  <1>10. PICK v : v = ui'
    OBVIOUS
  <1>11. PICK f : f = ClosedForm /\ f.file = None /\ f.files = None
    BY ClosedFormIs
  <1>12. /\ v.month = ui.month /\ v.calendar = ui.calendar /\ v.list = l /\ v.form = f
         /\ v.settings = ui.settings /\ v.settingsLoading = ui.settingsLoading
         /\ v.loaded = ui.loaded /\ v.local = ui.local /\ v.supported = ui.supported
    BY <1>2, <1>9, <1>10, <1>11 DEF DashboardShape
  <1>13. LoadFits(Fresh("calendar", arg), db, v) /\ LoadFits(Fresh("list", more), db, v)
    <2>1. arg.of = v.month /\ more.of = v.settings.form
      BY <1>3, <1>4, <1>5, <1>6, <1>12 DEF SaveFits
    <2> QED BY <2>1, FreshIs DEF LoadFits
  <1>14. LoadsFit(NoCalls, db, v) /\ NoneOf(NoCalls, "calendar") /\ NoneOf(NoCalls, "list")
         /\ NoneOf(NoCalls, "settings")
    BY NoCallsAre, NoneNow DEF LoadsFit
  <1>15. /\ Calls(m) /\ LoadsFit(m, db, v)
         /\ \A x : x # "none" => (NoneOf(m, x) <=> NoneOf(NoCalls, x) /\ x # "calendar")
    BY <1>8, <1>13, <1>14, CallsRoom, LoadSent
  <1>16. FreeSlots(m) # {}
    <2>1. PICK j \in FreeSlots(NoCalls) : Changed(NoCalls, m, j, Fresh("calendar", arg))
      BY <1>8, CallsRoom, SendChanges
    <2>2. PICK k \in FreeSlots(NoCalls) \ {j} : TRUE
      BY <1>9, RoomForMore
    <2>3. k \in FreeSlots(m)
      BY <2>1, <2>2 DEF Changed, FreeSlots
    <2> QED BY <2>3
  <1>17. NoneOf(m, "list") /\ NoneOf(m, "settings") /\ ~NoneOf(m, "calendar")
    BY <1>14, <1>15
  <1>18. net' = Send(m, "list", more)
    <2>1. LoadList(m, w, TRUE) = Send(m, "list", [of |-> w, form |-> TRUE])
      BY <1>15, <1>16, <1>17, LoadListIs
    <2> QED BY <1>6, <1>9, <2>1
  <1>19. /\ LoadsFit(net', db, v)
         /\ \A x : x # "none" => (NoneOf(net', x) <=> NoneOf(m, x) /\ x # "list")
    BY <1>13, <1>15, <1>16, <1>17, <1>18, LoadSent
  <1>20. NoneOf(net', "settings") /\ ~NoneOf(net', "list") /\ ~NoneOf(net', "calendar")
    BY <1>17, <1>19
  <1>21. SettingsKnown(db, v) /\ SettingsRight(db, v) /\ FilesRight(v) /\ ~v.settingsLoading
    BY <1>2, <1>3, <1>11, <1>12 DEF SettingsKnown, StoredOf, SaveFits, SettingsRight,
                                    FilesRight
  <1>22. Loading(net', db, v)
    BY <1>19, <1>20, <1>21 DEF Loading
  <1> QED BY <1>1, <1>10, <1>21, <1>22 DEF UserWaits

\* What a put that has been answered tells.
LEMMA PutAnswered ==
  ASSUME TasksInv, left.patient, NEW i \in Slots, NEW op \in {"putForm", "putDays"}, Good(i, op)
  PROVE  /\ DashboardShape(ui) /\ SettingsKnown(db, ui) /\ PutFits(net[i], db, ui)
         /\ Settle(net, i) = NoCalls /\ ~ui.settingsLoading
         /\ net[i].out.body # None =>
               db.api /\ net[i].out.body = db.settings /\ db.settings \in TaskSettings
         /\ net[i].out.body = None => ~db.api
  <1> DEFINE c == net[i]
  <1>1. IsBack(net, i) /\ c.op = op /\ c.out.ok
    BY DEF Good, Back
  <1>2. /\ DashboardShape(ui) /\ SettingsKnown(db, ui)
        /\ Acting(c, db, ui) /\ Settle(net, i) = NoCalls
    BY <1>1, AnsweredIs DEF LoadFits
  <1>3. PutFits(c, db, ui) /\ ~ui.settingsLoading
    BY <1>1, <1>2 DEF Acting
  <1>4. c.arg.put # None /\ db.api \in BOOLEAN /\ db.settings \in TaskSettings
    BY <1>2, <1>3, NoneAssumption DEF PutFits, SettingsKnown
  <1>5. IF db.api THEN c.out.body = c.arg.put /\ db.settings = c.arg.put
        ELSE c.out.body = None
    BY <1>1, <1>3 DEF PutFits
  <1> QED BY <1>2, <1>3, <1>4, <1>5

LEMMA OnFormPutWaits ==
  ASSUME TasksInv, left.patient, NEW i \in Slots, OnFormPut(i)
  PROVE  UserWaits(net', db', ui')
  <1> DEFINE c == net[i]
  <1>1. Good(i, "putForm") /\ c.out.body # None /\ db' = db
    BY DEF OnFormPut
  <1>2. /\ DashboardShape(ui) /\ SettingsKnown(db, ui) /\ PutFits(c, db, ui)
        /\ Settle(net, i) = NoCalls
        /\ db.api /\ c.out.body = db.settings /\ db.settings \in TaskSettings
    BY <1>1, PutAnswered
  <1>3. PICK s : s = c.out.body
    OBVIOUS
  <1>4. /\ net' = Send(NoCalls, "settings", TRUE)
        /\ ui' = [ui EXCEPT !.settings = s, !.local = s, !.loaded = TRUE,
                            !.settingsLoading = TRUE]
    BY <1>2, <1>3 DEF OnFormPut
  <1>5. PICK v : v = ui'
    OBVIOUS
  <1>6. /\ v.month = ui.month /\ v.calendar = ui.calendar /\ v.form = ui.form
        /\ v.settings = s /\ v.settingsLoading /\ v.local = s
        /\ v.loaded /\ v.supported = ui.supported
    BY <1>2, <1>4, <1>5 DEF DashboardShape
  <1>7. SettingsKnown(db, v) /\ SettingsRight(db, v) /\ CalendarRight(db, v) /\ FilesRight(v)
    BY <1>2, <1>3, <1>6 DEF SettingsKnown, StoredOf, PutFits, SettingsRight, CalendarRight,
                            FilesRight
  <1>8. PICK arg : arg = TRUE
    OBVIOUS
  <1>9. LoadFits(Fresh("settings", arg), db, v)
    BY <1>6, FreshIs DEF LoadFits
  <1>10. UserWaits(Send(NoCalls, "settings", arg), db, v)
    BY <1>7, <1>9, LoadAlone
  <1> QED BY <1>1, <1>4, <1>5, <1>8, <1>10

LEMMA OnDaysPutWaits ==
  ASSUME TasksInv, left.patient, NEW i \in Slots, OnDaysPut(i)
  PROVE  UserWaits(net', db', ui')
  <1> DEFINE c == net[i]
  <1>1. Good(i, "putDays") /\ c.out.body # None /\ db' = db
    BY DEF OnDaysPut
  <1>2. /\ DashboardShape(ui) /\ SettingsKnown(db, ui) /\ PutFits(c, db, ui)
        /\ Settle(net, i) = NoCalls /\ ~ui.settingsLoading
        /\ db.api /\ c.out.body = db.settings /\ db.settings \in TaskSettings
    BY <1>1, PutAnswered
  <1>3. PICK s : s = c.out.body
    OBVIOUS
  <1>4. PICK l : l = ListFor(s)
    OBVIOUS
  <1>5. /\ net' = Following(NoCalls, s)
        /\ ui' = [ui EXCEPT !.settings = s, !.local = s, !.loaded = TRUE, !.list = l]
    BY <1>2, <1>3, <1>4 DEF OnDaysPut
  <1>6. PICK v : v = ui'
    OBVIOUS
  <1>7. /\ v.month = ui.month /\ v.calendar = ui.calendar /\ v.form = ui.form /\ v.list = l
        /\ v.settings = s /\ v.settingsLoading = ui.settingsLoading /\ v.local = s
        /\ v.loaded /\ v.supported = ui.supported
    BY <1>2, <1>5, <1>6 DEF DashboardShape
  <1>8. SettingsKnown(db, v) /\ SettingsRight(db, v)
    BY <1>2, <1>3, <1>7 DEF SettingsKnown, StoredOf, SettingsRight
  <1>9. CalendarRight(db, ui) /\ ListRight(db, ui) /\ FilesRight(ui)
    BY <1>2 DEF PutFits
  <1>10. UserWaits(Following(NoCalls, s), db, v)
    BY <1>2, <1>4, <1>7, <1>8, <1>9, FollowsAlone
  <1> QED BY <1>1, <1>5, <1>6, <1>10

LEMMA OnNoEndpointWaits ==
  ASSUME TasksInv, left.patient, NEW i \in Slots, OnNoEndpoint(i)
  PROVE  UserWaits(net', db', ui')
  <1> DEFINE c == net[i]
  <1>1. PICK op \in {"putForm", "putDays"} :
           /\ Good(i, op) /\ c.out.body = None
           /\ net' = Following(Settle(net, i), c.arg.put)
           /\ db' = Means(op, c.arg) /\ ui' = KeptLocally(op, c.arg.put)
    BY DEF OnNoEndpoint
  <1>2. /\ DashboardShape(ui) /\ SettingsKnown(db, ui) /\ PutFits(c, db, ui)
        /\ Settle(net, i) = NoCalls /\ ~ui.settingsLoading /\ ~db.api
    BY <1>1, PutAnswered
  <1>3. AtRest(db, ui)
    BY <1>2 DEF PutFits, AtRest
  <1>4. c.op = op
    BY <1>1 DEF Good, Back
  <1>5. UserWaits(Following(NoCalls, c.arg.put), Means(op, c.arg), KeptLocally(op, c.arg.put))
    BY <1>2, <1>3, <1>4, KeptWaits DEF PutFits
  <1> QED BY <1>1, <1>2, <1>5

LEMMA SaveFailsWaits ==
  ASSUME TasksInv, left.patient, NEW i \in Slots, SaveFails(i)
  PROVE  UserWaits(net', db', ui')
  <1> DEFINE c == net[i]
  <1>1. /\ IsBack(net, i) /\ c.op \in {"saveTask", "putForm", "putDays"} /\ ~c.out.ok
        /\ net' = Settle(net, i) /\ db' = db /\ ui' = ui
    BY DEF SaveFails, Bad, Back
  <1>2. /\ SettingsKnown(db, ui) /\ Acting(c, db, ui) /\ Settle(net, i) = NoCalls
    BY <1>1, AnsweredIs DEF LoadFits
  <1>3. AtRest(db, ui)
    BY <1>1, <1>2 DEF Acting, SaveFits, PutFits, AtRest
  <1> QED BY <1>1, <1>2, <1>3, RestIs

LEMMA AnswerWaits ==
  ASSUME TasksInv, left.patient, NEW i \in Slots, Late(i) \/ DashboardAnswered(i)
  PROVE  UserWaits(net', db', ui')
  <1>1. ~Late(i)
    BY AnsweredIs DEF Late
  <1> QED BY <1>1, OnSummaryWaits, OnSettingsWaits, OnCalendarWaits, OnListWaits, OnFilesWaits,
             OnTaskSavedWaits, OnFormPutWaits, OnDaysPutWaits, OnNoEndpointWaits,
             SaveFailsWaits
             DEF DashboardAnswered

LEMMA TasksKeep ==
  ASSUME TasksInv, [DashboardNext]_vars
  PROVE  TasksInv'
  <1>1. DashboardTyped /\ ListAsked
    BY DEF TasksInv
  <1>2. ASSUME DashboardTyped', ListAsked', left.patient /\ left'.patient => UserWaits(net', db', ui'),
               left'.patient = left.patient
        PROVE  TasksInv'
    BY <1>2 DEF TasksInv
  <1>3. CASE DashboardUser
    <2>1. (DashboardTyped /\ ListAsked)'
      BY <1>1, <1>3, UserAsks
    <2>2. left.patient => UserWaits(net', db', ui')
      BY <1>3, UserActs
    <2>3. left'.patient = left.patient
      <3>1. left.acts > 0 /\ left' = Spent
        BY ZenonT(60), <1>3 DEF DashboardUser, TurnMonth, SubmitTask, NewTask, EditTask, LinkTo,
                    PickFile, CloseTask, OpenSettings, CloseSettings, SubmitForm, SubmitDays,
                    OnDashboard, Acts
      <3> QED BY SMTT(60), <1>1, <3>1, SpentIs DEF DashboardTyped
    <2> QED BY <1>2, <2>1, <2>2, <2>3
  <1>4. ASSUME NEW i \in Slots, TaskServed(i) \/ Refuse(i)
        PROVE  TasksInv'
    <2>1. (DashboardTyped /\ ListAsked)'
      BY <1>1, <1>4, ServedAsks
    <2>2. left.patient => UserWaits(net', db', ui')
      BY <1>4, ServedWaits
    <2>3. left'.patient = left.patient
      BY <1>1, <1>4, LeftIs DEF DashboardTyped, TaskServed
    <2> QED BY <1>2, <2>1, <2>2, <2>3
  <1>5. ASSUME NEW i \in Slots, Late(i) \/ DashboardAnswered(i)
        PROVE  TasksInv'
    <2>1. (DashboardTyped /\ ListAsked)'
      BY <1>1, <1>5, AnswerAsks
    <2>2. left.patient => UserWaits(net', db', ui')
      BY <1>5, AnswerWaits
    <2>3. left' = left
      BY <1>5 DEF Late, DashboardAnswered, OnSummary, OnSettings, OnCalendar, OnList, OnFiles,
                  OnTaskSaved, OnFormPut, OnDaysPut, OnNoEndpoint, SaveFails
    <2> QED BY <1>2, <2>1, <2>2, <2>3
  <1>6. CASE UNCHANGED vars
    BY <1>6 DEF vars, TasksInv, DashboardTyped, ListAsked
  <1> QED BY <1>3, <1>4, <1>5, <1>6 DEF DashboardNext

LEMMA TasksStart ==
  ASSUME DashboardInit
  PROVE  TasksInv
  <1>1. left \in Setting /\ left.lost = 0 /\ MaxCalls >= 3
    BY DEF DashboardInit
  <1>2. PICK api \in BOOLEAN, tasks \in StoredTasks, month \in Months,
             local \in TaskSettings \cup {None} : MountDashboard(api, tasks, month, local)
    BY DEF DashboardInit
  <1>3. PICK arg : arg = [of |-> month, form |-> FALSE]
    OBVIOUS
  <1>4. PICK one : one = Send(NoCalls, "summary", None)
    OBVIOUS
  <1>5. PICK no : no = FALSE
    OBVIOUS
  <1>6. PICK two : two = Send(one, "settings", no)
    OBVIOUS
  <1>7. net = Send(two, "calendar", arg)
    BY <1>2, <1>3, <1>4, <1>5, <1>6 DEF MountDashboard, LoadCalendar
  <1>8. PICK l : l = [of |-> None, items |-> {}, loading |-> FALSE, wanted |-> None]
    OBVIOUS
  <1>9. PICK k : k = [of |-> month, items |-> {}]
    OBVIOUS
  <1>10. PICK f : f = NoForm
    OBVIOUS
  <1>11. PICK s : s = DefaultSettings
    OBVIOUS
  <1>12. ui = [page |-> "dashboard", summary |-> "loading", month |-> month,
               calendar |-> k, list |-> l,
               settings |-> s, settingsLoading |-> TRUE, loaded |-> FALSE,
               supported |-> TRUE, local |-> local, form |-> f, modal |-> "none"]
    BY <1>2, <1>8, <1>9, <1>10, <1>11 DEF MountDashboard
  <1>13. ListShape(l) /\ FormShape(f) /\ f.files = None /\ f.file = None /\ ~l.loading
         /\ l.of = l.wanted
    BY <1>8, <1>10 DEF ListShape, FormShape, NoForm
  <1>14. DashboardShape(ui)
    BY <1>12, <1>13 DEF DashboardShape
  <1>15. /\ ui.month = month /\ ui.settingsLoading /\ ui.list = l /\ ui.form = f /\ ~ui.loaded
         /\ ui.settings = s /\ ui.local = local /\ ui.supported
    BY <1>12
  <1>16. SettingsKnown(db, ui)
    <2>1. PICK m : m = IF api \/ local = None THEN s ELSE local
      OBVIOUS
    <2>2. db = [tasks |-> tasks, settings |-> s, api |-> api, blind |-> FALSE, meant |-> m]
      BY <1>2, <1>11, <2>1 DEF MountDashboard, DashboardDb
    <2>3. s \in TaskSettings /\ m \in TaskSettings
      BY <1>2, <1>11, <2>1, DefaultsAre
    <2>4. StoredOf(db, ui) = m
      BY <1>11, <1>15, <2>1, <2>2 DEF StoredOf
    <2>5. db \in [tasks : {db.tasks}, settings : TaskSettings, meant : TaskSettings,
                  api : BOOLEAN, blind : BOOLEAN] /\ db.meant = m
      BY <1>2, <2>2, <2>3
    <2> QED BY <1>2, <1>15, <2>3, <2>4, <2>5 DEF SettingsKnown
  <1>17. LoadsFit(NoCalls, db, ui) /\ NoneOf(NoCalls, "summary") /\ NoneOf(NoCalls, "settings")
         /\ NoneOf(NoCalls, "calendar") /\ NoneOf(NoCalls, "list")
    BY NoCallsAre, NoneNow DEF LoadsFit
  <1>18. LoadFits(Fresh("summary", None), db, ui)
    BY FreshIs DEF LoadFits
  <1>19. LoadFits(Fresh("settings", no), db, ui)
    BY <1>15, FreshIs DEF LoadFits
  <1>20. LoadFits(Fresh("calendar", arg), db, ui)
    <2>1. arg.of = ui.month
      BY <1>3, <1>15
    <2> QED BY <2>1, FreshIs DEF LoadFits
  <1>21. /\ Calls(one) /\ LoadsFit(one, db, ui)
         /\ \A x : x # "none" => (NoneOf(one, x) <=> NoneOf(NoCalls, x) /\ x # "summary")
    BY <1>4, <1>17, <1>18, CallsRoom, LoadSent
  <1>22. PICK i \in FreeSlots(NoCalls) : Changed(NoCalls, one, i, Fresh("summary", None))
    BY <1>4, CallsRoom, SendChanges
  <1>23. \A j \in Slots \ {i} : one[j].op = "none"
    BY <1>22, NoCallsAre DEF Changed
  <1>24. {1, 2, 3} \subseteq Slots
    BY <1>1, MaxCallsAssumption DEF Slots
  <1>25. FreeSlots(one) # {}
    BY <1>23, <1>24 DEF FreeSlots
  <1>26. /\ Calls(two) /\ LoadsFit(two, db, ui)
         /\ \A x : x # "none" => (NoneOf(two, x) <=> NoneOf(one, x) /\ x # "settings")
    BY <1>6, <1>17, <1>19, <1>21, <1>25, LoadSent
  <1>27. PICK j \in FreeSlots(one) : Changed(one, two, j, Fresh("settings", no))
    BY <1>6, <1>21, <1>25, SendChanges
  <1>28. FreeSlots(two) # {}
    <2>1. \A h \in Slots \ {i, j} : two[h].op = "none"
      BY <1>23, <1>27 DEF Changed
    <2> QED BY <1>24, <2>1 DEF FreeSlots
  <1>29. NoneOf(two, "calendar")
    BY <1>17, <1>21, <1>26
  <1>30. /\ Calls(net) /\ LoadsFit(net, db, ui)
         /\ \A x : x # "none" => (NoneOf(net, x) <=> NoneOf(two, x) /\ x # "calendar")
    BY <1>7, <1>20, <1>26, <1>28, <1>29, LoadSent
  <1>31. ~NoneOf(net, "settings") /\ ~NoneOf(net, "calendar") /\ NoneOf(net, "list")
    BY <1>17, <1>21, <1>26, <1>30
  <1>32. ListAsked
    BY <1>13, <1>15, <1>31 DEF ListAsked, AskedOf, LiveLists, NoneOf
  <1>33. FilesRight(ui) /\ SettingsRight(db, ui)
    BY <1>13, <1>15 DEF FilesRight, SettingsRight
  <1>34. Loading(net, db, ui)
    BY <1>30, <1>31, <1>33 DEF Loading
  <1> QED BY <1>1, <1>14, <1>16, <1>30, <1>32, <1>34 DEF TasksInv, DashboardTyped, UserWaits

LEMMA TasksAlways == DashboardSpec => []TasksInv
  BY TasksStart, TasksKeep, PTL DEF DashboardSpec

\* The list is always that of the newest request; for a user who waits calendar, list,
\* the file chosen and the files to choose from are those of the month, the window and
\* the document that the page shows, as the server holds them.
THEOREM TasksAreAsAsked == DashboardSpec => []TasksShownAsAsked
  <1>1. TasksInv => TasksShownAsAsked
    <2>1. ASSUME TasksInv, ~ui.list.loading
          PROVE  ui.list.of = ui.list.wanted
      BY <2>1 DEF TasksInv, ListAsked, AskedOf
    <2>2. ASSUME TasksInv, left.patient, Quiet
          PROVE  /\ ui.calendar.of = ui.month
                 /\ ui.calendar.items \in {{}, InMonths({ui.month})}
                 /\ ui.list.items \in {{}, InMonths(Window[ui.settings.form])}
                 /\ {ui.form.file, ui.form.files} \subseteq {None, ui.form.link}
      <3>1. AtRest(db, ui)
        BY <2>2, WaitsAtRest
      <3>2. /\ InMonths({ui.month}) = MonthsOf(db.tasks, {ui.month})
            /\ InMonths(Window[ui.settings.form]) = MonthsOf(db.tasks, Window[ui.settings.form])
        BY MonthsAre
      <3> QED BY <3>1, <3>2 DEF AtRest, CalendarRight, ListRight, FilesRight
    <2> QED BY <2>1, <2>2 DEF TasksShownAsAsked
  <1> QED BY <1>1, TasksAlways, PTL

\* For a user who waits neither form of the settings undoes what the other has saved,
\* in the server or, without its endpoint, in the browser: as long as none is saved
\* while the settings could not be loaded.
THEOREM FormsKeepWhatIsMeant == DashboardSpec => []FormsKeepEachOther
  <1>1. TasksInv => FormsKeepEachOther
    BY DEF TasksInv, UserWaits, SettingsKnown, StoredOf, Stored, FormsKeepEachOther
  <1> QED BY <1>1, TasksAlways, PTL

-----------------------------------------------------------------------------
(* The page of one document, when no answer is lost.                        *)

DocumentInit ==
    /\ left \in Setting /\ left.lost = 0 /\ MaxCalls >= 2
    /\ \E n \in Nat \ {0} : MountDocument(n)

DocumentSpec == DocumentInit /\ [][DocumentNext]_vars

DocumentShape(u) ==
    u \in [page : {u.page}, detail : {u.detail}, loading : {u.loading}, mode : {u.mode},
           edit : {u.edit}, files : {u.files}, busy : BOOLEAN, from : {u.from}, to : {u.to},
           diff : {u.diff}, diffLoading : BOOLEAN, snapshot : {u.snapshot},
           selected : {u.selected}, comments : {u.comments}, sending : {u.sending},
           editing : {u.editing}]

IsList(s) == \E S : s \in Seq(S)

DocumentTyped(d) ==
    /\ d \in [versions : {d.versions}, own : Nat, deleted : {d.deleted},
              comments : {d.comments}, next : {d.next}]
    /\ IsList(d.versions)

\* Of everybody: an action is busy, the first load is alone, and the difference asked
\* for last is the one that counts.
Writes == {"save", "addFiles", "delete"}
Saved(c) == c.op \in {"save", "addFiles"} /\ c.out.ok

DocCallFits(c, d, u) ==
    /\ c.op \notin {"none", "diff"} => c.live
    /\ c.op \in Writes => u.busy
    /\ c.op = "detail" => u.detail = None /\ d.own = 0
    /\ c.op = "detail" /\ c.out.ok => c.out.body.versions \in Nat
    /\ Saved(c) => c.out.body.versions \in Nat /\ c.out.body.versions >= d.own
    /\ c.op = "diff" /\ c.live =>
          c.arg = <<u.from, u.to>> /\ (c.out.ok => c.out.body = c.arg)

DocCallsFit(n, d, u) ==
    /\ \A i \in Slots : DocCallFits(n[i], d, u)
    /\ \A i, j \in Slots : n[i].op \in Writes /\ n[j].op \in Writes => i = j
    /\ \A i, j \in Slots : n[i].op = "detail" /\ n[j].op # "none" => i = j

DocShows(n, d, u) ==
    /\ u.detail # None /\ (\A i \in Slots : ~Saved(n[i])) =>
          u.detail.versions \in Nat /\ u.detail.versions >= d.own
    /\ u.diff # None /\ ~u.diffLoading => u.diff = <<u.from, u.to>>

DocStands(n, d, u) ==
    Calls(n) /\ DocumentShape(u) /\ DocumentTyped(d) /\ DocCallsFit(n, d, u) /\ DocShows(n, d, u)

\* Of a user who waits: nothing but the two loads after a document is shown is under
\* way together, and the comments shown are the document's, but for the one that a
\* call has just changed.
Comment == [id : Nat, text : DocTexts]
EachOnce(s) == \A k, l \in DOMAIN s : s[k].id = s[l].id => k = l
CommentsOf(d) ==
    /\ d.comments \in Seq(Comment) /\ EachOnce(d.comments) /\ d.next \in Nat
    /\ \A x \in ToSet(d.comments) : x.id < d.next

CommentCalls == {"addComment", "editComment", "removeComment"}
Commented(c) == c.op \in CommentCalls /\ c.out.ok
AgreeBut(s, d, id) ==
    /\ s \in Seq(Comment) /\ EachOnce(s)
    /\ \A x \in ToSet(s) : x.id # id => x \in ToSet(d.comments)
Agree(s, d) == s \in Seq(Comment) /\ EachOnce(s) /\ ToSet(s) \subseteq ToSet(d.comments)

DocCallWaits(c, d, u) ==
    /\ c.op = "snapshot" => c.arg = u.selected /\ (c.out.ok => c.out.body = c.arg)
    /\ c.op = "comments" /\ c.out.ok => c.out.body = d.comments
    /\ c.op = "addComment" => c.arg \in DocTexts
    /\ c.op \in {"editComment", "removeComment"} => c.arg \in Comment
    /\ c.op = "addComment" /\ c.out.ok =>
          /\ Agree(u.comments, d) /\ c.out.body \in ToSet(d.comments)
          /\ \A x \in ToSet(u.comments) : x.id # c.out.body.id
    /\ c.op = "editComment" /\ c.out.ok =>
          c.out.body = c.arg /\ c.arg \in ToSet(d.comments) /\ AgreeBut(u.comments, d, c.arg.id)
    /\ c.op = "removeComment" /\ c.out.ok =>
          c.out.body = c.arg /\ AgreeBut(u.comments, d, c.arg.id)

DocWaits(n, d, u) ==
    /\ CommentsOf(d)
    /\ \A i \in Slots : DocCallWaits(n[i], d, u)
    /\ \A i, j \in Slots : n[i].op \notin {"none", "diff", "comments"} /\ n[j].op # "none" => i = j
    /\ (\A i \in Slots : ~Commented(n[i])) => Agree(u.comments, d)
    /\ (\A i \in Slots : n[i].op # "snapshot") => u.snapshot \in {None, u.selected}

DocumentInv ==
    /\ left \in Setting /\ left.lost = 0
    /\ DocStands(net, db, ui)
    /\ left.patient => DocWaits(net, db, ui)

LEMMA LongerIs ==
  ASSUME NEW s, IsList(s), NEW x
  PROVE  IsList(Append(s, x)) /\ Len(Append(s, x)) = Len(s) + 1 /\ Len(s) \in Nat
  <1>1. PICK S : s \in Seq(S)
    BY DEF IsList
  <1>2. s \in Seq(S \cup {x})
    <2>1. s \in [1 .. Len(s) -> S] /\ Len(s) \in Nat
      BY <1>1, LenProperties, SeqDef
    <2>2. s \in [1 .. Len(s) -> S \cup {x}]
      BY <2>1
    <2> QED BY <2>1, <2>2, SeqDef
  <1>3. /\ Append(s, x) \in Seq(S \cup {x}) /\ Len(Append(s, x)) = Len(s) + 1
    BY <1>2, AppendProperties
  <1> QED BY <1>1, <1>3, LenProperties DEF IsList

LEMMA NoCallFits ==
  ASSUME NEW d, NEW u
  PROVE  DocCallFits(NoCall, d, u) /\ DocCallWaits(NoCall, d, u) /\ ~Saved(NoCall) /\ ~Commented(NoCall)
  BY NoCallIs DEF DocCallFits, DocCallWaits, Saved, Commented, Writes, CommentCalls

\* The page changes, but for what its calls are about.
LEMMA DocLooks ==
  ASSUME NEW n, NEW d, NEW u, DocStands(n, d, u), NEW v, DocumentShape(v),
         v.busy = u.busy \/ \A i \in Slots : n[i].op \notin Writes,
         v.detail = u.detail, v.from = u.from, v.to = u.to, v.diff = u.diff,
         v.diffLoading = u.diffLoading
  PROVE  DocStands(n, d, v)
  <1>1. \A i \in Slots : DocCallFits(n[i], d, v)
    BY DEF DocStands, DocCallsFit, DocCallFits
  <1>2. DocShows(n, d, v)
    BY DEF DocStands, DocShows
  <1> QED BY <1>1, <1>2 DEF DocStands, DocCallsFit

LEMMA DocSent ==
  ASSUME NEW n, NEW d, NEW u, DocStands(n, d, u), FreeSlots(n) # {}, NEW op, op # "none", NEW arg,
         DocCallFits(Fresh(op, arg), d, u),
         \A i \in Slots : \/ n[i].op = "none"
                          \/ /\ n[i].op # "detail" /\ op # "detail"
                             /\ ~(n[i].op \in Writes /\ op \in Writes)
  PROVE  DocStands(Send(n, op, arg), d, u)
  <1>1. PICK m : m = Send(n, op, arg)
    OBVIOUS
  <1>2. PICK f : f = Fresh(op, arg)
    OBVIOUS
  <1>3. PICK k \in FreeSlots(n) : Changed(n, m, k, f)
    BY <1>1, <1>2, SendChanges DEF DocStands
  <1>4. k \in Slots /\ n[k].op = "none" /\ f.op = op /\ ~f.out.ok
    BY <1>2, FreshIs DEF FreeSlots
  <1>5. Calls(m) /\ m[k] = f /\ \A j \in Slots \ {k} : m[j] = n[j]
    BY <1>3 DEF Changed
  <1>6. \A i \in Slots : DocCallFits(m[i], d, u)
    BY <1>2, <1>5 DEF DocStands, DocCallsFit
  <1>7. ASSUME NEW i \in Slots, NEW j \in Slots, i # j
        PROVE  /\ ~(m[i].op \in Writes /\ m[j].op \in Writes)
               /\ ~(m[i].op = "detail" /\ m[j].op # "none")
    <2>1. "none" \notin Writes
      BY DEF Writes
    <2>2. CASE i = k
      BY <1>4, <1>5, <1>7, <2>1, <2>2
    <2>3. CASE j = k
      BY <1>4, <1>5, <1>7, <2>1, <2>3
    <2>4. CASE i # k /\ j # k
      BY <1>5, <1>7, <2>4 DEF DocStands, DocCallsFit
    <2> QED BY <2>2, <2>3, <2>4
  <1>8. DocCallsFit(m, d, u)
    BY <1>6, <1>7 DEF DocCallsFit
  <1>9. (\A i \in Slots : ~Saved(m[i])) => \A i \in Slots : ~Saved(n[i])
    BY <1>4, <1>5 DEF Saved
  <1>10. DocShows(m, d, u)
    BY <1>9 DEF DocShows, DocStands
  <1> QED BY <1>1, <1>5, <1>8, <1>10 DEF DocStands

LEMMA DocSettled ==
  ASSUME NEW n, NEW d, NEW u, DocStands(n, d, u), NEW i \in Slots
  PROVE  /\ Calls(Settle(n, i)) /\ DocCallsFit(Settle(n, i), d, u)
         /\ i \in FreeSlots(Settle(n, i))
         /\ ~Saved(n[i]) => DocStands(Settle(n, i), d, u)
         /\ n[i].op = "detail" => \A j \in Slots : Settle(n, i)[j].op = "none"
         /\ n[i].op \in Writes => \A j \in Slots : Settle(n, i)[j].op \notin Writes
  <1>1. PICK m : m = Settle(n, i)
    OBVIOUS
  <1>2. Calls(m) /\ m[i] = NoCall /\ (\A j \in Slots \ {i} : m[j] = n[j]) /\ i \in FreeSlots(m)
    BY <1>1, SettleChanges DEF DocStands, Changed
  <1>3. m[i].op = "none" /\ "none" \notin Writes /\ "none" # "detail"
    BY <1>2, NoCallIs DEF Writes
  <1>4. DocCallsFit(m, d, u)
    <2>1. \A j \in Slots : DocCallFits(m[j], d, u)
      BY <1>2, NoCallFits DEF DocStands, DocCallsFit
    <2> QED BY <1>2, <1>3, <2>1 DEF DocStands, DocCallsFit
  <1>5. ASSUME ~Saved(n[i])
        PROVE  DocStands(m, d, u)
    <2>1. (\A j \in Slots : ~Saved(m[j])) => \A j \in Slots : ~Saved(n[j])
      BY <1>2, <1>5
    <2> QED BY <1>2, <1>4, <2>1 DEF DocStands, DocShows
  <1>6. ASSUME n[i].op = "detail"
        PROVE  \A j \in Slots : m[j].op = "none"
    BY <1>2, <1>3, <1>6 DEF DocStands, DocCallsFit
  <1>7. ASSUME n[i].op \in Writes
        PROVE  \A j \in Slots : m[j].op \notin Writes
    BY <1>2, <1>3, <1>7 DEF DocStands, DocCallsFit
  <1> QED BY <1>1, <1>2, <1>4, <1>5, <1>6, <1>7

\* The effect on the versions to compare.
LEMMA DiffLoaded ==
  ASSUME NEW n, NEW d, NEW u, DocStands(n, d, u), FreeSlots(n) # {},
         \A i \in Slots : n[i].op # "detail", NEW from, NEW to,
         NEW v, DocumentShape(v), v.busy = u.busy, v.detail = u.detail, v.from = from, v.to = to,
         IF from > to THEN v.diff = None /\ v.diffLoading = u.diffLoading
         ELSE v.diff = u.diff /\ v.diffLoading
  PROVE  DocStands(LoadDiff(n, from, to), d, v)
  <1>1. PICK m : m = Cancel(n, "diff")
    OBVIOUS
  <1>2. /\ Calls(m) /\ FreeSlots(m) # {}
        /\ \A i \in Slots : /\ n[i].op # "diff" => m[i] = n[i]
                            /\ m[i].op = n[i].op
                            /\ n[i].op = "diff" => ~m[i].live
    BY <1>1, CancelIs DEF DocStands
  <1>3. ASSUME NEW i \in Slots
        PROVE  DocCallFits(m[i], d, v) /\ (Saved(m[i]) <=> Saved(n[i]))
    <2>1. CASE n[i].op = "diff"
      BY <1>2, <2>1 DEF DocCallFits, Saved, Writes
    <2>2. CASE n[i].op # "diff"
      <3>1. DocCallFits(n[i], d, u)
        BY DEF DocStands, DocCallsFit
      <3> QED BY <1>2, <2>2, <3>1 DEF DocCallFits
    <2> QED BY <2>1, <2>2
  <1>4. DocCallsFit(m, d, v)
    BY <1>2, <1>3 DEF DocStands, DocCallsFit
  <1>5. DocShows(m, d, v)
    BY <1>3 DEF DocStands, DocShows, DocumentShape
  <1>6. DocStands(m, d, v)
    BY <1>2, <1>4, <1>5 DEF DocStands
  <1>7. CASE from > to
    BY <1>1, <1>6, <1>7 DEF LoadDiff
  <1>8. CASE ~(from > to)
    <2>1. PICK op : op = "diff"
      OBVIOUS
    <2>2. PICK arg : arg = <<from, to>>
      OBVIOUS
    <2>3. DocCallFits(Fresh(op, arg), d, v)
      BY <2>1, <2>2, FreshIs DEF DocCallFits, Saved, Writes
    <2>4. DocStands(Send(m, op, arg), d, v)
      BY <1>2, <1>6, <2>1, <2>3, DocSent DEF Writes
    <2> QED BY <1>1, <1>8, <2>1, <2>2, <2>4 DEF LoadDiff, Rerun
  <1> QED BY <1>7, <1>8

LEMMA ComparingIs ==
  ASSUME NEW u, DocumentShape(u), NEW from, NEW to, NEW v, v = Comparing(u, from, to)
  PROVE  /\ DocumentShape(v)
         /\ v.page = u.page /\ v.detail = u.detail /\ v.busy = u.busy /\ v.comments = u.comments
         /\ v.snapshot = u.snapshot /\ v.selected = u.selected
         /\ v.from = from /\ v.to = to
         /\ IF from > to THEN v.diff = None /\ v.diffLoading = u.diffLoading
            ELSE v.diff = u.diff /\ v.diffLoading
  BY DEF Comparing, DocumentShape

\* The page with the document d, before the versions are compared.
With(u, d) == [u EXCEPT !.detail = d, !.edit = d.text, !.files = FALSE,
                        !.snapshot = None, !.selected = None]

\* Of a user who waits.
LEMMA WaitsLooks ==
  ASSUME NEW n, NEW d, NEW u, DocWaits(n, d, u), NEW v, v.comments = u.comments,
         v.snapshot = u.snapshot, v.selected = u.selected
  PROVE  DocWaits(n, d, v)
  <1>1. \A i \in Slots : DocCallWaits(n[i], d, v)
    BY DEF DocWaits, DocCallWaits
  <1> QED BY <1>1 DEF DocWaits

Idle(n) == \A i \in Slots : n[i].op = "none"
OnlyLoads(n) == \A i \in Slots : n[i].op \in {"none", "diff", "comments"}

LEMMA WaitsSent ==
  ASSUME NEW n, NEW d, NEW u, DocWaits(n, d, u), Calls(n), FreeSlots(n) # {}, OnlyLoads(n),
         NEW op, op # "none", NEW arg, op \notin {"diff", "comments"} => Idle(n),
         NEW v, v.comments = u.comments, op # "snapshot" => v.snapshot \in {None, v.selected},
         DocCallWaits(Fresh(op, arg), d, v)
  PROVE  DocWaits(Send(n, op, arg), d, v) /\ (op \in {"diff", "comments"} => OnlyLoads(Send(n, op, arg)))
  <1>1. PICK m : m = Send(n, op, arg)
    OBVIOUS
  <1>2. PICK f : f = Fresh(op, arg)
    OBVIOUS
  <1>3. PICK k \in FreeSlots(n) : Changed(n, m, k, f)
    BY <1>1, <1>2, SendChanges
  <1>4. k \in Slots /\ n[k].op = "none" /\ f.op = op /\ ~f.out.ok
    BY <1>2, FreshIs DEF FreeSlots
  <1>5. m[k] = f /\ \A j \in Slots \ {k} : m[j] = n[j]
    BY <1>3 DEF Changed
  <1>6. \A i \in Slots : ~Commented(n[i])
    BY DEF OnlyLoads, Commented, CommentCalls
  <1>7. Agree(v.comments, d)
    BY <1>6 DEF DocWaits
  <1>8. ASSUME NEW i \in Slots
        PROVE  DocCallWaits(m[i], d, v)
    <2>1. CASE i = k
      BY <1>2, <1>5, <2>1
    <2>2. CASE i # k
      <3>1. m[i] = n[i] /\ n[i].op \in {"none", "diff", "comments"}
        BY <1>5, <2>2 DEF OnlyLoads
      <3>2. DocCallWaits(n[i], d, u)
        BY DEF DocWaits
      <3> QED BY <3>1, <3>2 DEF DocCallWaits
    <2> QED BY <2>1, <2>2
  <1>9. ASSUME NEW i \in Slots, NEW j \in Slots, m[i].op \notin {"none", "diff", "comments"},
               m[j].op # "none"
        PROVE  i = j
    <2>1. i = k
      BY <1>5, <1>9 DEF OnlyLoads
    <2>2. op \notin {"diff", "comments"}
      BY <1>4, <1>5, <1>9, <2>1
    <2> QED BY <1>5, <1>9, <2>1, <2>2 DEF Idle
  <1>10. (\A i \in Slots : m[i].op # "snapshot") => v.snapshot \in {None, v.selected}
    BY <1>4, <1>5
  <1>11. DocWaits(m, d, v)
    BY <1>7, <1>8, <1>9, <1>10 DEF DocWaits
  <1>12. op \in {"diff", "comments"} => OnlyLoads(m)
    BY <1>4, <1>5 DEF OnlyLoads
  <1> QED BY <1>1, <1>11, <1>12

LEMMA WaitsSettled ==
  ASSUME NEW n, NEW d, NEW u, DocWaits(n, d, u), Calls(n), NEW i \in Slots, n[i].op # "none",
         NEW v, Agree(v.comments, d), v.snapshot \in {None, v.selected}
  PROVE  /\ Calls(Settle(n, i)) /\ i \in FreeSlots(Settle(n, i))
         /\ DocWaits(Settle(n, i), d, v) /\ OnlyLoads(Settle(n, i))
         /\ n[i].op \notin {"diff", "comments"} => Idle(Settle(n, i))
  <1>1. PICK m : m = Settle(n, i)
    OBVIOUS
  <1>2. Calls(m) /\ m[i] = NoCall /\ (\A j \in Slots \ {i} : m[j] = n[j]) /\ i \in FreeSlots(m)
    BY <1>1, SettleChanges DEF Changed
  <1>3. m[i].op = "none"
    BY <1>2, NoCallIs
  <1>4. OnlyLoads(m)
    <2>1. ASSUME NEW j \in Slots, m[j].op \notin {"none", "diff", "comments"}
          PROVE  FALSE
      <3>1. j # i /\ n[j].op = m[j].op
        BY <1>2, <1>3, <2>1
      <3> QED BY <2>1, <3>1 DEF DocWaits
    <2> QED BY <2>1 DEF OnlyLoads
  <1>5. n[i].op \notin {"diff", "comments"} => Idle(m)
    BY <1>2, <1>3 DEF DocWaits, Idle
  <1>6. ASSUME NEW j \in Slots
        PROVE  DocCallWaits(m[j], d, v)
    <2>1. CASE j = i
      BY <1>2, <2>1, NoCallFits
    <2>2. CASE j # i
      <3>1. m[j] = n[j] /\ n[j].op \in {"none", "diff", "comments"}
        BY <1>2, <1>4, <2>2 DEF OnlyLoads
      <3>2. DocCallWaits(n[j], d, u)
        BY DEF DocWaits
      <3> QED BY <3>1, <3>2 DEF DocCallWaits
    <2> QED BY <2>1, <2>2
  <1>7. DocWaits(m, d, v)
    BY <1>4, <1>6 DEF DocWaits, OnlyLoads
  <1> QED BY <1>1, <1>2, <1>4, <1>5, <1>7

LEMMA WaitsIdle ==
  ASSUME NEW n, Calls(n), Idle(n)
  PROVE  n = NoCalls /\ OnlyLoads(n) /\ NoneOf(n, "diff") /\ NoneOf(n, "detail")
         /\ \A i \in Slots : ~Commented(n[i]) /\ n[i].op # "snapshot" /\ n[i].op \notin Writes
  BY NoCallIs DEF Idle, Calls, IsCall, NoCalls, OnlyLoads, NoneOf, Commented, CommentCalls, Writes

\* The versions are compared by a user who waits.
LEMMA WaitsCompared ==
  ASSUME NEW n, Calls(n), Idle(n), FreeSlots(n) # {}, NEW d, NEW u, DocWaits(n, d, u),
         NEW from, NEW to, NEW v, v.comments = u.comments, v.snapshot = u.snapshot,
         v.selected = u.selected
  PROVE  DocWaits(LoadDiff(n, from, to), d, v) /\ OnlyLoads(LoadDiff(n, from, to))
  <1>1. Cancel(n, "diff") = n /\ OnlyLoads(n)
    BY WaitsIdle, CancelIs
  <1>2. DocWaits(n, d, v)
    BY WaitsLooks
  <1>3. v.snapshot \in {None, v.selected}
    BY WaitsIdle DEF DocWaits
  <1>4. CASE from > to
    BY <1>1, <1>2, <1>4 DEF LoadDiff
  <1>5. CASE ~(from > to)
    <2>1. PICK op : op = "diff"
      OBVIOUS
    <2>2. PICK arg : arg = <<from, to>>
      OBVIOUS
    <2>3. DocCallWaits(Fresh(op, arg), d, v)
      BY <2>1, FreshIs DEF DocCallWaits
    <2>4. DocWaits(Send(n, op, arg), d, v) /\ OnlyLoads(Send(n, op, arg))
      BY <1>1, <1>2, <1>3, <2>1, <2>3, WaitsSent
    <2> QED BY <1>1, <1>5, <2>1, <2>2, <2>4 DEF LoadDiff, Rerun
  <1> QED BY <1>4, <1>5

\* What the user does keeps.
DocKeeps(n, u) == DocStands(n, db, u) /\ (left.patient => DocWaits(n, db, u))

LEMMA DocKept ==
  ASSUME DocumentInv
  PROVE  /\ DocKeeps(net, ui) /\ Calls(net) /\ DocumentShape(ui) /\ left \in Setting
         /\ ui.detail # None => \A j \in Slots : net[j].op # "detail"
         /\ ~ui.busy => \A j \in Slots : net[j].op \notin Writes
  BY DEF DocumentInv, DocKeeps, DocStands, DocCallsFit, DocCallFits

LEMMA DocUserLooks ==
  ASSUME DocumentInv, NEW v, DocumentShape(v), v.busy = ui.busy,
         v.detail = ui.detail, v.from = ui.from, v.to = ui.to, v.diff = ui.diff,
         v.diffLoading = ui.diffLoading, v.comments = ui.comments,
         v.snapshot = ui.snapshot, v.selected = ui.selected
  PROVE  DocKeeps(net, v)
  <1>1. DocStands(net, db, ui) /\ (left.patient => DocWaits(net, db, ui))
    BY DocKept DEF DocKeeps
  <1>2. DocStands(net, db, v)
    BY <1>1, DocLooks
  <1>3. left.patient => DocWaits(net, db, v)
    BY <1>1, WaitsLooks
  <1> QED BY <1>2, <1>3 DEF DocKeeps

LEMMA DocUserSends ==
  ASSUME DocumentInv, OnDocument(1), NEW op, op \notin {"none", "detail", "diff", "comments"},
         NEW arg, NEW v, DocumentShape(v),
         v.detail = ui.detail, v.from = ui.from, v.to = ui.to, v.diff = ui.diff,
         v.diffLoading = ui.diffLoading, v.comments = ui.comments,
         IF op \in Writes THEN ~ui.busy /\ v.busy ELSE v.busy = ui.busy,
         left.patient => DocCallWaits(Fresh(op, arg), db, v),
         op # "snapshot" => v.snapshot = ui.snapshot /\ v.selected = ui.selected
  PROVE  DocKeeps(Send(net, op, arg), v)
  <1>1. /\ FreeSlots(net) # {} /\ ui.detail # None /\ (left.patient => Quiet)
    BY Room DEF OnDocument, Acts
  <1>2. /\ Calls(net) /\ DocStands(net, db, ui) /\ (left.patient => DocWaits(net, db, ui))
        /\ \A j \in Slots : net[j].op # "detail"
        /\ ~ui.busy => \A j \in Slots : net[j].op \notin Writes
    BY <1>1, DocKept DEF DocKeeps
  <1>3. DocStands(net, db, v)
    BY <1>2, DocLooks
  <1>4. PICK f : f = Fresh(op, arg)
    OBVIOUS
  <1>5. f.op = op /\ f.live /\ ~f.out.ok
    BY <1>4, FreshIs
  <1>6. DocCallFits(f, db, v)
    BY <1>5 DEF DocCallFits, Saved
  <1>7. DocStands(Send(net, op, arg), db, v)
    BY <1>1, <1>2, <1>3, <1>4, <1>6, DocSent
  <1>8. ASSUME left.patient
        PROVE  DocWaits(Send(net, op, arg), db, v)
    <2>1. Idle(net)
      BY <1>1, <1>8 DEF Quiet, Idle
    <2>2. OnlyLoads(net) /\ ui.snapshot \in {None, ui.selected}
      BY <1>2, <1>8, <2>1, WaitsIdle DEF DocWaits
    <2> QED BY <1>1, <1>2, <1>8, <2>1, <2>2, WaitsSent
  <1> QED BY <1>7, <1>8 DEF DocKeeps

LEMMA DocComments ==
  ASSUME DocumentInv, left.patient, Quiet
  PROVE  Agree(ui.comments, db) /\ ToSet(ui.comments) \subseteq Comment
  <1>1. Idle(net) /\ Calls(net) /\ DocWaits(net, db, ui)
    BY DocKept DEF DocKeeps, Quiet, Idle
  <1>2. Agree(ui.comments, db)
    BY <1>1, WaitsIdle DEF DocWaits
  <1> QED BY <1>2, SetIs DEF Agree

LEMMA DocUserStep ==
  ASSUME DocumentInv, DocumentUser
  PROVE  DocumentInv'
  <1>1. /\ DocKeeps(net, ui) /\ Calls(net) /\ DocumentShape(ui) /\ left \in Setting /\ left.lost = 0
        /\ ui.detail # None => \A j \in Slots : net[j].op # "detail"
    BY DocKept DEF DocumentInv
  <1>2. left.acts > 0 /\ left' = Spent /\ db' = db
    BY DEF DocumentUser, StartEdit, ResetEdit, SaveDocument, DeleteDocument, PickFiles, AddFiles,
           Type, CreateComment, Compare, LoadSnapshot, RemoveComment, StartEditComment,
           EditComment, StartCall, SendComment, OnDocument, Acts
  <1>3. left' \in Setting /\ left'.patient = left.patient /\ left'.lost = 0
    BY <1>1, <1>2, SpentIs, SpentKeeps
  <1>4. SUFFICES DocKeeps(net', ui')
    BY <1>1, <1>2, <1>3 DEF DocumentInv, DocKeeps
  <1>5. CASE StartEdit
    <2>1. /\ DocumentShape(ui') /\ ui'.busy = ui.busy /\ ui'.detail = ui.detail
          /\ ui'.from = ui.from /\ ui'.to = ui.to /\ ui'.diff = ui.diff
          /\ ui'.diffLoading = ui.diffLoading /\ ui'.comments = ui.comments
          /\ ui'.snapshot = ui.snapshot /\ ui'.selected = ui.selected
      BY <1>1, <1>5 DEF StartEdit, DocumentShape
    <2> QED BY <1>5, <2>1, DocUserLooks DEF StartEdit
  <1>6. ASSUME NEW t \in DocTexts, Type(t)
        PROVE  DocKeeps(net', ui')
    <2>1. /\ DocumentShape(ui') /\ ui'.busy = ui.busy /\ ui'.detail = ui.detail
          /\ ui'.from = ui.from /\ ui'.to = ui.to /\ ui'.diff = ui.diff
          /\ ui'.diffLoading = ui.diffLoading /\ ui'.comments = ui.comments
          /\ ui'.snapshot = ui.snapshot /\ ui'.selected = ui.selected
      BY <1>1, <1>6 DEF Type, DocumentShape
    <2> QED BY <1>6, <2>1, DocUserLooks DEF Type
  <1>7. CASE ResetEdit
    <2>0. PICK text : text = ui.detail.text
      OBVIOUS
    <2>1. /\ DocumentShape(ui') /\ ui'.busy = ui.busy /\ ui'.detail = ui.detail
          /\ ui'.from = ui.from /\ ui'.to = ui.to /\ ui'.diff = ui.diff
          /\ ui'.diffLoading = ui.diffLoading /\ ui'.comments = ui.comments
          /\ ui'.snapshot = ui.snapshot /\ ui'.selected = ui.selected
      BY <1>1, <1>7, <2>0 DEF ResetEdit, DocumentShape
    <2> QED BY <1>7, <2>1, DocUserLooks DEF ResetEdit
  <1>8. CASE PickFiles
    <2>1. /\ DocumentShape(ui') /\ ui'.busy = ui.busy /\ ui'.detail = ui.detail
          /\ ui'.from = ui.from /\ ui'.to = ui.to /\ ui'.diff = ui.diff
          /\ ui'.diffLoading = ui.diffLoading /\ ui'.comments = ui.comments
          /\ ui'.snapshot = ui.snapshot /\ ui'.selected = ui.selected
      BY <1>1, <1>8 DEF PickFiles, DocumentShape
    <2> QED BY <1>8, <2>1, DocUserLooks DEF PickFiles
  <1>9. ASSUME NEW c, StartEditComment(c)
        PROVE  DocKeeps(net', ui')
    <2>1. /\ DocumentShape(ui') /\ ui'.busy = ui.busy /\ ui'.detail = ui.detail
          /\ ui'.from = ui.from /\ ui'.to = ui.to /\ ui'.diff = ui.diff
          /\ ui'.diffLoading = ui.diffLoading /\ ui'.comments = ui.comments
          /\ ui'.snapshot = ui.snapshot /\ ui'.selected = ui.selected
      BY <1>1, <1>9 DEF StartEditComment, DocumentShape
    <2> QED BY <1>9, <2>1, DocUserLooks DEF StartEditComment
  <1>10. ASSUME NEW op \in Writes, NEW arg, OnDocument(1), StartCall(op, arg)
         PROVE  DocKeeps(net', ui')
    <2>1. /\ DocumentShape(ui') /\ ui'.busy /\ ~ui.busy /\ ui'.detail = ui.detail
          /\ ui'.from = ui.from /\ ui'.to = ui.to /\ ui'.diff = ui.diff
          /\ ui'.diffLoading = ui.diffLoading /\ ui'.comments = ui.comments
          /\ ui'.snapshot = ui.snapshot /\ ui'.selected = ui.selected
      BY <1>1, <1>10 DEF StartCall, CanAct, DocumentShape
    <2>2. op \notin {"none", "detail", "diff", "comments"}
      BY DEF Writes
    <2>3. PICK f : f = Fresh(op, arg)
      OBVIOUS
    <2>4. DocCallWaits(f, db, ui')
      BY <2>3, FreshIs DEF DocCallWaits, Writes
    <2> QED BY <1>10, <2>1, <2>2, <2>3, <2>4, DocUserSends DEF StartCall
  <1>11. ASSUME NEW from, NEW to, Compare(from, to)
         PROVE  DocKeeps(net', ui')
    <2>1. /\ FreeSlots(net) # {} /\ ui.detail # None /\ (left.patient => Quiet)
      BY <1>11, Room DEF Compare, OnDocument, Acts
    <2>2. /\ DocumentShape(ui')
          /\ ui'.page = ui.page /\ ui'.detail = ui.detail /\ ui'.busy = ui.busy
          /\ ui'.comments = ui.comments
          /\ ui'.snapshot = ui.snapshot /\ ui'.selected = ui.selected
          /\ ui'.from = from /\ ui'.to = to
          /\ IF from > to THEN ui'.diff = None /\ ui'.diffLoading = ui.diffLoading
             ELSE ui'.diff = ui.diff /\ ui'.diffLoading
      BY <1>1, <1>11, ComparingIs DEF Compare
    <2>3. net' = LoadDiff(net, from, to)
      BY <1>11 DEF Compare
    <2>4. DocStands(net', db, ui')
      BY <1>1, <2>1, <2>2, <2>3, DiffLoaded DEF DocKeeps
    <2>5. ASSUME left.patient
          PROVE  DocWaits(net', db, ui')
      <3>1. Idle(net) /\ DocWaits(net, db, ui)
        BY <1>1, <2>1, <2>5 DEF Quiet, Idle, DocKeeps
      <3> QED BY <1>1, <2>1, <2>2, <2>3, <3>1, WaitsCompared
    <2> QED BY <2>4, <2>5 DEF DocKeeps
  <1>12. ASSUME NEW v, LoadSnapshot(v)
         PROVE  DocKeeps(net', ui')
    <2>1. /\ DocumentShape(ui') /\ ui'.busy = ui.busy /\ ui'.detail = ui.detail
          /\ ui'.from = ui.from /\ ui'.to = ui.to /\ ui'.diff = ui.diff
          /\ ui'.diffLoading = ui.diffLoading /\ ui'.comments = ui.comments
          /\ ui'.selected = v
      BY <1>1, <1>12 DEF LoadSnapshot, DocumentShape
    <2>2. PICK op : op = "snapshot"
      OBVIOUS
    <2>3. PICK f : f = Fresh(op, v)
      OBVIOUS
    <2>4. DocCallWaits(f, db, ui')
      BY <2>1, <2>2, <2>3, FreshIs DEF DocCallWaits
    <2>5. op \notin {"none", "detail", "diff", "comments"} /\ op \notin Writes
      BY <2>2 DEF Writes
    <2>6. OnDocument(1) /\ net' = Send(net, op, v)
      BY <1>12, <2>2 DEF LoadSnapshot
    <2>7. DocKeeps(Send(net, op, v), ui')
      BY <2>1, <2>2, <2>3, <2>4, <2>5, <2>6, DocUserSends
    <2> QED BY <2>6, <2>7
  <1>13. ASSUME NEW op \in CommentCalls, NEW arg, SendComment(op, arg),
                left.patient => IF op = "addComment" THEN arg \in DocTexts ELSE arg \in Comment
         PROVE  DocKeeps(net', ui')
    <2>1. /\ DocumentShape(ui') /\ ui'.busy = ui.busy /\ ui'.detail = ui.detail
          /\ ui'.from = ui.from /\ ui'.to = ui.to /\ ui'.diff = ui.diff
          /\ ui'.diffLoading = ui.diffLoading /\ ui'.comments = ui.comments
          /\ ui'.snapshot = ui.snapshot /\ ui'.selected = ui.selected
      BY <1>1, <1>13 DEF SendComment, DocumentShape
    <2>2. PICK f : f = Fresh(op, arg)
      OBVIOUS
    <2>3. left.patient => DocCallWaits(f, db, ui')
      BY <1>13, <2>2, FreshIs DEF DocCallWaits, CommentCalls
    <2>4. op \notin {"none", "detail", "diff", "comments"} /\ op \notin Writes
      BY DEF Writes, CommentCalls
    <2>5. OnDocument(1) /\ net' = Send(net, op, arg)
      BY <1>13 DEF SendComment
    <2>6. DocKeeps(Send(net, op, arg), ui')
      BY <2>1, <2>2, <2>3, <2>4, <2>5, DocUserSends DEF CommentCalls
    <2> QED BY <2>5, <2>6
  <1>14. ASSUME NEW c \in ToSet(ui.comments), OnDocument(1)
         PROVE  left.patient => c \in Comment
    BY <1>14, DocComments DEF OnDocument, Acts
  <1>15. CASE SaveDocument
    <2>1. PICK op : op = "save"
      OBVIOUS
    <2> QED BY <1>10, <1>15, <2>1 DEF SaveDocument, Writes
  <1>16. CASE DeleteDocument
    <2>1. PICK op : op = "delete"
      OBVIOUS
    <2> QED BY <1>10, <1>16, <2>1 DEF DeleteDocument, Writes
  <1>17. CASE AddFiles
    <2>1. PICK op : op = "addFiles"
      OBVIOUS
    <2> QED BY <1>10, <1>17, <2>1 DEF AddFiles, Writes
  <1>18. ASSUME NEW t \in DocTexts, CreateComment(t)
         PROVE  DocKeeps(net', ui')
    <2>1. PICK op : op = "addComment"
      OBVIOUS
    <2> QED BY <1>13, <1>18, <2>1 DEF CreateComment, CommentCalls
  <1>19. ASSUME NEW c \in ToSet(ui.comments), RemoveComment(c)
         PROVE  DocKeeps(net', ui')
    <2>1. PICK op : op = "removeComment"
      OBVIOUS
    <2>2. op \in CommentCalls /\ op # "addComment" /\ SendComment(op, c) /\ OnDocument(1)
      BY <1>19, <2>1 DEF RemoveComment, CommentCalls, SendComment
    <2> QED BY <1>13, <1>14, <2>2
  <1>20. ASSUME NEW c \in ToSet(ui.comments), NEW t \in DocTexts, EditComment(c, t)
         PROVE  DocKeeps(net', ui')
    <2>1. PICK op : op = "editComment"
      OBVIOUS
    <2>2. PICK arg : arg = [c EXCEPT !.text = t]
      OBVIOUS
    <2>3. op \in CommentCalls /\ op # "addComment" /\ SendComment(op, arg) /\ OnDocument(1)
      BY <1>20, <2>1, <2>2 DEF EditComment, CommentCalls, SendComment
    <2>4. c \in Comment => arg \in Comment
      BY <2>2 DEF Comment
    <2> QED BY <1>13, <1>14, <2>3, <2>4
  <1> QED BY <1>5, <1>6, <1>7, <1>8, <1>9, <1>11, <1>12, <1>15, <1>16, <1>17, <1>18, <1>19, <1>20
          DEF DocumentUser

\* The server.
LEMMA DocBodyIs ==
  ASSUME NEW op, NEW arg, NEW body, body = DocBody(op, arg)
  PROVE  /\ op = "detail" => body.versions = Len(db.versions)
         /\ op \in {"save", "addFiles"} => body.versions = Len(db.versions) + 1
         /\ op \in {"diff", "snapshot", "editComment", "removeComment"} => body = arg
         /\ op = "comments" => body = db.comments
         /\ op = "addComment" => body = [id |-> db.next, text |-> arg]
  <1>1. PICK text : text = Last(db.versions).text
    OBVIOUS
  <1>2. PICK files : files = Last(db.versions).files
    OBVIOUS
  <1>3. PICK n : n = Len(db.versions)
    OBVIOUS
  <1>4. PICK doc : doc = DocDetail
    OBVIOUS
  <1>5. doc = [text |-> text, files |-> files, versions |-> n]
    BY <1>1, <1>2, <1>3, <1>4 DEF DocDetail
  <1>6. CASE op = "detail"
    BY <1>3, <1>4, <1>5, <1>6 DEF DocBody
  <1>7. CASE op = "save"
    <2>1. body = [doc EXCEPT !.text = arg, !.versions = @ + 1]
      BY <1>4, <1>7 DEF DocBody
    <2> QED BY <1>3, <1>5, <1>7, <2>1
  <1>8. CASE op = "addFiles"
    <2>1. body = [doc EXCEPT !.files = @ + 1, !.versions = @ + 1]
      BY <1>4, <1>8 DEF DocBody
    <2> QED BY <1>3, <1>5, <1>8, <2>1
  <1>9. CASE op \notin {"detail", "save", "addFiles"}
    BY <1>9 DEF DocBody
  <1> QED BY <1>6, <1>7, <1>8, <1>9

NewComment(text) == [id |-> db.next, text |-> text]
Edited(comments, c) ==
    [k \in DOMAIN comments |-> IF comments[k].id = c.id THEN c ELSE comments[k]]

LEMMA DocAfterIs ==
  ASSUME DocumentTyped(db), NEW op, NEW arg, NEW e, e = DocAfter(op, arg)
  PROVE  /\ DocumentTyped(e) /\ Len(db.versions) \in Nat
         /\ op \in {"save", "addFiles"} => e.own = Len(db.versions) + 1
         /\ op \notin {"save", "addFiles"} => e.own = db.own
         /\ op \notin CommentCalls => e.comments = db.comments /\ e.next = db.next
         /\ op = "addComment" =>
               /\ e.comments = Append(db.comments, NewComment(arg))
               /\ e.next = db.next + 1
         /\ op = "editComment" =>
               e.comments = Edited(db.comments, arg) /\ e.next = db.next
         /\ op = "removeComment" =>
               e.comments = But(db.comments, arg.id) /\ e.next = db.next
  <1>0. Len(db.versions) \in Nat
    BY LongerIs DEF DocumentTyped
  <1>1. ASSUME NEW v, e = NewVersion(v), op \in {"save", "addFiles"}
        PROVE  /\ DocumentTyped(e) /\ e.own = Len(db.versions) + 1
               /\ e.comments = db.comments /\ e.next = db.next
    <2>1. PICK s : s = Append(db.versions, v)
      OBVIOUS
    <2>2. IsList(s)
      BY <2>1, LongerIs DEF DocumentTyped
    <2>3. PICK n : n = Len(db.versions) + 1
      OBVIOUS
    <2>4. e = [db EXCEPT !.versions = s, !.own = n]
      BY <1>1, <2>1, <2>3 DEF NewVersion, DocumentTyped
    <2>5. n \in Nat
      BY <1>0, <2>3
    <2>6. /\ e.versions = s /\ e.own = n /\ e.comments = db.comments /\ e.next = db.next
          /\ e \in [versions : {e.versions}, own : Nat, deleted : {e.deleted},
                    comments : {e.comments}, next : {e.next}]
      BY <2>4, <2>5 DEF DocumentTyped
    <2> QED BY <2>2, <2>3, <2>6 DEF DocumentTyped
  <1>2. ASSUME NEW c, NEW k, e = [db EXCEPT !.comments = c, !.next = k]
        PROVE  /\ DocumentTyped(e) /\ e.own = db.own /\ e.comments = c /\ e.next = k
    BY <1>2 DEF DocumentTyped
  <1>3. CASE op = "save"
    <2>1. PICK v : v = [Last(db.versions) EXCEPT !.text = arg]
      OBVIOUS
    <2> QED BY <1>0, <1>1, <1>3, <2>1 DEF DocAfter, CommentCalls
  <1>4. CASE op = "addFiles"
    <2>1. PICK v : v = [Last(db.versions) EXCEPT !.files = @ + 1]
      OBVIOUS
    <2> QED BY <1>0, <1>1, <1>4, <2>1 DEF DocAfter, CommentCalls
  <1>5. CASE op = "delete"
    <2>1. e = [db EXCEPT !.deleted = TRUE]
      BY <1>5 DEF DocAfter
    <2>2. DocumentTyped(e) /\ e.own = db.own /\ e.comments = db.comments /\ e.next = db.next
      BY <2>1 DEF DocumentTyped
    <2> QED BY <1>0, <1>5, <2>2 DEF CommentCalls
  <1>6. CASE op = "addComment"
    <2>1. PICK x : x = NewComment(arg)
      OBVIOUS
    <2>2. PICK c : c = Append(db.comments, x)
      OBVIOUS
    <2>3. PICK k : k = db.next + 1
      OBVIOUS
    <2>4. e = [db EXCEPT !.comments = c, !.next = k]
      BY <1>6, <2>1, <2>2, <2>3 DEF DocAfter, DocumentTyped, NewComment
    <2>5. DocumentTyped(e) /\ e.own = db.own /\ e.comments = c /\ e.next = k
      BY <1>2, <2>4
    <2> QED BY ONLY <1>0, <1>6, <2>1, <2>2, <2>3, <2>5 DEF CommentCalls
  <1>7. CASE op = "editComment"
    <2>1. PICK c : c = Edited(db.comments, arg)
      OBVIOUS
    <2>2. PICK k : k = db.next
      OBVIOUS
    <2>3. e = [db EXCEPT !.comments = c, !.next = k]
      BY <1>7, <2>1, <2>2 DEF DocAfter, DocumentTyped, Edited
    <2>4. DocumentTyped(e) /\ e.own = db.own /\ e.comments = c /\ e.next = k
      BY <1>2, <2>3
    <2> QED BY ONLY <1>0, <1>7, <2>1, <2>2, <2>4 DEF CommentCalls
  <1>8. CASE op = "removeComment"
    <2>1. PICK c : c = But(db.comments, arg.id)
      OBVIOUS
    <2>2. PICK k : k = db.next
      OBVIOUS
    <2>3. e = [db EXCEPT !.comments = c, !.next = k]
      BY <1>8, <2>1, <2>2 DEF DocAfter, DocumentTyped
    <2>4. DocumentTyped(e) /\ e.own = db.own /\ e.comments = c /\ e.next = k
      BY <1>2, <2>3
    <2> QED BY ONLY <1>0, <1>8, <2>1, <2>2, <2>4 DEF CommentCalls
  <1>9. CASE op \notin {"save", "addFiles", "delete"} \cup CommentCalls
    <2>1. e = db
      BY <1>9 DEF DocAfter, CommentCalls
    <2> QED BY <1>0, <1>9, <2>1 DEF CommentCalls
  <1> QED BY <1>3, <1>4, <1>5, <1>6, <1>7, <1>8, <1>9 DEF CommentCalls

\* The three changes of a list of comments.
LEMMA AppendedIs ==
  ASSUME NEW s \in Seq(Comment), EachOnce(s), NEW c \in Comment,
         \A x \in ToSet(s) : x.id # c.id, NEW t, t = Append(s, c)
  PROVE  /\ t \in Seq(Comment) /\ EachOnce(t)
         /\ \A x : x \in ToSet(t) <=> x \in ToSet(s) \/ x = c
  <1>1. /\ t \in Seq(Comment) /\ Len(t) = Len(s) + 1 /\ Len(s) \in Nat
        /\ t[Len(s) + 1] = c /\ \A k \in 1 .. Len(s) : t[k] = s[k]
    BY AppendProperties, LenProperties
  <1>2. DOMAIN s = 1 .. Len(s) /\ DOMAIN t = 1 .. (Len(s) + 1)
    BY <1>1, LenProperties
  <1>3. \A x : x \in ToSet(s) <=> \E k \in DOMAIN s : s[k] = x
    BY SetIs
  <1>4. \A x : x \in ToSet(t) <=> \E k \in DOMAIN t : t[k] = x
    BY SetIs
  <1>5. \A k \in DOMAIN t : (k \in DOMAIN s /\ t[k] = s[k]) \/ (k = Len(s) + 1 /\ t[k] = c)
    <2>1. ASSUME NEW k \in DOMAIN t
          PROVE  (k \in DOMAIN s /\ t[k] = s[k]) \/ (k = Len(s) + 1 /\ t[k] = c)
      <3>1. k \in 1 .. Len(s) \/ k = Len(s) + 1
        BY <1>1, <1>2
      <3>2. CASE k \in 1 .. Len(s)
        <4>1. t[k] = s[k]
          BY ONLY <1>1, <3>2
        <4>2. k \in DOMAIN s
          BY ONLY <1>2, <3>2
        <4> QED BY ONLY <4>1, <4>2
      <3>3. CASE k = Len(s) + 1
        BY <1>1, <3>3
      <3> QED BY <3>1, <3>2, <3>3
    <2> QED BY <2>1
  <1>6. Len(s) + 1 \in DOMAIN t /\ DOMAIN s \subseteq DOMAIN t
    BY <1>1, <1>2
  <1>7. EachOnce(t)
    <2>1. ASSUME NEW k \in DOMAIN t, NEW l \in DOMAIN t, t[k].id = t[l].id
          PROVE  k = l
      <3>1. CASE k \in DOMAIN s /\ t[k] = s[k] /\ l \in DOMAIN s /\ t[l] = s[l]
        BY <2>1, <3>1 DEF EachOnce
      <3>2. CASE k \in DOMAIN s /\ t[k] = s[k] /\ t[l] = c
        BY <1>3, <2>1, <3>2
      <3>3. CASE l \in DOMAIN s /\ t[l] = s[l] /\ t[k] = c
        BY <1>3, <2>1, <3>3
      <3>4. CASE k = Len(s) + 1 /\ l = Len(s) + 1
        BY <3>4
      <3> QED BY <1>5, <3>1, <3>2, <3>3, <3>4
    <2> QED BY <2>1 DEF EachOnce
  <1>8. ASSUME NEW x
        PROVE  x \in ToSet(t) <=> x \in ToSet(s) \/ x = c
    <2>1. ASSUME x \in ToSet(t)
          PROVE  x \in ToSet(s) \/ x = c
      BY <1>3, <1>4, <1>5, <2>1
    <2>2. ASSUME x \in ToSet(s)
          PROVE  x \in ToSet(t)
      BY <1>1, <1>2, <1>3, <1>4, <1>6, <2>2
    <2>3. c \in ToSet(t)
      BY <1>1, <1>4, <1>6
    <2> QED BY <2>1, <2>2, <2>3
  <1> QED BY <1>1, <1>7, <1>8

LEMMA EditedIs ==
  ASSUME NEW s \in Seq(Comment), EachOnce(s), NEW c \in Comment, NEW t, t = Edited(s, c)
  PROVE  /\ t \in Seq(Comment) /\ EachOnce(t)
         /\ \A x \in ToSet(t) : x = c \/ (x \in ToSet(s) /\ x.id # c.id)
         /\ \A x \in ToSet(s) : IF x.id = c.id THEN c \in ToSet(t) ELSE x \in ToSet(t)
  <1>1. Len(s) \in Nat /\ DOMAIN s = 1 .. Len(s) /\ \A k \in DOMAIN s : s[k] \in Comment
    BY LenProperties, ElementOfSeq
  <1>2. t = [k \in 1 .. Len(s) |-> IF s[k].id = c.id THEN c ELSE s[k]]
    BY <1>1 DEF Edited
  <1>3. t \in [1 .. Len(s) -> Comment]
    BY <1>1, <1>2
  <1>4. t \in Seq(Comment)
    BY <1>1, <1>3, SeqDef
  <1>5. DOMAIN t = DOMAIN s /\ \A k \in DOMAIN s : t[k] = IF s[k].id = c.id THEN c ELSE s[k]
    BY <1>1, <1>2
  <1>6. \A x : x \in ToSet(s) <=> \E k \in DOMAIN s : s[k] = x
    BY SetIs
  <1>7. \A x : x \in ToSet(t) <=> \E k \in DOMAIN t : t[k] = x
    BY SetIs
  <1>8. \A k \in DOMAIN s : t[k].id = s[k].id
    BY <1>5
  <1>9. EachOnce(t)
    BY <1>5, <1>8 DEF EachOnce
  <1>10. \A x \in ToSet(t) : x = c \/ (x \in ToSet(s) /\ x.id # c.id)
    BY <1>5, <1>6, <1>7
  <1>11. \A x \in ToSet(s) : IF x.id = c.id THEN c \in ToSet(t) ELSE x \in ToSet(t)
    BY <1>5, <1>6, <1>7
  <1> QED BY <1>4, <1>9, <1>10, <1>11

LEMMA ButIs ==
  ASSUME NEW s \in Seq(Comment), EachOnce(s), NEW id, NEW t, t = But(s, id)
  PROVE  /\ t \in Seq(Comment) /\ EachOnce(t)
         /\ \A x : x \in ToSet(t) <=> x \in ToSet(s) /\ x.id # id
  <1>1. PICK S : S = {x \in ToSet(s) : x.id # id}
    OBVIOUS
  <1>2. t = Keeping(s, S)
    BY <1>1 DEF But
  <1>3. /\ t \in Seq(Comment)
        /\ \A x : x \in ToSet(t) <=> x \in ToSet(s) /\ x \in S
        /\ \A m, n \in DOMAIN t : m # n =>
              \E i, j \in DOMAIN s : i # j /\ t[m] = s[i] /\ t[n] = s[j]
    BY <1>2, KeepingIs
  <1>4. EachOnce(t)
    BY <1>3 DEF EachOnce
  <1> QED BY <1>1, <1>3, <1>4

LEMMA InjectiveIs ==
  ASSUME NEW s, EachOnce(s)
  PROVE  IsInjective(s)
  BY DEF EachOnce, IsInjective

LEMMA CommentServed ==
  ASSUME DocumentTyped(db), CommentsOf(db), NEW op \in CommentCalls, NEW arg,
         IF op = "addComment" THEN arg \in DocTexts ELSE arg \in Comment,
         DocFound(op, arg), NEW e, e = DocAfter(op, arg), NEW body, body = DocBody(op, arg),
         NEW s, Agree(s, db)
  PROVE  /\ CommentsOf(e)
         /\ op = "addComment" =>
               /\ Agree(s, e) /\ body \in ToSet(e.comments)
               /\ \A x \in ToSet(s) : x.id # body.id
         /\ op = "editComment" =>
               body = arg /\ arg \in ToSet(e.comments) /\ AgreeBut(s, e, arg.id)
         /\ op = "removeComment" => body = arg /\ AgreeBut(s, e, arg.id)
  <1>1. PICK old : old = db.comments
    OBVIOUS
  <1>2. PICK new : new = e.comments
    OBVIOUS
  <1>3. PICK next : next = db.next
    OBVIOUS
  <1>4. /\ old \in Seq(Comment) /\ EachOnce(old) /\ next \in Nat
        /\ \A x \in ToSet(old) : x.id < next /\ x.id \in Nat /\ x \in Comment
    <2>1. old \in Seq(Comment) /\ EachOnce(old) /\ next \in Nat /\ \A x \in ToSet(old) : x.id < next
      BY <1>1, <1>3 DEF CommentsOf
    <2>2. \A x \in ToSet(old) : x \in Comment
      BY <2>1, SetIs
    <2>3. \A x \in Comment : x.id \in Nat
      BY DEF Comment
    <2> QED BY <2>1, <2>2, <2>3
  <1>5. s \in Seq(Comment) /\ EachOnce(s) /\ ToSet(s) \subseteq ToSet(old)
    BY <1>1 DEF Agree
  <1>6. CASE op = "addComment"
    <2>1. PICK c : c = NewComment(arg)
      OBVIOUS
    <2>2. c \in Comment /\ c.id = next
      BY <1>3, <1>4, <1>6, <2>1 DEF NewComment, Comment
    <2>3. new = Append(old, c) /\ e.next = next + 1 /\ body = c
      BY <1>1, <1>2, <1>3, <1>6, <2>1, DocAfterIs, DocBodyIs DEF NewComment
    <2>4. \A x \in ToSet(old) : x.id # c.id
      BY <1>4, <2>2
    <2>5. /\ new \in Seq(Comment) /\ EachOnce(new)
          /\ \A x : x \in ToSet(new) <=> x \in ToSet(old) \/ x = c
      BY ZenonT(60), <1>4, <2>2, <2>3, <2>4, AppendedIs
    <2>6. \A x \in ToSet(new) : x.id < next + 1
      BY <1>4, <2>2, <2>5
    <2>7. CommentsOf(e)
      BY <1>2, <1>4, <2>3, <2>5, <2>6 DEF CommentsOf
    <2>8. Agree(s, e) /\ body \in ToSet(e.comments)
      BY <1>2, <1>5, <2>3, <2>5 DEF Agree
    <2>9. \A x \in ToSet(s) : x.id # body.id
      BY <1>5, <2>3, <2>4
    <2> QED BY <1>6, <2>7, <2>8, <2>9
  <1>7. CASE op = "editComment"
    <2>1. arg \in Comment /\ body = arg
      BY <1>7, DocBodyIs
    <2>2. new = Edited(old, arg) /\ e.next = next
      BY <1>1, <1>2, <1>3, <1>7, DocAfterIs
    <2>3. /\ new \in Seq(Comment) /\ EachOnce(new)
          /\ \A x \in ToSet(new) : x = arg \/ (x \in ToSet(old) /\ x.id # arg.id)
          /\ \A x \in ToSet(old) : IF x.id = arg.id THEN arg \in ToSet(new) ELSE x \in ToSet(new)
      BY <1>4, <2>1, <2>2, EditedIs
    <2>4. PICK k \in DOMAIN old : old[k].id = arg.id
      BY <1>1, <1>7 DEF DocFound
    <2>5. old[k] \in ToSet(old)
      BY SetIs
    <2>6. arg.id < next /\ arg \in ToSet(new)
      BY <1>4, <2>3, <2>4, <2>5
    <2>7. \A x \in ToSet(new) : x.id < next
      BY <1>4, <2>3, <2>6
    <2>8. CommentsOf(e)
      BY <1>2, <1>4, <2>2, <2>3, <2>7 DEF CommentsOf
    <2>9. AgreeBut(s, e, arg.id)
      BY <1>2, <1>5, <2>3 DEF AgreeBut
    <2> QED BY <1>2, <1>7, <2>1, <2>6, <2>8, <2>9
  <1>8. CASE op = "removeComment"
    <2>1. arg \in Comment /\ body = arg
      BY <1>8, DocBodyIs
    <2>2. new = But(old, arg.id) /\ e.next = next
      BY <1>1, <1>2, <1>3, <1>8, DocAfterIs
    <2>3. /\ new \in Seq(Comment) /\ EachOnce(new)
          /\ \A x : x \in ToSet(new) <=> x \in ToSet(old) /\ x.id # arg.id
      BY <1>4, <2>2, ButIs
    <2>4. CommentsOf(e)
      BY <1>2, <1>4, <2>2, <2>3 DEF CommentsOf
    <2>5. AgreeBut(s, e, arg.id)
      BY <1>2, <1>5, <2>3 DEF AgreeBut
    <2> QED BY <1>8, <2>1, <2>4, <2>5
  <1> QED BY <1>6, <1>7, <1>8 DEF CommentCalls

\* A call comes back, of everybody and of a user who waits.
LEMMA DocComesBack ==
  ASSUME NEW n, NEW d, NEW u, DocStands(n, d, u), NEW i \in Slots, IsOpen(n, i),
         NEW out, out = Failure \/ out = Success(out.body), NEW a, a = Answer(n[i], out),
         NEW e, DocumentTyped(e), DocCallFits(a, e, u), e.own = d.own \/ Saved(a)
  PROVE  DocStands(ComeBack(n, i, out), e, u)
  <1>1. PICK m : m = ComeBack(n, i, out)
    OBVIOUS
  <1>2. /\ Calls(m) /\ m[i] = a /\ (\A j \in Slots \ {i} : m[j] = n[j]) /\ IsCall(n[i])
    BY <1>1, ComeBackChanges DEF DocStands, Changed
  <1>3. /\ a.op = n[i].op /\ n[i].op # "none" /\ ~n[i].out.ok
    BY <1>2, AnswerIs, OutcomeIs DEF IsOpen, IsCall
  <1>4. \A j \in Slots : m[j].op = n[j].op
    BY <1>2, <1>3
  <1>5. ASSUME NEW j \in Slots
        PROVE  DocCallFits(m[j], e, u)
    <2>1. CASE j = i
      BY <1>2, <2>1
    <2>2. CASE j # i /\ e.own = d.own
      BY <1>2, <2>2 DEF DocStands, DocCallsFit, DocCallFits
    <2>3. CASE j # i /\ Saved(a)
      <3>1. m[j] = n[j] /\ DocCallFits(n[j], d, u)
        BY <1>2, <2>3 DEF DocStands, DocCallsFit
      <3>2. n[i].op \in Writes
        BY <1>3, <2>3 DEF Saved, Writes
      <3>3. n[j].op \notin Writes /\ n[j].op # "detail"
        BY <1>3, <2>3, <3>2 DEF DocStands, DocCallsFit
      <3> QED BY <3>1, <3>3 DEF DocCallFits, Saved, Writes
    <2> QED BY <2>1, <2>2, <2>3
  <1>6. DocCallsFit(m, e, u)
    BY <1>4, <1>5 DEF DocStands, DocCallsFit
  <1>7. DocShows(m, e, u)
    <2>1. CASE e.own = d.own
      <3>1. (\A j \in Slots : ~Saved(m[j])) => \A j \in Slots : ~Saved(n[j])
        BY <1>2, <1>3 DEF Saved
      <3> QED BY <2>1, <3>1 DEF DocStands, DocShows
    <2>2. CASE Saved(a)
      <3>1. ~(\A j \in Slots : ~Saved(m[j]))
        BY <1>2, <2>2
      <3> QED BY <3>1 DEF DocStands, DocShows
    <2> QED BY <2>1, <2>2
  <1> QED BY <1>1, <1>2, <1>6, <1>7 DEF DocStands

LEMMA WaitsComesBack ==
  ASSUME NEW n, Calls(n), NEW d, NEW u, DocWaits(n, d, u), NEW i \in Slots, IsOpen(n, i),
         NEW out, out = Failure \/ out = Success(out.body), NEW a, a = Answer(n[i], out),
         NEW e, CommentsOf(e), DocCallWaits(a, e, u), e.comments = d.comments \/ Commented(a)
  PROVE  DocWaits(ComeBack(n, i, out), e, u)
  <1>1. PICK m : m = ComeBack(n, i, out)
    OBVIOUS
  <1>2. m[i] = a /\ (\A j \in Slots \ {i} : m[j] = n[j]) /\ IsCall(n[i])
    BY <1>1, ComeBackChanges DEF Changed
  <1>3. /\ a.op = n[i].op /\ n[i].op # "none" /\ ~n[i].out.ok
    BY <1>2, AnswerIs, OutcomeIs DEF IsOpen, IsCall
  <1>4. \A j \in Slots : m[j].op = n[j].op
    BY <1>2, <1>3
  <1>5. ASSUME NEW j \in Slots
        PROVE  DocCallWaits(m[j], e, u)
    <2>1. CASE j = i
      BY <1>2, <2>1
    <2>2. CASE j # i /\ e.comments = d.comments
      BY <1>2, <2>2 DEF DocWaits, DocCallWaits, Agree, AgreeBut
    <2>3. CASE j # i /\ Commented(a)
      <3>1. n[i].op \notin {"none", "diff", "comments"}
        BY <1>3, <2>3 DEF Commented, CommentCalls
      <3>2. n[j].op = "none"
        BY <2>3, <3>1 DEF DocWaits
      <3> QED BY <1>2, <2>3, <3>2 DEF DocCallWaits
    <2> QED BY <2>1, <2>2, <2>3
  <1>6. (\A j \in Slots : ~Commented(m[j])) => Agree(u.comments, e)
    <2>1. CASE e.comments = d.comments
      <3>1. (\A j \in Slots : ~Commented(m[j])) => \A j \in Slots : ~Commented(n[j])
        BY <1>2, <1>3 DEF Commented
      <3> QED BY <2>1, <3>1 DEF DocWaits, Agree
    <2>2. CASE Commented(a)
      BY <1>2, <2>2
    <2> QED BY <2>1, <2>2
  <1>7. DocWaits(m, e, u)
    BY <1>4, <1>5, <1>6 DEF DocWaits
  <1> QED BY <1>1, <1>7

LEMMA DocBackIs ==
  ASSUME DocumentInv, NEW i \in Slots, IsOpen(net, i),
         NEW out, out = Failure \/ out = Success(out.body)
  PROVE  LET c == net[i]
             a == Answer(net[i], out)
         IN  /\ a.op = c.op /\ a.arg = c.arg /\ a.live = c.live /\ a.out = out
             /\ DocCallFits(c, db, ui) /\ ~c.out.ok
             /\ left.patient =>
                   /\ DocCallWaits(c, db, ui)
                   /\ c.op \in CommentCalls => Agree(ui.comments, db)
  <1>1. IsCall(net[i]) /\ net[i].op # "none" /\ ~net[i].back
    BY CallIs, DocKept DEF IsOpen
  <1>2. PICK a : a = Answer(net[i], out)
    OBVIOUS
  <1>3. a.op = net[i].op /\ a.arg = net[i].arg /\ a.live = net[i].live /\ a.out = out
    BY <1>1, <1>2, AnswerIs
  <1>4. ~net[i].out.ok
    BY <1>1, OutcomeIs DEF IsCall
  <1>5. DocCallFits(net[i], db, ui) /\ (left.patient => DocWaits(net, db, ui))
    BY DocKept DEF DocKeeps, DocStands, DocCallsFit
  <1>6. ASSUME left.patient
        PROVE  /\ DocCallWaits(net[i], db, ui)
               /\ net[i].op \in CommentCalls => Agree(ui.comments, db)
    <2>1. ASSUME net[i].op \in CommentCalls
          PROVE  \A j \in Slots : ~Commented(net[j])
      <3>1. net[i].op \notin {"none", "diff", "comments"}
        BY <2>1 DEF CommentCalls
      <3>2. \A j \in Slots : j # i => net[j].op = "none"
        BY <1>5, <1>6, <3>1 DEF DocWaits
      <3> QED BY <1>4, <3>2 DEF Commented, CommentCalls
    <2> QED BY <1>5, <1>6, <2>1 DEF DocWaits
  <1> QED BY <1>2, <1>3, <1>4, <1>5, <1>6

LEMMA DocFailsBack ==
  ASSUME DocumentInv, NEW i \in Slots, IsOpen(net, i)
  PROVE  DocKeeps(ComeBack(net, i, Failure), ui)
  <1>1. PICK out : out = Failure
    OBVIOUS
  <1>2. PICK a : a = Answer(net[i], out)
    OBVIOUS
  <1>3. PICK c : c = net[i]
    OBVIOUS
  <1>4. ~a.out.ok
    BY <1>1, <1>2, DocBackIs, OutcomeIs
  <1>5. /\ a.op = c.op /\ a.arg = c.arg /\ a.live = c.live
        /\ DocCallFits(c, db, ui) /\ (left.patient => DocCallWaits(c, db, ui))
    BY <1>1, <1>2, <1>3, DocBackIs
  <1>6. DocStands(net, db, ui) /\ Calls(net) /\ (left.patient => DocWaits(net, db, ui))
    BY DocKept DEF DocKeeps
  <1>7. DocCallFits(a, db, ui)
    BY <1>4, <1>5 DEF DocCallFits, Saved
  <1>8. DocStands(ComeBack(net, i, out), db, ui)
    BY <1>1, <1>2, <1>6, <1>7, DocComesBack DEF DocStands
  <1>9. ASSUME left.patient
        PROVE  DocWaits(ComeBack(net, i, out), db, ui)
    <2>1. DocCallWaits(a, db, ui)
      BY <1>4, <1>5, <1>9 DEF DocCallWaits
    <2> QED BY <1>1, <1>2, <1>6, <1>9, <2>1, WaitsComesBack DEF DocWaits
  <1> QED BY <1>1, <1>8, <1>9 DEF DocKeeps

LEMMA DocRefusedStep ==
  ASSUME DocumentInv, NEW i \in Slots, Refuse(i)
  PROVE  DocumentInv'
  <1>1. DocKeeps(ComeBack(net, i, Failure), ui)
    BY DocFailsBack DEF Refuse
  <1>2. left' \in Setting /\ left'.patient = left.patient
    BY LeftIs DEF DocumentInv
  <1>3. left'.lost = 0
    BY DEF DocumentInv, Refuse, Setting
  <1> QED BY <1>1, <1>2, <1>3 DEF DocumentInv, DocKeeps, Refuse

LEMMA DocServedStep ==
  ASSUME DocumentInv, NEW i \in Slots, DocServed(i)
  PROVE  DocumentInv'
  <1>1. PICK c : c = net[i]
    OBVIOUS
  <1>2. PICK found : found = DocFound(c.op, c.arg)
    OBVIOUS
  <1>3. PICK body : body = DocBody(c.op, c.arg)
    OBVIOUS
  <1>4. PICK e : e = DocAfter(c.op, c.arg)
    OBVIOUS
  <1>5. PICK out : out = Success(body)
    OBVIOUS
  <1>6. /\ IsOpen(net, i) /\ db' = (IF found THEN e ELSE db) /\ left' = left /\ ui' = ui
        /\ net' = ComeBack(net, i, IF found THEN out ELSE Failure)
    BY <1>1, <1>2, <1>3, <1>4, <1>5 DEF DocServed, Serve, DocumentInv
  <1>7. /\ DocStands(net, db, ui) /\ Calls(net) /\ (left.patient => DocWaits(net, db, ui))
        /\ DocumentTyped(db) /\ left \in Setting /\ left.lost = 0
    BY DocKept DEF DocKeeps, DocStands, DocumentInv
  <1>8. CASE ~found
    <2>1. db' = db /\ net' = ComeBack(net, i, Failure)
      BY <1>6, <1>8
    <2> QED BY <1>6, <1>7, <2>1, DocFailsBack DEF DocumentInv, DocKeeps
  <1>9. CASE found
    <2>0. DocFound(c.op, c.arg)
      BY <1>2, <1>9
    <2>1. out.ok /\ out.body = body /\ out = Success(out.body)
      BY <1>5, OutcomeIs
    <2>2. PICK a : a = Answer(net[i], out)
      OBVIOUS
    <2>3. /\ a.op = c.op /\ a.arg = c.arg /\ a.live = c.live /\ a.out.ok /\ a.out.body = body
          /\ DocCallFits(c, db, ui)
          /\ left.patient =>
                DocCallWaits(c, db, ui) /\ (c.op \in CommentCalls => Agree(ui.comments, db))
      BY <1>1, <1>6, <2>1, <2>2, DocBackIs
    <2>4. /\ DocumentTyped(e) /\ Len(db.versions) \in Nat
          /\ c.op \in {"save", "addFiles"} => e.own = Len(db.versions) + 1
          /\ c.op \notin {"save", "addFiles"} => e.own = db.own
          /\ c.op \notin CommentCalls => e.comments = db.comments /\ e.next = db.next
      BY <1>4, <1>7, DocAfterIs
    <2>5. /\ c.op = "detail" => body.versions = Len(db.versions)
          /\ c.op \in {"save", "addFiles"} => body.versions = Len(db.versions) + 1
          /\ c.op \in {"diff", "snapshot"} => body = c.arg
          /\ c.op = "comments" => body = db.comments
      BY <1>3, DocBodyIs
    <2>6. DocCallFits(a, e, ui)
      BY <2>3, <2>4, <2>5 DEF DocCallFits, Saved
    <2>7. e.own = db.own \/ Saved(a)
      BY <2>3, <2>4 DEF Saved
    <2>8. DocStands(ComeBack(net, i, out), e, ui)
      BY <1>6, <1>7, <2>1, <2>2, <2>4, <2>6, <2>7, DocComesBack
    <2>9. ASSUME left.patient
          PROVE  DocWaits(ComeBack(net, i, out), e, ui)
      <3>1. CommentsOf(db) /\ DocCallWaits(c, db, ui)
        BY <1>7, <2>3, <2>9 DEF DocWaits
      <3>2. CASE c.op \in CommentCalls
        <4>1. Agree(ui.comments, db)
          BY <2>3, <2>9, <3>2
        <4>2. IF c.op = "addComment" THEN c.arg \in DocTexts ELSE c.arg \in Comment
          BY <3>1, <3>2 DEF DocCallWaits, CommentCalls
        <4>3. /\ CommentsOf(e)
              /\ c.op = "addComment" =>
                    /\ Agree(ui.comments, e) /\ body \in ToSet(e.comments)
                    /\ \A x \in ToSet(ui.comments) : x.id # body.id
              /\ c.op = "editComment" =>
                    body = c.arg /\ c.arg \in ToSet(e.comments) /\ AgreeBut(ui.comments, e, c.arg.id)
              /\ c.op = "removeComment" => body = c.arg /\ AgreeBut(ui.comments, e, c.arg.id)
          BY <1>3, <1>4, <1>7, <2>0, <3>1, <3>2, <4>1, <4>2, CommentServed
        <4>4. DocCallWaits(a, e, ui)
          BY <2>3, <3>2, <4>2, <4>3 DEF DocCallWaits, CommentCalls
        <4>5. Commented(a)
          BY <2>3, <3>2 DEF Commented
        <4> QED BY <1>6, <1>7, <2>1, <2>2, <2>9, <4>3, <4>4, <4>5, WaitsComesBack
      <3>3. CASE c.op \notin CommentCalls
        <4>1. e.comments = db.comments /\ e.next = db.next
          BY <2>4, <3>3
        <4>2. CommentsOf(e)
          BY <3>1, <4>1 DEF CommentsOf
        <4>3. DocCallWaits(a, e, ui)
          BY <2>3, <2>5, <3>1, <3>3, <4>1 DEF DocCallWaits, CommentCalls
        <4> QED BY <1>6, <1>7, <2>1, <2>2, <2>9, <4>1, <4>2, <4>3, WaitsComesBack
      <3> QED BY <3>2, <3>3
    <2>10. net' = ComeBack(net, i, out) /\ db' = e
      BY <1>6, <1>9
    <2> QED BY <1>6, <1>7, <2>8, <2>9, <2>10 DEF DocumentInv
  <1> QED BY <1>8, <1>9

LEMMA DocLateStep ==
  ASSUME DocumentInv, NEW i \in Slots, Late(i)
  PROVE  DocumentInv'
  <1>1. /\ DocStands(net, db, ui) /\ Calls(net) /\ (left.patient => DocWaits(net, db, ui))
    BY DocKept DEF DocKeeps
  <1>2. net' = Settle(net, i) /\ db' = db /\ ui' = ui /\ left' = left
    BY DEF Late
  <1>3. net[i].op = "diff"
    BY <1>1 DEF DocStands, DocCallsFit, DocCallFits, Late, IsBack
  <1>4. DocStands(net', db, ui)
    BY <1>1, <1>2, <1>3, DocSettled DEF Saved
  <1>5. ASSUME left.patient
        PROVE  DocWaits(net', db, ui)
    <2>1. PICK m : m = Settle(net, i)
      OBVIOUS
    <2>2. m[i] = NoCall /\ (\A j \in Slots \ {i} : m[j] = net[j]) /\ Calls(m)
      BY <1>1, <2>1, SettleChanges DEF Changed
    <2>3. m[i].op = "none" /\ DocCallWaits(m[i], db, ui) /\ ~Commented(net[i])
      BY <1>3, <2>2, NoCallIs, NoCallFits DEF Commented, CommentCalls
    <2>4. DocWaits(m, db, ui)
      BY <1>1, <1>3, <1>5, <2>2, <2>3 DEF DocWaits
    <2> QED BY <1>2, <2>1, <2>4
  <1> QED BY <1>2, <1>4, <1>5 DEF DocumentInv

LEMMA DocElsewhereStep ==
  ASSUME DocumentInv, NEW t \in DocTexts, ChangedElsewhere(t)
  PROVE  DocumentInv'
  <1>1. /\ DocStands(net, db, ui) /\ (left.patient => DocWaits(net, db, ui))
        /\ left \in Setting /\ left.lost = 0
    BY DocKept DEF DocKeeps, DocumentInv
  <1>2. left' \in Setting /\ left'.patient = left.patient /\ left'.lost = 0
    BY <1>1 DEF ChangedElsewhere, Setting
  <1>3. PICK s : s = Append(db.versions, [Last(db.versions) EXCEPT !.text = t])
    OBVIOUS
  <1>4. PICK e : e = [db EXCEPT !.versions = s]
    OBVIOUS
  <1>5. db' = e /\ net' = net /\ ui' = ui
    BY <1>1, <1>3, <1>4 DEF ChangedElsewhere
  <1>6. IsList(s)
    BY <1>1, <1>3, LongerIs DEF DocStands, DocumentTyped
  <1>7. DocumentTyped(e) /\ e.own = db.own /\ e.comments = db.comments /\ e.next = db.next
    BY <1>1, <1>4, <1>6 DEF DocStands, DocumentTyped
  <1>8. DocStands(net, e, ui)
    BY <1>1, <1>7 DEF DocStands, DocCallsFit, DocCallFits, DocShows
  <1>9. left.patient => DocWaits(net, e, ui)
    BY <1>1, <1>7 DEF DocWaits, CommentsOf, DocCallWaits, Agree, AgreeBut
  <1> QED BY <1>2, <1>5, <1>8, <1>9 DEF DocumentInv

\* The handlers.
LEMMA WaitsRest ==
  ASSUME NEW n, NEW d, NEW u, DocWaits(n, d, u), NEW i \in Slots, n[i].op # "none"
  PROVE  /\ ~Commented(n[i]) => Agree(u.comments, d)
         /\ n[i].op # "snapshot" => u.snapshot \in {None, u.selected}
  <1>1. ASSUME ~Commented(n[i])
        PROVE  Agree(u.comments, d)
    <2>1. ASSUME NEW j \in Slots, Commented(n[j])
          PROVE  FALSE
      <3>1. n[j].op \notin {"none", "diff", "comments"}
        BY <2>1 DEF Commented, CommentCalls
      <3> QED BY <1>1, <2>1, <3>1 DEF DocWaits
    <2> QED BY <2>1 DEF DocWaits
  <1>2. ASSUME n[i].op # "snapshot"
        PROVE  u.snapshot \in {None, u.selected}
    <2>1. ASSUME NEW j \in Slots, n[j].op = "snapshot"
          PROVE  FALSE
      BY <1>2, <2>1 DEF DocWaits
    <2> QED BY <2>1 DEF DocWaits
  <1> QED BY <1>1, <1>2

LEMMA DocCallBack ==
  ASSUME DocumentInv, NEW i \in Slots, IsBack(net, i)
  PROVE  /\ IsCall(net[i]) /\ net[i].op # "none" /\ DocStands(net, db, ui)
         /\ DocCallFits(net[i], db, ui)
         /\ left.patient => DocWaits(net, db, ui) /\ DocCallWaits(net[i], db, ui)
  BY CallIs, DocKept DEF DocKeeps, DocStands, DocCallsFit, DocWaits, IsBack

LEMMA DocSettles ==
  ASSUME DocumentInv, NEW i \in Slots, IsBack(net, i), ~Saved(net[i]),
         NEW v, DocumentShape(v), v.busy = ui.busy \/ net[i].op \in Writes,
         v.detail = ui.detail, v.from = ui.from, v.to = ui.to, v.diff = ui.diff,
         v.diffLoading = ui.diffLoading,
         left.patient => /\ Commented(net[i]) \/ v.comments # ui.comments => Agree(v.comments, db)
                         /\ IF net[i].op = "snapshot" THEN v.snapshot \in {None, v.selected}
                            ELSE v.snapshot = ui.snapshot /\ v.selected = ui.selected
  PROVE  DocKeeps(Settle(net, i), v)
  <1>1. /\ net[i].op # "none" /\ DocStands(net, db, ui) /\ Calls(net)
        /\ left.patient => DocWaits(net, db, ui)
    BY DocCallBack, DocKept
  <1>2. PICK m : m = Settle(net, i)
    OBVIOUS
  <1>3. /\ DocStands(m, db, ui)
        /\ net[i].op \in Writes => \A j \in Slots : m[j].op \notin Writes
    BY <1>1, <1>2, DocSettled
  <1>4. DocStands(m, db, v)
    BY <1>3, DocLooks
  <1>5. ASSUME left.patient
        PROVE  DocWaits(m, db, v)
    <2>1. /\ ~Commented(net[i]) => Agree(ui.comments, db)
          /\ net[i].op # "snapshot" => ui.snapshot \in {None, ui.selected}
      BY <1>1, <1>5, WaitsRest
    <2>2. Agree(v.comments, db) /\ v.snapshot \in {None, v.selected}
      BY <1>5, <2>1
    <2> QED BY <1>1, <1>2, <1>5, <2>2, WaitsSettled
  <1> QED BY <1>2, <1>4, <1>5 DEF DocKeeps

LEMMA NothingAgrees ==
  ASSUME NEW d
  PROVE  Agree(<<>>, d)
  <1>1. PICK s : s = <<>>
    OBVIOUS
  <1>2. s \in Seq(Comment) /\ Len(s) = 0
    BY <1>1
  <1>3. DOMAIN s = {}
    BY <1>2, LenProperties
  <1>4. Agree(s, d)
    BY <1>2, <1>3, SetIs DEF Agree, EachOnce
  <1> QED BY <1>1, <1>4

\* What the answer to a comment makes of the list.
Patched(op, s, c) ==
    IF op = "addComment" THEN Append(s, c)
    ELSE IF op = "removeComment" THEN But(s, c.id) ELSE Edited(s, c)

LEMMA PatchedAgrees ==
  ASSUME NEW d, NEW u, CommentsOf(d), NEW c, Commented(c), DocCallWaits(c, d, u),
         NEW t, t = Patched(c.op, u.comments, c.out.body)
  PROVE  Agree(t, d)
  <1>1. PICK s : s = u.comments
    OBVIOUS
  <1>2. PICK x : x = c.out.body
    OBVIOUS
  <1>3. \A y \in ToSet(d.comments) : y \in Comment
    BY SetIs DEF CommentsOf
  <1>4. CASE c.op = "addComment"
    <2>1. /\ s \in Seq(Comment) /\ EachOnce(s) /\ ToSet(s) \subseteq ToSet(d.comments)
          /\ x \in ToSet(d.comments) /\ \A y \in ToSet(s) : y.id # x.id
      BY <1>1, <1>2, <1>4 DEF DocCallWaits, Commented, Agree
    <2>2. t = Append(s, x)
      BY <1>1, <1>2, <1>4 DEF Patched
    <2>3. /\ t \in Seq(Comment) /\ EachOnce(t)
          /\ \A y : y \in ToSet(t) <=> y \in ToSet(s) \/ y = x
      BY <1>3, <2>1, <2>2, AppendedIs
    <2> QED BY <2>1, <2>3 DEF Agree
  <1>5. CASE c.op = "editComment"
    <2>1. /\ s \in Seq(Comment) /\ EachOnce(s) /\ x \in ToSet(d.comments)
          /\ \A y \in ToSet(s) : y.id # x.id => y \in ToSet(d.comments)
      BY <1>1, <1>2, <1>5 DEF DocCallWaits, Commented, AgreeBut
    <2>2. t = Edited(s, x)
      BY <1>1, <1>2, <1>5 DEF Patched
    <2>3. /\ t \in Seq(Comment) /\ EachOnce(t)
          /\ \A y \in ToSet(t) : y = x \/ (y \in ToSet(s) /\ y.id # x.id)
      BY <1>3, <2>1, <2>2, EditedIs
    <2> QED BY <2>1, <2>3 DEF Agree
  <1>6. CASE c.op = "removeComment"
    <2>1. /\ s \in Seq(Comment) /\ EachOnce(s)
          /\ \A y \in ToSet(s) : y.id # x.id => y \in ToSet(d.comments)
      BY <1>1, <1>2, <1>6 DEF DocCallWaits, Commented, AgreeBut
    <2>2. t = But(s, x.id)
      BY <1>1, <1>2, <1>6 DEF Patched
    <2>3. /\ t \in Seq(Comment) /\ EachOnce(t)
          /\ \A y : y \in ToSet(t) <=> y \in ToSet(s) /\ y.id # x.id
      BY <2>1, <2>2, ButIs
    <2> QED BY <2>1, <2>3 DEF Agree
  <1> QED BY <1>4, <1>5, <1>6 DEF Commented, CommentCalls

\* A document is shown: the page when it comes, and its two loads.
LEMMA LeavesRoom ==
  ASSUME MaxCalls >= 2, NEW from, NEW to
  PROVE  /\ FreeSlots(LoadDiff(NoCalls, from, to)) # {}
         /\ \A j \in Slots : LoadDiff(NoCalls, from, to)[j].op \in {"none", "diff"}
  <1>1. Calls(NoCalls) /\ \A i \in Slots : NoCalls[i].op = "none"
    BY NoCallsAre
  <1>2. Cancel(NoCalls, "diff") = NoCalls
    BY <1>1, CancelIs DEF NoneOf
  <1>3. MaxCalls \in Nat /\ 1 \in Slots /\ 2 \in Slots
    BY MaxCallsAssumption DEF Slots
  <1>4. FreeSlots(NoCalls) = Slots
    BY <1>1 DEF FreeSlots
  <1>5. CASE from > to
    BY <1>1, <1>2, <1>3, <1>4, <1>5 DEF LoadDiff
  <1>6. CASE ~(from > to)
    <2>1. PICK op : op = "diff"
      OBVIOUS
    <2>2. PICK arg : arg = <<from, to>>
      OBVIOUS
    <2>3. PICK m : m = Send(NoCalls, op, arg)
      OBVIOUS
    <2>4. PICK k \in Slots : Changed(NoCalls, m, k, Fresh(op, arg))
      BY <1>1, <1>3, <1>4, <2>1, <2>3, SendChanges
    <2>5. m[k].op = op /\ \A j \in Slots \ {k} : m[j] = NoCalls[j]
      BY <2>1, <2>4, FreshIs DEF Changed
    <2>6. LoadDiff(NoCalls, from, to) = m
      BY <1>2, <1>6, <2>1, <2>2, <2>3 DEF LoadDiff, Rerun
    <2>7. PICK j \in Slots : j # k
      BY <1>3
    <2> QED BY <1>1, <2>1, <2>5, <2>6, <2>7 DEF FreeSlots
  <1> QED BY <1>5, <1>6

\* v is the page u with the document d, but for fields that its calls are not about.
Shown(u, d, v) ==
    /\ DocumentShape(v) /\ v.detail = d /\ v.comments = u.comments
    /\ v.snapshot = None /\ v.selected = None /\ v.from = Before(d) /\ v.to = d.versions
    /\ IF Before(d) > d.versions THEN v.diff = None /\ v.diffLoading = u.diffLoading
       ELSE v.diff = u.diff /\ v.diffLoading

LEMMA ShownIs ==
  ASSUME NEW u, DocumentShape(u), NEW d
  PROVE  /\ Shown(u, d, [Showing(u, d) EXCEPT !.loading = FALSE])
         /\ [Showing(u, d) EXCEPT !.loading = FALSE].busy = u.busy
         /\ \A mode : /\ Shown(u, d, [Showing(u, d) EXCEPT !.busy = FALSE, !.mode = mode])
                      /\ ~[Showing(u, d) EXCEPT !.busy = FALSE, !.mode = mode].busy
  <1>1. PICK w : w = With(u, d)
    OBVIOUS
  <1>2. PICK v : v = Showing(u, d)
    OBVIOUS
  <1>3. /\ DocumentShape(w) /\ w.busy = u.busy /\ w.detail = d
        /\ w.comments = u.comments /\ w.snapshot = None /\ w.selected = None
        /\ w.diff = u.diff /\ w.diffLoading = u.diffLoading
        /\ v = Comparing(w, Before(d), d.versions)
    <2>0. PICK text : text = d.text
      OBVIOUS
    <2>1. w = [u EXCEPT !.detail = d, !.edit = text, !.files = FALSE,
                        !.snapshot = None, !.selected = None]
      BY <1>1, <2>0 DEF With
    <2>2. /\ DocumentShape(w) /\ w.busy = u.busy /\ w.detail = d
          /\ w.comments = u.comments /\ w.snapshot = None /\ w.selected = None
          /\ w.diff = u.diff /\ w.diffLoading = u.diffLoading
      BY <2>1 DEF DocumentShape
    <2>3. v = Comparing(w, Before(d), d.versions)
      BY <1>1, <1>2 DEF Showing, With
    <2> QED BY <2>2, <2>3
  <1>4. v.busy = u.busy /\ Shown(u, d, v)
    BY <1>3, ComparingIs DEF Shown
  <1>5. PICK v1 : v1 = [v EXCEPT !.loading = FALSE]
    OBVIOUS
  <1>6. /\ DocumentShape(v1) /\ v1.detail = v.detail /\ v1.comments = v.comments
        /\ v1.snapshot = v.snapshot /\ v1.selected = v.selected /\ v1.from = v.from
        /\ v1.to = v.to /\ v1.diff = v.diff /\ v1.diffLoading = v.diffLoading
        /\ v1.busy = v.busy
    BY <1>4, <1>5 DEF Shown, DocumentShape
  <1>7. Shown(u, d, v1)
    BY <1>4, <1>6 DEF Shown
  <1>8. ASSUME NEW mode
        PROVE  /\ Shown(u, d, [v EXCEPT !.busy = FALSE, !.mode = mode])
               /\ ~[v EXCEPT !.busy = FALSE, !.mode = mode].busy
    <2>1. PICK v2 : v2 = [v EXCEPT !.busy = FALSE, !.mode = mode]
      OBVIOUS
    <2>2. /\ DocumentShape(v2) /\ v2.detail = v.detail /\ v2.comments = v.comments
          /\ v2.snapshot = v.snapshot /\ v2.selected = v.selected /\ v2.from = v.from
          /\ v2.to = v.to /\ v2.diff = v.diff /\ v2.diffLoading = v.diffLoading
          /\ ~v2.busy
      BY <1>4, <2>1 DEF Shown, DocumentShape
    <2>3. Shown(u, d, v2)
      BY <1>4, <2>2 DEF Shown
    <2> QED BY <2>1, <2>2, <2>3
  <1> QED BY <1>2, <1>4, <1>5, <1>6, <1>7, <1>8

\* When no other action of his is under way, the versions compared follow the document.
LEMMA ShownStands ==
  ASSUME NEW n, NEW d, NEW u, Calls(n), DocCallsFit(n, d, u), DocumentTyped(d), DocumentShape(u),
         u.diff # None /\ ~u.diffLoading => u.diff = <<u.from, u.to>>,
         FreeSlots(n) # {}, \A i \in Slots : n[i].op \notin Writes /\ n[i].op # "detail",
         NEW doc, doc.versions \in Nat, doc.versions >= d.own, NEW v, Shown(u, doc, v)
  PROVE  DocStands(LoadFor(n, doc), d, v)
  <1>1. PICK from : from = Before(doc)
    OBVIOUS
  <1>2. PICK to : to = doc.versions
    OBVIOUS
  <1>3. PICK w : w = [u EXCEPT !.detail = doc, !.busy = v.busy]
    OBVIOUS
  <1>4. /\ DocumentShape(v) /\ v.detail = doc /\ v.from = from /\ v.to = to
        /\ IF from > to THEN v.diff = None /\ v.diffLoading = u.diffLoading
           ELSE v.diff = u.diff /\ v.diffLoading
    BY <1>1, <1>2 DEF Shown
  <1>5. v.busy \in BOOLEAN
    BY <1>4 DEF DocumentShape
  <1>6. /\ DocumentShape(w) /\ w.detail = doc /\ w.busy = v.busy /\ w.from = u.from
        /\ w.to = u.to /\ w.diff = u.diff /\ w.diffLoading = u.diffLoading
    BY <1>3, <1>5 DEF DocumentShape
  <1>7. \A i \in Slots : DocCallFits(n[i], d, w)
    BY <1>6 DEF DocCallsFit, DocCallFits
  <1>8. DocStands(n, d, w)
    BY <1>6, <1>7 DEF DocStands, DocCallsFit, DocShows
  <1>9. DocStands(LoadDiff(n, from, to), d, v)
    BY <1>4, <1>6, <1>8, DiffLoaded
  <1> QED BY <1>1, <1>2, <1>9 DEF LoadFor

\* For a user who waits nothing else is under way.
LEMMA ShownWaits ==
  ASSUME NEW n, Calls(n), Idle(n), FreeSlots(n) # {}, NEW d, NEW u, CommentsOf(d),
         Agree(u.comments, d), NEW doc, NEW v, Shown(u, doc, v)
  PROVE  DocWaits(LoadFor(n, doc), d, v) /\ OnlyLoads(LoadFor(n, doc))
  <1>1. \A i \in Slots : n[i] = NoCall
    BY DEF Calls, Idle, IsCall
  <1>2. v.comments = u.comments /\ v.snapshot = None /\ v.selected = None
    BY DEF Shown
  <1>3. DocWaits(n, d, v)
    BY <1>1, <1>2, NoCallFits, NoCallIs DEF DocWaits, Agree
  <1> QED BY <1>3, WaitsCompared DEF LoadFor

LEMMA OnDetailStep ==
  ASSUME DocumentInv, MaxCalls >= 2, NEW i \in Slots, OnDetail(i)
  PROVE  DocKeeps(net', ui')
  <1>1. /\ IsBack(net, i) /\ net[i].op = "detail" /\ ~Saved(net[i])
    BY DEF OnDetail, Back, Saved
  <1>2. /\ DocStands(net, db, ui) /\ DocCallFits(net[i], db, ui) /\ Calls(net) /\ DocumentShape(ui)
        /\ left.patient => DocWaits(net, db, ui)
    BY <1>1, DocCallBack, DocKept
  <1>3. CASE ~net[i].out.ok
    <2>1. net' = Settle(net, i) /\ ui' = [ui EXCEPT !.loading = FALSE]
      BY <1>3 DEF OnDetail
    <2>2. /\ DocumentShape(ui') /\ ui'.busy = ui.busy /\ ui'.detail = ui.detail
          /\ ui'.from = ui.from /\ ui'.to = ui.to /\ ui'.diff = ui.diff
          /\ ui'.diffLoading = ui.diffLoading /\ ui'.comments = ui.comments
          /\ ui'.snapshot = ui.snapshot /\ ui'.selected = ui.selected
      BY <1>2, <2>1 DEF DocumentShape
    <2>3. ~Commented(net[i])
      BY <1>1 DEF Commented, CommentCalls
    <2> QED BY <1>1, <2>1, <2>2, <2>3, DocSettles
  <1>4. CASE net[i].out.ok
    <2>1. PICK doc : doc = net[i].out.body
      OBVIOUS
    <2>2. PICK m : m = Settle(net, i)
      OBVIOUS
    <2>3. PICK l : l = LoadFor(m, doc)
      OBVIOUS
    <2>4. PICK op : op = "comments"
      OBVIOUS
    <2>5. net' = Send(l, op, None) /\ ui' = [Showing(ui, doc) EXCEPT !.loading = FALSE]
      BY <1>4, <2>1, <2>2, <2>3, <2>4 DEF OnDetail
    <2>6. Shown(ui, doc, ui') /\ ui'.busy = ui.busy
      BY <1>2, <2>5, ShownIs
    <2>7. /\ Calls(m) /\ DocCallsFit(m, db, ui) /\ FreeSlots(m) # {}
          /\ \A j \in Slots : m[j].op = "none"
      BY <1>1, <1>2, <2>2, DocSettled
    <2>8. Idle(m) /\ m = NoCalls
      BY <2>7, WaitsIdle DEF Idle
    <2>9. doc.versions \in Nat /\ doc.versions >= db.own
      BY <1>1, <1>2, <1>4, <2>1 DEF DocCallFits
    <2>10. DocStands(l, db, ui')
      BY <1>2, <2>3, <2>6, <2>7, <2>9, ShownStands DEF DocStands, DocShows, Writes
    <2>11. FreeSlots(l) # {} /\ \A j \in Slots : l[j].op \in {"none", "diff"}
      BY <2>3, <2>8, LeavesRoom DEF LoadFor
    <2>12. PICK f : f = Fresh(op, None)
      OBVIOUS
    <2>13. f.op = op /\ f.live /\ ~f.out.ok
      BY <2>4, <2>12, FreshIs
    <2>14. DocCallFits(f, db, ui') /\ DocCallWaits(f, db, ui')
      BY <2>4, <2>13 DEF DocCallFits, DocCallWaits, Saved, Writes
    <2>15. DocStands(Send(l, op, None), db, ui')
      <3>1. \A j \in Slots : l[j].op # "detail" /\ op # "none" /\ op # "detail" /\ op \notin Writes
        BY <2>4, <2>11 DEF Writes
      <3> QED BY <2>10, <2>11, <2>12, <2>14, <3>1, DocSent
    <2>16. ASSUME left.patient
           PROVE  DocWaits(Send(l, op, None), db, ui')
      <3>1. CommentsOf(db) /\ Agree(ui.comments, db)
        <4>1. ~Commented(net[i]) /\ net[i].op # "none"
          BY <1>1 DEF Commented, CommentCalls
        <4> QED BY <1>2, <2>16, <4>1, WaitsRest DEF DocWaits
      <3>2. DocWaits(l, db, ui') /\ OnlyLoads(l)
        BY <2>3, <2>6, <2>7, <2>8, <3>1, ShownWaits
      <3>3. ui'.snapshot \in {None, ui'.selected} /\ Calls(l)
        BY <2>6, <2>10 DEF Shown, DocStands
      <3> QED BY <2>4, <2>11, <2>12, <2>14, <3>2, <3>3, WaitsSent
    <2> QED BY <2>5, <2>15, <2>16 DEF DocKeeps
  <1> QED BY <1>3, <1>4

LEMMA OnWrittenStep ==
  ASSUME DocumentInv, NEW i \in Slots, OnWritten(i)
  PROVE  DocKeeps(net', ui')
  <1>1. /\ IsBack(net, i) /\ net[i].op \in {"save", "addFiles"} /\ net[i].out.ok
        /\ net[i].op \in Writes /\ Saved(net[i])
    BY DEF OnWritten, Good, Back, Saved, Writes
  <1>2. /\ DocStands(net, db, ui) /\ DocCallFits(net[i], db, ui) /\ Calls(net) /\ DocumentShape(ui)
        /\ left.patient => DocWaits(net, db, ui)
    BY <1>1, DocCallBack, DocKept
  <1>3. PICK doc : doc = net[i].out.body
    OBVIOUS
  <1>4. PICK m : m = Settle(net, i)
    OBVIOUS
  <1>5. PICK mode : mode = IF net[i].op = "save" THEN "view" ELSE Showing(ui, doc).mode
    OBVIOUS
  <1>6. net' = LoadFor(m, doc) /\ ui' = [Showing(ui, doc) EXCEPT !.busy = FALSE, !.mode = mode]
    BY <1>3, <1>4, <1>5 DEF OnWritten
  <1>7. Shown(ui, doc, ui')
    BY <1>2, <1>6, ShownIs
  <1>8. /\ Calls(m) /\ DocCallsFit(m, db, ui) /\ FreeSlots(m) # {}
        /\ \A j \in Slots : m[j].op \notin Writes
    BY <1>1, <1>2, <1>4, DocSettled
  <1>9. \A j \in Slots : m[j].op # "detail"
    <2>1. \A j \in Slots : net[j].op # "detail"
      BY <1>1, <1>2 DEF DocStands, DocCallsFit
    <2>2. m[i] = NoCall /\ \A j \in Slots \ {i} : m[j] = net[j]
      BY <1>2, <1>4, SettleChanges DEF Changed
    <2> QED BY <2>1, <2>2, NoCallIs
  <1>10. doc.versions \in Nat /\ doc.versions >= db.own
    BY <1>1, <1>2, <1>3 DEF DocCallFits
  <1>11. DocStands(LoadFor(m, doc), db, ui')
    BY <1>2, <1>7, <1>8, <1>9, <1>10, ShownStands DEF DocStands, DocShows
  <1>12. ASSUME left.patient
         PROVE  DocWaits(LoadFor(m, doc), db, ui')
    <2>1. ~Commented(net[i]) /\ net[i].op # "none" /\ net[i].op \notin {"diff", "comments"}
      BY <1>1 DEF Commented, CommentCalls
    <2>2. /\ CommentsOf(db) /\ Agree(ui.comments, db) /\ net[i].op # "snapshot"
          /\ ui.snapshot \in {None, ui.selected}
      BY <1>1, <1>2, <1>12, <2>1, WaitsRest DEF DocWaits
    <2>3. Idle(m)
      BY <1>2, <1>4, <1>12, <2>1, <2>2, WaitsSettled
    <2> QED BY <1>7, <1>8, <2>2, <2>3, ShownWaits
  <1> QED BY <1>6, <1>11, <1>12 DEF DocKeeps

LEMMA OnDiffStep ==
  ASSUME DocumentInv, NEW i \in Slots, OnDiff(i)
  PROVE  DocKeeps(net', ui')
  <1>1. /\ IsBack(net, i) /\ net[i].op = "diff" /\ net[i].live /\ ~Saved(net[i])
        /\ ~Commented(net[i])
    BY DEF OnDiff, Back, Saved, Commented, CommentCalls
  <1>2. /\ DocStands(net, db, ui) /\ DocCallFits(net[i], db, ui) /\ Calls(net) /\ DocumentShape(ui)
        /\ left.patient => DocWaits(net, db, ui)
    BY <1>1, DocCallBack, DocKept
  <1>3. PICK diff : diff = IF net[i].out.ok THEN net[i].out.body ELSE None
    OBVIOUS
  <1>4. ui' = [ui EXCEPT !.diffLoading = FALSE, !.diff = diff] /\ net' = Settle(net, i)
    BY <1>3 DEF OnDiff
  <1>5. /\ DocumentShape(ui') /\ ui'.busy = ui.busy /\ ui'.detail = ui.detail
        /\ ui'.from = ui.from /\ ui'.to = ui.to /\ ui'.diff = diff /\ ui'.comments = ui.comments
        /\ ui'.snapshot = ui.snapshot /\ ui'.selected = ui.selected
    BY <1>2, <1>4 DEF DocumentShape
  <1>6. diff \in {None, <<ui.from, ui.to>>}
    BY <1>1, <1>2, <1>3 DEF DocCallFits
  <1>7. DocStands(Settle(net, i), db, ui)
    BY <1>1, <1>2, DocSettled
  <1>8. DocStands(net', db, ui')
    <2>1. \A j \in Slots : DocCallFits(net'[j], db, ui')
      BY <1>4, <1>5, <1>7 DEF DocStands, DocCallsFit, DocCallFits
    <2>2. DocShows(net', db, ui')
      BY <1>4, <1>5, <1>6, <1>7 DEF DocStands, DocShows
    <2> QED BY <1>4, <1>5, <1>7, <2>1, <2>2 DEF DocStands, DocCallsFit
  <1>9. ASSUME left.patient
        PROVE  DocWaits(net', db, ui')
    <2>1. Agree(ui.comments, db) /\ ui.snapshot \in {None, ui.selected} /\ net[i].op # "none"
      BY <1>1, <1>2, <1>9, WaitsRest
    <2> QED BY <1>2, <1>4, <1>5, <1>9, <2>1, WaitsSettled
  <1> QED BY <1>8, <1>9 DEF DocKeeps

LEMMA OnCommentWrittenStep ==
  ASSUME DocumentInv, NEW i \in Slots, OnCommentWritten(i)
  PROVE  DocKeeps(net', ui')
  <1>1. IsBack(net, i) /\ net[i].op \in CommentCalls /\ net[i].out.ok
    BY DEF OnCommentWritten, Good, Back, CommentCalls
  <1>2. /\ ~Saved(net[i]) /\ Commented(net[i]) /\ net[i].op # "snapshot"
    BY <1>1 DEF Saved, Commented, CommentCalls
  <1>3. /\ Calls(net) /\ DocumentShape(ui)
        /\ left.patient => DocWaits(net, db, ui) /\ DocCallWaits(net[i], db, ui)
    BY <1>1, DocCallBack, DocKept
  <1>4. PICK c : c = net[i]
    OBVIOUS
  <1>5. PICK comments : comments = Patched(c.op, ui.comments, c.out.body)
    OBVIOUS
  <1>6. PICK editing : editing = IF c.op # "addComment" /\ (c.op = "editComment" \/ ui.editing = c.out.body.id)
                                 THEN None ELSE ui.editing
    OBVIOUS
  <1>7. /\ net' = Settle(net, i)
        /\ ui' = [ui EXCEPT !.sending = FALSE, !.comments = comments, !.editing = editing]
    BY <1>3, <1>4, <1>5, <1>6 DEF OnCommentWritten, Patched, Edited
  <1>8. /\ DocumentShape(ui') /\ ui'.busy = ui.busy /\ ui'.detail = ui.detail
        /\ ui'.from = ui.from /\ ui'.to = ui.to /\ ui'.diff = ui.diff
        /\ ui'.diffLoading = ui.diffLoading /\ ui'.comments = comments
        /\ ui'.snapshot = ui.snapshot /\ ui'.selected = ui.selected
    BY <1>3, <1>7 DEF DocumentShape
  <1>9. left.patient => Agree(comments, db)
    BY <1>2, <1>3, <1>4, <1>5, PatchedAgrees DEF DocWaits
  <1> QED BY <1>1, <1>2, <1>7, <1>8, <1>9, DocSettles

LEMMA DocAnsweredStep ==
  ASSUME DocumentInv, MaxCalls >= 2, NEW i \in Slots, DocumentAnswered(i)
  PROVE  DocumentInv'
  <1>1. db' = db /\ left' = left
    BY DEF DocumentAnswered, OnDetail, OnWritten, OnDocDeleted, DocActionFails, OnDiff, OnSnapshot,
           OnComments, OnCommentWritten, CommentFails
  <1>2. SUFFICES DocKeeps(net', ui')
    BY <1>1 DEF DocumentInv, DocKeeps
  <1>3. DocumentShape(ui)
    BY DocKept
  <1>4. CASE OnDocDeleted(i)
    <2>1. /\ IsBack(net, i) /\ net[i].op = "delete" /\ ~Saved(net[i]) /\ ~Commented(net[i])
      BY <1>4 DEF OnDocDeleted, Good, Back, Saved, Commented, CommentCalls
    <2>2. ui' = [ui EXCEPT !.page = "gone"] /\ net' = Settle(net, i)
      BY <1>4 DEF OnDocDeleted
    <2>3. /\ DocumentShape(ui') /\ ui'.busy = ui.busy /\ ui'.detail = ui.detail
          /\ ui'.from = ui.from /\ ui'.to = ui.to /\ ui'.diff = ui.diff
          /\ ui'.diffLoading = ui.diffLoading /\ ui'.comments = ui.comments
          /\ ui'.snapshot = ui.snapshot /\ ui'.selected = ui.selected
      BY <1>3, <2>2 DEF DocumentShape
    <2> QED BY <2>1, <2>2, <2>3, DocSettles
  <1>5. CASE DocActionFails(i)
    <2>1. /\ IsBack(net, i) /\ net[i].op \in Writes /\ ~net[i].out.ok
      BY <1>5 DEF DocActionFails, Bad, Back, Writes
    <2>2. ui' = [ui EXCEPT !.busy = FALSE] /\ net' = Settle(net, i)
      BY <1>5 DEF DocActionFails
    <2>3. /\ DocumentShape(ui') /\ ui'.detail = ui.detail
          /\ ui'.from = ui.from /\ ui'.to = ui.to /\ ui'.diff = ui.diff
          /\ ui'.diffLoading = ui.diffLoading /\ ui'.comments = ui.comments
          /\ ui'.snapshot = ui.snapshot /\ ui'.selected = ui.selected
      BY <1>3, <2>2 DEF DocumentShape
    <2>4. ~Saved(net[i]) /\ ~Commented(net[i]) /\ net[i].op # "snapshot"
      BY <2>1 DEF Saved, Commented, Writes
    <2> QED BY <2>1, <2>2, <2>3, <2>4, DocSettles
  <1>6. CASE OnSnapshot(i)
    <2>1. /\ IsBack(net, i) /\ net[i].op = "snapshot" /\ ~Saved(net[i]) /\ ~Commented(net[i])
      BY <1>6 DEF OnSnapshot, Back, Saved, Commented, CommentCalls
    <2>2. PICK shot : shot = IF net[i].out.ok THEN net[i].out.body ELSE None
      OBVIOUS
    <2>3. ui' = [ui EXCEPT !.snapshot = shot] /\ net' = Settle(net, i)
      BY <1>6, <2>2 DEF OnSnapshot
    <2>4. /\ DocumentShape(ui') /\ ui'.busy = ui.busy /\ ui'.detail = ui.detail
          /\ ui'.from = ui.from /\ ui'.to = ui.to /\ ui'.diff = ui.diff
          /\ ui'.diffLoading = ui.diffLoading /\ ui'.comments = ui.comments
          /\ ui'.snapshot = shot /\ ui'.selected = ui.selected
      BY <1>3, <2>3 DEF DocumentShape
    <2>5. left.patient => shot \in {None, ui.selected}
      BY <2>1, <2>2, DocCallBack DEF DocCallWaits
    <2> QED BY <2>1, <2>3, <2>4, <2>5, DocSettles
  <1>7. CASE OnComments(i)
    <2>1. /\ IsBack(net, i) /\ net[i].op = "comments" /\ ~Saved(net[i]) /\ ~Commented(net[i])
      BY <1>7 DEF OnComments, Back, Saved, Commented, CommentCalls
    <2>2. PICK comments : comments = IF net[i].out.ok THEN net[i].out.body ELSE <<>>
      OBVIOUS
    <2>3. ui' = [ui EXCEPT !.comments = comments] /\ net' = Settle(net, i)
      BY <1>7, <2>2 DEF OnComments
    <2>4. /\ DocumentShape(ui') /\ ui'.busy = ui.busy /\ ui'.detail = ui.detail
          /\ ui'.from = ui.from /\ ui'.to = ui.to /\ ui'.diff = ui.diff
          /\ ui'.diffLoading = ui.diffLoading /\ ui'.comments = comments
          /\ ui'.snapshot = ui.snapshot /\ ui'.selected = ui.selected
      BY <1>3, <2>3 DEF DocumentShape
    <2>5. ASSUME left.patient
          PROVE  Agree(comments, db)
      <3>1. CommentsOf(db) /\ (net[i].out.ok => net[i].out.body = db.comments)
        BY <2>1, <2>5, DocCallBack DEF DocCallWaits, DocWaits
      <3>2. Agree(db.comments, db)
        BY <3>1 DEF CommentsOf, Agree
      <3> QED BY <2>2, <3>1, <3>2, NothingAgrees
    <2> QED BY <2>1, <2>3, <2>4, <2>5, DocSettles
  <1>8. CASE CommentFails(i)
    <2>1. /\ IsBack(net, i) /\ net[i].op \in CommentCalls /\ ~net[i].out.ok
      BY <1>8 DEF CommentFails, Bad, Back, CommentCalls
    <2>2. ui' = [ui EXCEPT !.sending = FALSE] /\ net' = Settle(net, i)
      BY <1>8 DEF CommentFails
    <2>3. /\ DocumentShape(ui') /\ ui'.busy = ui.busy /\ ui'.detail = ui.detail
          /\ ui'.from = ui.from /\ ui'.to = ui.to /\ ui'.diff = ui.diff
          /\ ui'.diffLoading = ui.diffLoading /\ ui'.comments = ui.comments
          /\ ui'.snapshot = ui.snapshot /\ ui'.selected = ui.selected
      BY <1>3, <2>2 DEF DocumentShape
    <2>4. ~Saved(net[i]) /\ ~Commented(net[i]) /\ net[i].op # "snapshot"
      BY <2>1 DEF Saved, Commented, CommentCalls
    <2> QED BY <2>1, <2>2, <2>3, <2>4, DocSettles
  <1> QED BY <1>4, <1>5, <1>6, <1>7, <1>8, OnDetailStep, OnWrittenStep, OnDiffStep,
             OnCommentWrittenStep DEF DocumentAnswered

LEMMA DocumentStart ==
  ASSUME DocumentInit
  PROVE  MaxCalls >= 2 /\ DocumentInv
  <1>1. left \in Setting /\ left.lost = 0 /\ MaxCalls >= 2
    BY DEF DocumentInit
  <1>2. PICK n \in Nat \ {0} : MountDocument(n)
    BY DEF DocumentInit
  <1>3. PICK first : first = [text |-> CHOOSE t \in DocTexts : TRUE, files |-> 0]
    OBVIOUS
  <1>4. PICK s : s = [v \in 1 .. n |-> first]
    OBVIOUS
  <1>5. IsList(s)
    <2>1. s \in [1 .. n -> {first}]
      BY <1>4
    <2> QED BY <1>2, <2>1, SeqDef DEF IsList
  <1>6. PICK none : none = <<>>
    OBVIOUS
  <1>7. db = [versions |-> s, own |-> 0, deleted |-> FALSE, comments |-> none, next |-> 1]
    BY <1>2, <1>3, <1>4, <1>6 DEF MountDocument, DocumentDb
  <1>8. DocumentTyped(db) /\ db.own = 0 /\ db.comments = none /\ db.next = 1
    BY <1>5, <1>7 DEF DocumentTyped
  <1>9. /\ none \in Seq(Comment) /\ EachOnce(none) /\ Agree(none, db)
        /\ \A x : ~(x \in ToSet(none))
    <2>1. Agree(none, db)
      BY <1>6, NothingAgrees
    <2>2. Len(none) = 0 /\ none \in Seq(Comment)
      BY <1>6
    <2>3. DOMAIN none = {}
      BY <2>2, LenProperties
    <2> QED BY <2>1, <2>2, <2>3, SetIs DEF Agree
  <1>10. CommentsOf(db)
    BY <1>8, <1>9 DEF CommentsOf
  <1>11. PICK mode : mode = "view"
    OBVIOUS
  <1>12. PICK page : page = "document"
    OBVIOUS
  <1>13. ui = [page |-> page, detail |-> None, loading |-> TRUE, mode |-> mode,
               edit |-> None, files |-> FALSE, busy |-> FALSE,
               from |-> 1, to |-> 1, diff |-> None, diffLoading |-> FALSE,
               snapshot |-> None, selected |-> None,
               comments |-> none, sending |-> FALSE, editing |-> None]
    BY <1>2, <1>6, <1>11, <1>12 DEF MountDocument
  <1>14. /\ DocumentShape(ui) /\ ui.detail = None /\ ui.diff = None /\ ui.snapshot = None
         /\ ui.comments = none
    BY <1>13 DEF DocumentShape
  <1>15. Calls(NoCalls) /\ \A i \in Slots : NoCalls[i] = NoCall /\ NoCalls[i].op = "none"
    BY NoCallsAre
  <1>16. DocStands(NoCalls, db, ui)
    <2>1. DocCallsFit(NoCalls, db, ui)
      BY <1>15, NoCallFits DEF DocCallsFit, Writes
    <2> QED BY <1>8, <1>14, <1>15, <2>1 DEF DocStands, DocShows
  <1>17. DocWaits(NoCalls, db, ui)
    BY <1>9, <1>10, <1>14, <1>15, NoCallFits DEF DocWaits
  <1>18. PICK op : op = "detail"
    OBVIOUS
  <1>19. PICK f : f = Fresh(op, None)
    OBVIOUS
  <1>20. DocCallFits(f, db, ui) /\ DocCallWaits(f, db, ui)
    BY <1>8, <1>14, <1>18, <1>19, FreshIs DEF DocCallFits, DocCallWaits, Saved, Writes
  <1>21. FreeSlots(NoCalls) # {}
    BY CallsRoom
  <1>22. DocStands(Send(NoCalls, op, None), db, ui)
    BY <1>15, <1>16, <1>18, <1>19, <1>20, <1>21, DocSent
  <1>23. DocWaits(Send(NoCalls, op, None), db, ui)
    <2>1. Idle(NoCalls) /\ OnlyLoads(NoCalls)
      BY <1>15 DEF Idle, OnlyLoads
    <2> QED BY <1>14, <1>15, <1>17, <1>18, <1>19, <1>20, <1>21, <2>1, WaitsSent
  <1>24. net = Send(NoCalls, op, None)
    BY <1>2, <1>18 DEF MountDocument
  <1> QED BY <1>1, <1>22, <1>23, <1>24 DEF DocumentInv

LEMMA DocumentKeep ==
  ASSUME MaxCalls >= 2 /\ DocumentInv, [DocumentNext]_vars
  PROVE  (MaxCalls >= 2 /\ DocumentInv)'
  <1>1. CASE DocumentUser
    BY <1>1, DocUserStep
  <1>2. ASSUME NEW t \in DocTexts, ChangedElsewhere(t)
        PROVE  DocumentInv'
    BY <1>2, DocElsewhereStep
  <1>3. ASSUME NEW i \in Slots, DocServed(i) \/ Refuse(i) \/ Late(i) \/ DocumentAnswered(i)
        PROVE  DocumentInv'
    BY <1>3, DocServedStep, DocRefusedStep, DocLateStep, DocAnsweredStep
  <1>4. CASE UNCHANGED vars
    BY <1>4 DEF vars, DocumentInv
  <1> QED BY <1>1, <1>2, <1>3, <1>4 DEF DocumentNext

\* At rest the document shown is no older than what the page itself has saved; the
\* difference shown is that of the two versions chosen; for a user who waits the
\* snapshot is of the version he clicked, and the comments are the document's own,
\* each once.
THEOREM PageShowsWhatIsSo == DocumentSpec => []ShownAsAsked
  <1>1. MaxCalls >= 2 /\ DocumentInv => ShownAsAsked
    <2>1. SUFFICES ASSUME DocumentInv PROVE ShownAsAsked
      OBVIOUS
    <2>2. DocStands(net, db, ui) /\ (left.patient => DocWaits(net, db, ui))
      BY <2>1 DEF DocumentInv
    <2>3. ASSUME Quiet
          PROVE  \A i \in Slots : ~Saved(net[i]) /\ ~Commented(net[i]) /\ net[i].op # "snapshot"
      BY <2>3 DEF Quiet, Saved, Commented, CommentCalls
    <2>4. Quiet /\ ui.detail # None => ui.detail.versions >= db.own
      BY <2>2, <2>3 DEF DocStands, DocShows
    <2>5. ui.diff # None /\ ~ui.diffLoading => ui.diff = <<ui.from, ui.to>>
      BY <2>2 DEF DocStands, DocShows
    <2>6. ASSUME left.patient, Quiet
          PROVE  /\ ui.snapshot \in {None, ui.selected}
                 /\ IsInjective(ui.comments)
                 /\ \A c \in ToSet(ui.comments) : c \in ToSet(db.comments)
      <3>1. Agree(ui.comments, db) /\ ui.snapshot \in {None, ui.selected}
        BY <2>2, <2>3, <2>6 DEF DocWaits
      <3> QED BY <3>1, InjectiveIs DEF Agree
    <2> QED BY <2>4, <2>5, <2>6 DEF ShownAsAsked
  <1>2. DocumentInit => MaxCalls >= 2 /\ DocumentInv
    BY DocumentStart
  <1>3. MaxCalls >= 2 /\ DocumentInv /\ [DocumentNext]_vars => (MaxCalls >= 2 /\ DocumentInv)'
    BY DocumentKeep
  <1> QED BY <1>1, <1>2, <1>3, PTL DEF DocumentSpec
=============================================================================
