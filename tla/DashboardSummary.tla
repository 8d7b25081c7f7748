-------------------------- MODULE DashboardSummary --------------------------
(* The tasks of the dashboard (components/dashboard/DashboardSummary.tsx): a    *)
(* calendar of one month, a list of the window the settings give, a form for a  *)
(* task that may be linked to a document and one of its files, a form for the   *)
(* settings and one for the holidays. Both forms put the settings as a whole.   *)
EXTENDS Page

CONSTANTS
    Months,         \* of the calendar, as numbers
    Tasks,
    Forms,          \* what the settings form holds: categories, range, flags
    DefaultForm,    \* DEFAULT_TASK_SETTINGS
    Window,         \* Window[f]: the months the task list covers
    Days,           \* days that can be holidays
    LinkDocs        \* documents a task can be linked to

ASSUME FormsAssumption == DefaultForm \in Forms

TaskSettings == [form : Forms, days : SUBSET Days]
ASSUME NoneAssumption == None \notin TaskSettings

DefaultSettings == [form |-> DefaultForm, days |-> {}]

\* The server: of each task its month (0: there is none), its revision and the
\* document of the file it is linked to; the settings; whether it has the settings
\* endpoint. meant: what the user has saved with each of the two forms. blind: one
\* was saved while the defaults stood in for settings that could not be loaded.
DashboardDb(api, tasks, local) ==
    [tasks |-> tasks, settings |-> DefaultSettings, api |-> api, blind |-> FALSE,
     meant |-> IF api \/ local = None THEN DefaultSettings ELSE local]

TaskItem(t) == [task |-> t, rev |-> db.tasks[t].rev, link |-> db.tasks[t].link]
InMonths(S) == {TaskItem(t) : t \in {u \in Tasks : db.tasks[u].month \in S}}

\* A file is linked only to a task of its own document.
TaskFound(op, arg) == op = "saveTask" => arg.link = arg.file

\* A server without the endpoint answers 404: an answer that has no settings.
TaskBody(op, arg) ==
    CASE op = "summary" -> None
      [] op = "settings" -> IF db.api THEN db.settings ELSE None
      [] op = "calendar" -> InMonths({arg.of})
      [] op = "list" -> InMonths(Window[arg.of])
      [] op = "files" -> arg
      [] op = "saveTask" -> arg
      [] op \in {"putForm", "putDays"} -> IF db.api THEN arg.put ELSE None

\* What the user means by a put: the part that its form shows.
Means(op, arg) ==
    [db EXCEPT !.meant = IF op = "putForm" THEN [@ EXCEPT !.form = arg.put.form]
                         ELSE [@ EXCEPT !.days = arg.put.days],
               !.blind = @ \/ ~arg.loaded]

TaskAfter(op, arg) ==
    CASE op = "saveTask" ->
           [db EXCEPT !.tasks[arg.task] =
                        [month |-> arg.month, rev |-> @.rev + 1, link |-> arg.link]]
      [] op \in {"putForm", "putDays"} /\ db.api ->
           [Means(op, arg) EXCEPT !.settings = arg.put]
      [] OTHER -> db

-----------------------------------------------------------------------------
(* What the page fetches *)

\* Nothing tells the answers for two months apart.
LoadCalendar(n, month, form) == Send(n, "calendar", [of |-> month, form |-> form])

\* Fault: the sequence number is not compared.
LoadList_NoSequence(n, f, form) == Send(n, "list", [of |-> f, form |-> form])

\* The newest request for the list is the one whose answer counts.
LoadList(n, f, form) == Rerun(n, "list", [of |-> f, form |-> form])

\* The settings become s: the list follows if its window does, unless they are
\* about to be loaded.
Following(n, s) ==
    IF ui.settingsLoading \/ Window[s.form] = Window[ui.settings.form] THEN n
    ELSE LoadList(n, s.form, FALSE)
ListFor(s) ==
    IF ui.settingsLoading \/ Window[s.form] = Window[ui.settings.form] THEN ui.list
    ELSE [ui.list EXCEPT !.loading = TRUE, !.wanted = s.form]

SubmittingTask == Under({"saveTask"}) \/
    \E i \in CallsOf(net, "list") \cup CallsOf(net, "calendar") : net[i].arg.form
SubmittingForm == Under({"putForm"}) \/ \E i \in CallsOf(net, "settings") : net[i].arg

\* The form: the task, whether it is one of the list, the document it is linked to,
\* the document of the file that is chosen, and of the files there are to choose from.
NoForm == [open |-> FALSE, task |-> None, editing |-> FALSE, link |-> None,
           file |-> None, files |-> None, filesLoading |-> FALSE]

\* A load of files goes on when the form is closed.
ClosedForm == [NoForm EXCEPT !.filesLoading = ui.form.filesLoading]

\* A task of the list comes with its link and its file.
EditedForm(x) ==
    [open |-> TRUE, task |-> x.task, editing |-> TRUE, link |-> x.link, file |-> x.link,
     files |-> None, filesLoading |-> ui.form.filesLoading \/ x.link # None]

LinkedForm(d) ==
    [ui.form EXCEPT !.link = d, !.file = None, !.files = IF d = None THEN None ELSE @,
                    !.filesLoading = @ \/ d # None]

\* The file that was chosen stays chosen if it is one of those that have come.
FormWith(files) ==
    [ui.form EXCEPT !.files = files, !.filesLoading = FALSE,
                    !.file = IF @ = files THEN @ ELSE None]

\* loaded: the settings shown are those that are stored.
MountDashboard(api, tasks, month, local) ==
    /\ net = LoadCalendar(Send(Send(NoCalls, "summary", None), "settings", FALSE), month, FALSE)
    /\ db = DashboardDb(api, tasks, local)
    /\ ui = [page |-> "dashboard", summary |-> "loading", month |-> month,
             calendar |-> [of |-> month, items |-> {}],
             list |-> [of |-> None, items |-> {}, loading |-> FALSE, wanted |-> None],
             settings |-> DefaultSettings, settingsLoading |-> TRUE, loaded |-> FALSE,
             supported |-> TRUE, local |-> local, form |-> NoForm, modal |-> "none"]

-----------------------------------------------------------------------------
(* The user *)

\* The page shows nothing until the summary has come, and no more if it fails.
OnDashboard(n) == ui.page = "dashboard" /\ ui.summary = "shown" /\ Acts(n)
NoModal == ui.modal = "none" /\ ~ui.form.open

TurnMonth(m) ==
    /\ OnDashboard(1) /\ NoModal /\ m # ui.month
    /\ ui' = [ui EXCEPT !.month = m]
    /\ net' = LoadCalendar(net, m, FALSE)
    /\ left' = Spent /\ UNCHANGED db

NewTask(t) ==
    /\ OnDashboard(0) /\ NoModal /\ db.tasks[t].month = 0
    /\ ui' = [ui EXCEPT !.form = [ClosedForm EXCEPT !.open = TRUE, !.task = t]]
    /\ left' = Spent /\ UNCHANGED <<net, db>>

\* The effect loads the files of the document that the task is linked to.
EditTask(x) ==
    /\ OnDashboard(1) /\ NoModal /\ ~ui.list.loading
    /\ ui' = [ui EXCEPT !.form = EditedForm(x)]
    /\ net' = IF x.link = None THEN net ELSE Send(net, "files", x.link)
    /\ left' = Spent /\ UNCHANGED db

\* Only a task of the list can be linked, or unlinked. The effect loads the files of
\* the document; nothing cancels a load it has sent before. (The list of documents
\* to choose from is loaded with them, the category decides whether there can be a
\* link, and a link of another page can open a task: these are left out.)
LinkTo(d) ==
    /\ OnDashboard(1) /\ ui.form.editing /\ d # ui.form.link
    /\ ui' = [ui EXCEPT !.form = LinkedForm(d)]
    /\ net' = IF d = None THEN net ELSE Send(net, "files", d)
    /\ left' = Spent /\ UNCHANGED db

PickFile ==
    /\ OnDashboard(0) /\ ui.form.link # None
    /\ ~ui.form.filesLoading /\ ui.form.files \notin {None, ui.form.file}
    /\ ui' = [ui EXCEPT !.form = [@ EXCEPT !.file = ui.form.files]]
    /\ left' = Spent /\ UNCHANGED <<net, db>>

CloseTask ==
    /\ OnDashboard(0) /\ ui.form.open
    /\ ui' = [ui EXCEPT !.form = ClosedForm]
    /\ left' = Spent /\ UNCHANGED <<net, db>>

\* The form is sent; the handler remembers the month and the window of the click.
SubmitTask(m) ==
    /\ OnDashboard(1) /\ ui.form.open /\ ~SubmittingTask
    /\ ui.form.link = None <=> ui.form.file = None
    /\ net' = Send(net, "saveTask",
                   [task |-> ui.form.task, month |-> m, at |-> ui.month,
                    window |-> ui.settings.form, link |-> ui.form.link,
                    file |-> ui.form.file])
    /\ left' = Spent /\ UNCHANGED <<db, ui>>

OpenSettings(m) ==
    /\ OnDashboard(0) /\ NoModal
    /\ ui' = [ui EXCEPT !.modal = m]
    /\ left' = Spent /\ UNCHANGED <<net, db>>

CloseSettings ==
    /\ OnDashboard(0) /\ ui.modal # "none"
    /\ ui' = [ui EXCEPT !.modal = "none"]
    /\ left' = Spent /\ UNCHANGED <<net, db>>

\* Without the endpoint the settings are kept in the browser. The modal of the
\* settings closes, that of the holidays stays.
Closing(op) == IF op = "putForm" /\ ui.modal = "form" THEN "none" ELSE ui.modal
KeptLocally(op, s) ==
    [ui EXCEPT !.settings = s, !.local = s, !.loaded = TRUE, !.supported = FALSE,
               !.modal = Closing(op), !.list = ListFor(s)]

\* The settings are put, or kept where there is no endpoint to put them to.
Save(op, put) ==
    LET arg == [put |-> put, loaded |-> ui.loaded]
    IN  IF ui.supported
        THEN net' = Send(net, op, arg) /\ UNCHANGED <<db, ui>>
        ELSE /\ net' = Following(net, put)
             /\ db' = Means(op, arg) /\ ui' = KeptLocally(op, put)

\* Fault: the form puts what it shows and nothing else.
FormPut_FormOnly(f) == [form |-> f, days |-> {}]

\* The form keeps the holidays it was rendered with.
FormPut(f) == [form |-> f, days |-> ui.settings.days]

SubmitForm(f) ==
    /\ OnDashboard(1) /\ ui.modal = "form" /\ ~SubmittingForm
    /\ Save("putForm", FormPut(f))
    /\ left' = Spent

\* Adding or removing a holiday puts the settings at once, and keeps the modal; the
\* button that saves and closes is taken as saving and then closing.
SubmitDays(S) ==
    /\ OnDashboard(1) /\ ui.modal = "days" /\ ~Under({"putDays"})
    /\ Save("putDays", [form |-> ui.settings.form, days |-> S])
    /\ left' = Spent

-----------------------------------------------------------------------------
(* What comes back *)

OnSummary(i) ==
    /\ Back(i, "summary")
    /\ net' = Settle(net, i)
    /\ ui' = [ui EXCEPT !.summary = IF net[i].out.ok THEN "shown" ELSE "failed"]
    /\ UNCHANGED <<db, left>>

\* The settings of the server; without the endpoint those the browser has, if it has
\* any; else, and when the load fails, the defaults stand in. The list is loaded once
\* they are there. The form that has been saved closes after its reload, whether that
\* succeeds or not.
OnSettings(i) ==
    /\ Back(i, "settings")
    /\ LET ok == net[i].out.ok
           found == ok /\ net[i].out.body # None
           s == IF found THEN net[i].out.body
                ELSE IF ok /\ ui.local # None THEN ui.local ELSE DefaultSettings
       IN  /\ net' = LoadList(Settle(net, i), s.form, FALSE)
           /\ ui' = [ui EXCEPT !.settings = s, !.settingsLoading = FALSE, !.loaded = ok,
                               !.supported = IF ok THEN found ELSE @,
                               !.list = [@ EXCEPT !.loading = TRUE, !.wanted = s.form],
                               !.modal = IF net[i].arg THEN Closing("putForm") ELSE @]
    /\ UNCHANGED <<db, left>>

OnCalendar(i) ==
    /\ Back(i, "calendar")
    /\ net' = Settle(net, i)
    /\ ui' = [ui EXCEPT !.calendar = [of |-> net[i].arg.of,
                                      items |-> IF net[i].out.ok THEN net[i].out.body ELSE {}]]
    /\ UNCHANGED <<db, left>>

OnList(i) ==
    /\ Back(i, "list") /\ net[i].live
    /\ net' = Settle(net, i)
    /\ ui' = [ui EXCEPT !.list = [@ EXCEPT !.of = net[i].arg.of, !.loading = FALSE,
                                           !.items = IF net[i].out.ok THEN net[i].out.body ELSE {}]]
    /\ UNCHANGED <<db, left>>

OnFiles(i) ==
    /\ Back(i, "files")
    /\ net' = Settle(net, i)
    /\ ui' = [ui EXCEPT !.form = FormWith(IF net[i].out.ok THEN net[i].out.body ELSE None)]
    /\ UNCHANGED <<db, left>>

\* A saved task: the form closes, calendar and list are loaded anew, for the
\* month and the window of the click.
OnTaskSaved(i) ==
    /\ Good(i, "saveTask") /\ HasRoom(Settle(net, i), 2)
    /\ LET arg == net[i].arg IN
       /\ net' = LoadList(LoadCalendar(Settle(net, i), arg.at, TRUE), arg.window, TRUE)
       /\ ui' = [ui EXCEPT !.form = ClosedForm,
                           !.list = [@ EXCEPT !.loading = TRUE, !.wanted = arg.window]]
    /\ UNCHANGED <<db, left>>

\* The settings the server answers are shown and kept; the form loads them again.
OnFormPut(i) ==
    /\ Good(i, "putForm") /\ net[i].out.body # None
    /\ net' = Send(Settle(net, i), "settings", TRUE)
    /\ ui' = [ui EXCEPT !.settings = net[i].out.body, !.local = net[i].out.body,
                        !.loaded = TRUE, !.settingsLoading = TRUE]
    /\ UNCHANGED <<db, left>>

OnDaysPut(i) ==
    /\ Good(i, "putDays") /\ net[i].out.body # None
    /\ LET s == net[i].out.body IN
       /\ net' = Following(Settle(net, i), s)
       /\ ui' = [ui EXCEPT !.settings = s, !.local = s, !.loaded = TRUE, !.list = ListFor(s)]
    /\ UNCHANGED <<db, left>>

\* 404: what was to be put is kept in the browser.
OnNoEndpoint(i) ==
    /\ \E op \in {"putForm", "putDays"} :
         /\ Good(i, op) /\ net[i].out.body = None
         /\ net' = Following(Settle(net, i), net[i].arg.put)
         /\ db' = Means(op, net[i].arg)
         /\ ui' = KeptLocally(op, net[i].arg.put)
    /\ UNCHANGED left

\* Any other failure is reported in its form.
SaveFails(i) ==
    /\ Bad(i, "saveTask") \/ Bad(i, "putForm") \/ Bad(i, "putDays")
    /\ net' = Settle(net, i)
    /\ UNCHANGED <<db, ui, left>>

-----------------------------------------------------------------------------
DashboardUser ==
    \/ \E m \in Months : TurnMonth(m) \/ SubmitTask(m)
    \/ \E t \in Tasks : NewTask(t)
    \/ \E x \in ui.list.items : EditTask(x)
    \/ \E d \in LinkDocs \cup {None} : LinkTo(d)
    \/ PickFile \/ CloseTask
    \/ \E m \in {"form", "days"} : OpenSettings(m)
    \/ CloseSettings
    \/ \E f \in Forms : SubmitForm(f)
    \/ \E S \in SUBSET Days : SubmitDays(S)

DashboardAnswered(i) ==
    \/ OnSummary(i) \/ OnSettings(i) \/ OnCalendar(i) \/ OnList(i) \/ OnFiles(i)
    \/ OnTaskSaved(i) \/ OnFormPut(i) \/ OnDaysPut(i)
    \/ OnNoEndpoint(i) \/ SaveFails(i)

TaskServed(i) ==
    LET op == net[i].op
        arg == net[i].arg
    IN  Serve(i, TaskFound(op, arg), TaskBody(op, arg), TaskAfter(op, arg))

DashboardNext ==
    /\ ui.page = "dashboard"
    /\ \/ DashboardUser
       \/ \E i \in Slots :
             TaskServed(i) \/ Refuse(i) \/ Late(i) \/ DashboardAnswered(i)

-----------------------------------------------------------------------------
(* Properties *)

\* The list answers the newest request for it, whatever order the answers have
\* (listTasksRequestSeqRef). For a user who waits the calendar is that of the
\* month shown, both show his tasks as they are, and the file chosen and those to
\* choose from are of the document linked: the calendar and the files have no such
\* guard.
TasksShownAsAsked ==
    ui.page = "dashboard" =>
        /\ ~ui.list.loading => ui.list.of = ui.list.wanted
        /\ left.patient /\ Quiet =>
              /\ ui.calendar.of = ui.month
              /\ ui.calendar.items \in {{}, InMonths({ui.month})}
              /\ ui.list.items \in {{}, InMonths(Window[ui.settings.form])}
              /\ {ui.form.file, ui.form.files} \subseteq {None, ui.form.link}

\* What is stored: by the server, or by the browser when that has no endpoint.
Stored == IF db.api THEN db.settings
          ELSE IF ui.local = None THEN DefaultSettings ELSE ui.local

\* The two forms put the settings as a whole; neither undoes what the other has
\* saved, for a user who waits for one before he sends the other, and as long as
\* none is saved while the settings could not be loaded: then the defaults stand in,
\* the forms stay usable, and the first holiday puts the defaults over what the form
\* of the settings has saved.
FormsKeepEachOther ==
    ui.page = "dashboard" /\ left.patient /\ ~db.blind => Stored = db.meant
=============================================================================
