----------------------------- MODULE PhoneTasks -----------------------------
(***************************************************************************)
(* The phone's list of students to call (hooks/useTodayTasks.js in         *)
(* pages/mobile/MobileHome.jsx): loads numbered so that only the newest    *)
(* counts, a timer between a filter and its load, and the toast that takes *)
(* a result back with the filter of the moment it was shown.               *)
(***************************************************************************)
EXTENDS GroupPages

VARIABLES
  tasks,  \* state of useTodayTasks while MobileHome is there
  undo    \* the toast: the student, and the load it was given

TaskFilters == {"all", "overdue"}

\* GET /tasks/today: nobody called them yet; half of them are overdue.
TasksAnswer(f) ==
  InOrder({s \in Students : ~Handled(s) /\ (f = "overdue" => s % 2 = 0)})

groupVars == <<existing, hook, lists, bulk, editor>>

\* fetchTasks.
TaskLoad(t, f) ==
  Ask([t EXCEPT !.loading = TRUE, !.more = FALSE, !.error = FALSE],
      RequestOf("first", f, 0, PhonePage))

\* The first load does not wait for the timer.
TasksOpen == TaskLoad([rows |-> <<>>, total |-> 0, filter |-> "all", loading |-> TRUE,
                       more |-> FALSE, error |-> FALSE, timer |-> FALSE, reqs |-> {},
                       of |-> "all", seen |-> <<>>, steady |-> TRUE, doubt |-> {}], "all")

TasksSeen == page = "tasks" /\ ~tasks.loading /\ ~tasks.error

TasksChoose(f) ==
  /\ page = "tasks" /\ Click /\ f # tasks.filter
  /\ tasks' = [tasks EXCEPT !.filter = f, !.timer = TRUE]
  /\ UNCHANGED <<page, rec, elsewhere, groupVars, undo>>

TasksTimer ==
  /\ tasks # None /\ tasks.timer
  /\ tasks' = [TaskLoad(tasks, tasks.filter) EXCEPT !.timer = FALSE]
  /\ UNCHANGED <<page, clicks, rec, elsewhere, groupVars, undo>>

\* refetch, from the header, the error and the banner.
TasksRefresh ==
  /\ page = "tasks" /\ Click
  /\ tasks' = TaskLoad(tasks, tasks.filter)
  /\ UNCHANGED <<page, rec, elsewhere, groupVars, undo>>

\* The empty list offers all of them: it loads with the old overdue mark at
\* once, and again when the timer has seen the mark go.
TasksShowAll ==
  /\ TasksSeen /\ tasks.rows = <<>> /\ Click
  /\ tasks' = [TaskLoad(tasks, tasks.filter) EXCEPT !.filter = "all",
                 !.timer = @ \/ tasks.filter # "all"]
  /\ UNCHANGED <<page, rec, elsewhere, groupVars, undo>>

TaskTaken(r) ==
  /\ tasks # None /\ r \in tasks.reqs /\ r.answer = <<>>
  /\ LET all == TasksAnswer(r.filter)
         till == IF r.offset + r.limit < Len(all) THEN r.offset + r.limit ELSE Len(all)
     IN  tasks' = [tasks EXCEPT !.reqs = (@ \ {r}) \cup {[r EXCEPT !.answer =
            <<[rows |-> SubSeq(all, r.offset + 1, till), total |-> Len(all), seen |-> all]>>]}]
  /\ UNCHANGED <<page, clicks, rec, elsewhere, groupVars, undo>>

TaskShown(r) ==
  /\ tasks # None /\ r \in tasks.reqs /\ r.answer # <<>>
  /\ tasks' = IF r.kind = "first" THEN [FirstPage(tasks, r) EXCEPT !.loading = FALSE]
              ELSE [NextPage(tasks, r, NewRows(tasks, r)) EXCEPT !.more = FALSE]
  /\ UNCHANGED <<page, clicks, rec, elsewhere, groupVars, undo>>

\* Only a first page says that it failed.
TaskFails(r) ==
  /\ tasks # None /\ r \in tasks.reqs
  /\ tasks' = IF r.kind = "first"
              THEN [tasks EXCEPT !.error = TRUE, !.loading = FALSE, !.reqs = @ \ {r}]
              ELSE [tasks EXCEPT !.more = FALSE, !.reqs = @ \ {r}]
  /\ UNCHANGED <<page, clicks, rec, elsewhere, groupVars, undo>>

\* Mutant: the next page is asked for by its number, counted from the total.
NextOffsetOff(t) == Len(t.rows) + 1

NextOffset(t) == Len(t.rows)

\* loadMore, refused while any load counts.
TasksMore ==
  /\ TasksSeen /\ Click
  /\ tasks.reqs = {} /\ Len(tasks.rows) < tasks.total
  /\ tasks' = Ask([tasks EXCEPT !.more = TRUE],
                  RequestOf("more", tasks.filter, NextOffset(tasks), PhonePage))
  /\ UNCHANGED <<page, rec, elsewhere, groupVars, undo>>

\* A call from a row, up to its saved result (MobileDial): the list loads
\* again, and so will the toast with the same filter.
TaskCalled(s) ==
  /\ TasksSeen /\ s \in ToSet(tasks.rows) /\ ~Handled(s) /\ Click
  /\ rec' = [rec EXCEPT ![s].result = "spoke"]
  /\ undo' = [student |-> s, filter |-> tasks.filter, page |-> "home"]
  /\ tasks' = TaskLoad(tasks, tasks.filter)
  /\ UNCHANGED <<page, elsewhere, groupVars>>

ToastGone ==
  /\ undo # None /\ undo' = None
  /\ UNCHANGED <<page, clicks, rec, elsewhere, groupVars, tasks>>

\* The tabs keep the list of tasks.
GoPending ==
  /\ page = "tasks" /\ Click
  /\ page' = "pending"
  /\ PhoneListOpens
  /\ UNCHANGED <<server, saved, bulk, editor, tasks, undo>>

\* The list of handled students goes; the bar goes on sending.
Unmounted(b) == IF b = None THEN None ELSE [b EXCEPT !.shown = FALSE]

GoTasks ==
  /\ page = "pending" /\ Click
  /\ page' = "tasks"
  /\ list' = None /\ hook' = None /\ bulk' = Unmounted(bulk)
  /\ UNCHANGED <<server, filter, saved, editor, tasks, undo>>

TasksNext ==
  \/ \E f \in TaskFilters : TasksChoose(f)
  \/ TasksTimer \/ TasksRefresh \/ TasksShowAll \/ TasksMore \/ ToastGone
  \/ \E r \in IF tasks = None THEN {} ELSE tasks.reqs : TaskTaken(r) \/ TaskShown(r) \/ TaskFails(r)
  \/ \E s \in Students : TaskCalled(s)
  \/ GoPending \/ GoTasks
=============================================================================
