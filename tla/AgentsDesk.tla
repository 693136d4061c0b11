----------------------------- MODULE AgentsDesk -----------------------------
(***************************************************************************)
(* The desk of accounts (pages/admin/AgentManage.jsx and agents/), where   *)
(* employees are suspended, resumed, unlocked, edited and started on their *)
(* handover, and their leads reassigned, from a list that others make out  *)
(* of date.  The pane beside the list keeps a copy of the account it was   *)
(* opened for.                                                             *)
(***************************************************************************)
EXTENDS Console

CONSTANTS Agents, Leads

LeadsOf(w, a) == {l \in Leads : w.owner[l] = a}
Active(w) == {a \in Agents : w.acc[a].status = "active"}

Hired == [status |-> "active", version |-> 0, locked |-> TRUE, terms |-> "old"]
Closed == [agent |-> None, acc |-> None, rows |-> {}, picked |-> {}, to |-> None, loading |-> FALSE, acting |-> FALSE]

\* The page of a super administrator (another one is offered less), as it
\* comes, with the question to start a handover asked, or with the dialog of an
\* employee's leads open and loaded.
AgentsOpens ==
  /\ \E a \in Agents : world = [acc |-> [b \in Agents |-> Hired], owner |-> [l \in Leads |-> a], started |-> {}]
  /\ LET opened == [list |-> world.acc, loading |-> FALSE, filter |-> "active", reqs |-> {},
                    pane |-> None, tasks |-> None, waiting |-> FALSE, unfolded |-> None,
                    details |-> [l \in Leads |-> "none"], asking |-> None, acting |-> None,
                    kept |-> [a \in Agents |-> <<>>], keys |-> 0, recycle |-> Closed, form |-> None,
                    away |-> FALSE, blurred |-> {}]
     IN  \/ view = opened
         \/ \E a \in Agents :
              \/ view = [opened EXCEPT !.asking = [what |-> "start", agent |-> a, acc |-> Hired]]
              \/ view = [opened EXCEPT !.recycle.agent = a, !.recycle.acc = Hired,
                                       !.recycle.rows = LeadsOf(world, a)]

\* The dialogs lie over the page.
Desk == ~view.away /\ view.asking = None /\ view.recycle.agent = None /\ view.form = None

\* The accounts whose row, or whose copy in the pane, offers what it offers.
InList(a) == ~view.loading /\ view.filter \in {"all", view.list[a].status}
InPane(a) == view.pane # None /\ view.pane.agent = a /\ view.tasks # None /\ ~view.waiting
CopiesOf(a) ==
  (IF InList(a) THEN {view.list[a]} ELSE {}) \cup (IF InPane(a) THEN {view.pane.acc} ELSE {})

Send(v, kind, of) == [v EXCEPT !.reqs = Ask(@, kind, of)]

----------------------------------------------------------------------------
(* The list and the pane.                                                  *)

FetchAgents(v) == Send([v EXCEPT !.loading = TRUE], "list", None)

FilterStatus(f) ==
  Click /\ Desk /\ f # view.filter /\ view' = [view EXCEPT !.filter = f, !.pane = None]

AgentsTaken(r) == r.kind = "list" /\ Answered(r, world.acc) /\ UNCHANGED world

AgentsShown(r) ==
  Came(r, "list") /\ view' = [Without(view, r) EXCEPT !.list = r.answer[1], !.loading = FALSE]

AgentsFail(r) == Failed(r, "list") /\ view' = [Without(view, r) EXCEPT !.loading = FALSE]

\* The pane takes the copy it was clicked with; its leads are on their way.
Viewed(v, a, acc) ==
  Send([v EXCEPT !.pane = [agent |-> a, acc |-> acc], !.waiting = TRUE, !.tasks = None,
                 !.unfolded = None, !.details = [l \in Leads |-> "none"]], "tasks", a)

ViewAgentTasks(a) == Click /\ Desk /\ InList(a) /\ view' = Viewed(view, a, view.list[a])

TasksTaken(r) == r.kind = "tasks" /\ Answered(r, LeadsOf(world, r.of)) /\ UNCHANGED world

\* Whoever the pane is of by then.
TasksShown(r) ==
  Came(r, "tasks")
  /\ view' = [Without(view, r) EXCEPT !.tasks = [agent |-> r.of, leads |-> r.answer[1]], !.waiting = FALSE]

TasksFail(r) ==
  Failed(r, "tasks") /\ view' = [Without(view, r) EXCEPT !.tasks = None, !.waiting = FALSE]

TasksSeen == view.pane # None /\ view.tasks # None /\ ~view.waiting

LoadTaskDetail(v, l) == Send([v EXCEPT !.details[l] = "loading"], "detail", l)

ToggleTaskDetail(l) ==
  /\ Click /\ Desk /\ TasksSeen /\ l \in view.tasks.leads
  /\ LET unfolded == [view EXCEPT !.unfolded = l]
     IN  view' = IF view.unfolded = l THEN [view EXCEPT !.unfolded = None]
                 ELSE IF view.details[l] \in {"none", "error"} THEN LoadTaskDetail(unfolded, l)
                 ELSE unfolded

RetryDetail(l) ==
  /\ Click /\ Desk /\ TasksSeen /\ view.unfolded = l /\ view.details[l] = "error"
  /\ view' = LoadTaskDetail(view, l)

DetailTaken(r) == r.kind = "detail" /\ Answered(r, "shown") /\ UNCHANGED world

DetailShown(r) == Came(r, "detail") /\ view' = [Without(view, r) EXCEPT !.details[r.of] = "shown"]

DetailFails(r) == Failed(r, "detail") /\ view' = [Without(view, r) EXCEPT !.details[r.of] = "error"]

----------------------------------------------------------------------------
(* Employment.                                                             *)

\* The buttons of EmploymentActions, for one copy of an account.
LifecycleOffered(a, acc, status) == acc.status = status /\ view.acting # a

\* Mutant: the version is read when the request goes out.
BasisFresh(v, a, acc) == v.list[a].version

\* The version the administrator saw when clicking.
Basis(v, a, acc) == acc.version

Toggled(v, a, acc) ==
  Send([v EXCEPT !.acting = a], "toggle",
       [agent |-> a, to |-> IF acc.status = "active" THEN "suspended" ELSE "active",
        version |-> Basis(v, a, acc), seen |-> acc.version])

Suspend(a, acc) ==
  /\ Click /\ Desk /\ LifecycleOffered(a, acc, "active")
  /\ view' = [view EXCEPT !.asking = [what |-> "suspend", agent |-> a, acc |-> acc]]

Resume(a, acc) == Click /\ Desk /\ LifecycleOffered(a, acc, "suspended") /\ view' = Toggled(view, a, acc)

StartHandover(a, acc) ==
  /\ Click /\ Desk /\ LifecycleOffered(a, acc, "active")
  /\ view' = [view EXCEPT !.asking = [what |-> "start", agent |-> a, acc |-> acc]]

\* Mutant: every attempt makes a request of its own.
StartRequestNew(v, a, acc) == [version |-> acc.version, key |-> v.keys]

\* What was sent and never answered is sent again.
StartRequest(v, a, acc) ==
  IF v.kept[a] # <<>> THEN v.kept[a][1] ELSE [version |-> acc.version, key |-> v.keys]

\* The page loses track of an employee whose start crosses another one.
Started(v, a, acc) ==
  LET request == StartRequest(v, a, acc)
      crossed == \E r \in v.reqs : r.kind = "start" /\ r.of.agent = a
  IN  Send([v EXCEPT !.acting = a, !.kept[a] = <<request>>,
                     !.keys = IF request.key = @ THEN @ + 1 ELSE @,
                     !.blurred = IF crossed THEN @ \cup {a} ELSE @],
           "start", [agent |-> a, request |-> request])

\* A new password, from the pane: nothing else of the account changes.
HandleResetPassword(a) ==
  /\ Click /\ Desk /\ InPane(a)
  /\ view' = [view EXCEPT !.asking = [what |-> "reset", agent |-> a, acc |-> view.pane.acc]]

ResetTaken(r) == r.kind = "reset" /\ Answered(r, "ok") /\ UNCHANGED world

ResetDone(r) == Failed(r, "reset") /\ view' = Without(view, r)

ConfirmYes ==
  /\ Click /\ ~view.away /\ view.asking # None
  /\ LET v == [view EXCEPT !.asking = None]
         q == view.asking
     IN  view' = CASE q.what = "suspend" -> Toggled(v, q.agent, q.acc)
                   [] q.what = "start" -> Started(v, q.agent, q.acc)
                   [] q.what = "reset" -> Send(v, "reset", q.agent)

ConfirmNo == Click /\ ~view.away /\ view.asking # None /\ view' = [view EXCEPT !.asking = None]

\* PUT /admin/users/<id>: refused when the version is another one by now.
ToggleTaken(r) ==
  /\ r.kind = "toggle"
  /\ LET a == world.acc[r.of.agent]
     IN  IF a.version # r.of.version \/ a.status \notin {"active", "suspended"}
         THEN Answered(r, "conflict") /\ UNCHANGED world
         ELSE /\ Answered(r, "ok")
              /\ world' = IF a.status = r.of.to THEN world
                          ELSE [world EXCEPT !.acc[r.of.agent].status = r.of.to, !.acc[r.of.agent].version = @ + 1]

ToggleAnswered(r) == Came(r, "toggle") /\ view' = FetchAgents([Without(view, r) EXCEPT !.acting = None])

ToggleLost(r) == Failed(r, "toggle") /\ view' = [Without(view, r) EXCEPT !.acting = None]

\* POST .../offboarding/start: a key seen before is answered as it was.
StartTaken(r) ==
  /\ r.kind = "start"
  /\ LET a == r.of.agent
     IN  IF \E t \in world.started : t.key = r.of.request.key THEN Answered(r, "ok") /\ UNCHANGED world
         ELSE IF world.acc[a].version # r.of.request.version
                 \/ world.acc[a].status \notin {"active", "suspended"}
         THEN Answered(r, "conflict") /\ UNCHANGED world
         ELSE /\ Answered(r, "ok")
              /\ world' = [world EXCEPT !.started = @ \cup {[agent |-> a, key |-> r.of.request.key]},
                             !.acc[a].version = @ + 1,
                             !.acc[a].status = IF LeadsOf(world, a) = {} THEN "offboarded" ELSE "handover_pending"]

\* The page gives way to the handover centre.
StartShown(r) ==
  /\ Came(r, "start") /\ r.answer = <<"ok">>
  /\ view' = [Without(view, r) EXCEPT !.kept[r.of.agent] = <<>>, !.acting = None, !.away = TRUE]

StartRefused(r) ==
  /\ Came(r, "start") /\ r.answer = <<"conflict">>
  /\ view' = FetchAgents([Without(view, r) EXCEPT !.kept[r.of.agent] = <<>>, !.acting = None])

StartLost(r) == Failed(r, "start") /\ view' = [Without(view, r) EXCEPT !.acting = None]

\* A proxy answers for the service: the request is given up although it may
\* have been carried out.
StartCutShort(r) ==
  /\ Failed(r, "start")
  /\ view' = [Without(view, r) EXCEPT !.kept[r.of.agent] = <<>>, !.acting = None,
                                     !.blurred = @ \cup {r.of.agent}]

OpenBatch(a, acc) ==
  /\ Click /\ Desk /\ LifecycleOffered(a, acc, "handover_pending")
  /\ view' = Send([view EXCEPT !.acting = a], "batch", a)

BatchTaken(r) ==
  r.kind = "batch" /\ Answered(r, world.acc[r.of].status = "handover_pending") /\ UNCHANGED world

BatchShown(r) ==
  Came(r, "batch") /\ view' = [Without(view, r) EXCEPT !.acting = None, !.away = r.answer[1]]

BatchFails(r) == Failed(r, "batch") /\ view' = [Without(view, r) EXCEPT !.acting = None]

Unlock(a, acc) ==
  /\ Click /\ Desk /\ acc.locked
  /\ view' = Send(view, "unlock", [agent |-> a, paned |-> view.pane # None /\ view.pane.agent = a])

UnlockTaken(r) ==
  r.kind = "unlock" /\ Answered(r, "ok") /\ world' = [world EXCEPT !.acc[r.of.agent].locked = FALSE]

\* The copy in the pane is patched, whoever it is of by now: the page asks
\* only whom it was of when the button was pressed.
UnlockShown(r) ==
  /\ Came(r, "unlock")
  /\ LET v == FetchAgents(Without(view, r))
     IN  view' = IF r.of.paned /\ v.pane # None THEN [v EXCEPT !.pane.acc.locked = FALSE] ELSE v

UnlockFails(r) == Failed(r, "unlock") /\ view' = Without(view, r)

----------------------------------------------------------------------------
(* The form of an account: its name, password and permissions are "terms". *)

OpenEditModal(a, acc) ==
  Click /\ Desk /\ view' = [view EXCEPT !.form = [of |-> a, terms |-> acc.terms]]

OpenCreateModal == Click /\ Desk /\ view' = [view EXCEPT !.form = [of |-> None, terms |-> "old"]]

EditForm ==
  /\ Click /\ ~view.away /\ view.form # None /\ view.form.terms = "old"
  /\ view' = [view EXCEPT !.form.terms = "new"]

CloseForm == Click /\ ~view.away /\ view.form # None /\ view' = [view EXCEPT !.form = None]

HandleSave ==
  Click /\ ~view.away /\ view.form # None /\ view' = Send(view, "save", view.form)

\* A new account is none of Agents.
SaveTaken(r) ==
  /\ r.kind = "save" /\ Answered(r, "ok")
  /\ world' = IF r.of.of = None THEN world ELSE [world EXCEPT !.acc[r.of.of].terms = r.of.terms]

\* Any form closes, also one opened while this one was saved.
SaveShown(r) == Came(r, "save") /\ view' = FetchAgents([Without(view, r) EXCEPT !.form = None])

SaveFails(r) == Failed(r, "save") /\ view' = Without(view, r)

----------------------------------------------------------------------------
(* Reassigning the leads of an employee.                                   *)

FetchRecycle(v, a, after) ==
  Send([v EXCEPT !.recycle.loading = TRUE], "stale", [agent |-> a, after |-> after])

OpenRecycle(a, acc) ==
  /\ Click /\ Desk /\ acc.status = "active"
  /\ view' = FetchRecycle([view EXCEPT !.recycle = [Closed EXCEPT !.agent = a, !.acc = acc]], a, FALSE)

StaleTaken(r) == r.kind = "stale" /\ Answered(r, LeadsOf(world, r.of.agent)) /\ UNCHANGED world

\* After a reassignment the list of accounts follows, and the pane when it is
\* of the same employee; only then is the dialog free again.
Continued(v, r) ==
  IF ~r.of.after THEN v
  ELSE LET done == FetchAgents([v EXCEPT !.recycle.acting = FALSE])
       IN  IF v.pane # None /\ v.pane.agent = r.of.agent THEN Viewed(done, r.of.agent, v.recycle.acc)
           ELSE done

StaleShown(r) ==
  /\ Came(r, "stale")
  /\ view' = Continued([Without(view, r) EXCEPT !.recycle.rows = r.answer[1], !.recycle.picked = {},
                                                !.recycle.loading = FALSE], r)

\* The rows go, what was ticked of them stays.
StaleFails(r) ==
  /\ Failed(r, "stale")
  /\ view' = Continued([Without(view, r) EXCEPT !.recycle.rows = {}, !.recycle.loading = FALSE], r)

Recycling == ~view.away /\ view.recycle.agent # None

MayClose == ~view.recycle.acting

CloseRecycle ==
  /\ Click /\ Recycling /\ MayClose
  /\ view' = [view EXCEPT !.recycle = [Closed EXCEPT !.acting = view.recycle.acting,
                                                     !.loading = view.recycle.loading]]

RecycleTick(l) ==
  /\ Click /\ Recycling /\ ~view.recycle.loading /\ l \in view.recycle.rows
  /\ view' = [view EXCEPT !.recycle.picked = Flip(@, l)]

RecycleTickAll ==
  /\ Click /\ Recycling /\ ~view.recycle.loading /\ view.recycle.rows # {}
  /\ view' = [view EXCEPT !.recycle.picked = IF Cardinality(@) = Cardinality(view.recycle.rows) THEN {}
                                             ELSE view.recycle.rows]

RecycleTo(a) ==
  /\ Click /\ Recycling /\ view.recycle.picked # {} /\ view.list[a].status = "active" /\ a # view.recycle.to
  /\ view' = [view EXCEPT !.recycle.to = a]

Reassign(mode) ==
  /\ Click /\ Recycling /\ view.recycle.picked # {} /\ ~view.recycle.acting
  /\ mode = "manual" => view.recycle.to # None
  /\ view' = Send([view EXCEPT !.recycle.acting = TRUE], "reassign",
                  [agent |-> view.recycle.agent, leads |-> view.recycle.picked,
                   to |-> IF mode = "manual" THEN view.recycle.to ELSE None])

\* POST /admin/stale-reassign, whoever has the leads by now.
ReassignTaken(r) ==
  /\ r.kind = "reassign"
  /\ LET blocked == \E l \in r.of.leads : world.acc[world.owner[l]].status = "handover_pending"
         targets == IF r.of.to = None THEN Active(world) ELSE Active(world) \cap {r.of.to}
     IN  IF blocked \/ targets = {} THEN Answered(r, "refused") /\ UNCHANGED world
         ELSE /\ Answered(r, "ok")
              /\ \E new \in [r.of.leads -> targets] :
                   world' = [world EXCEPT !.owner = new @@ @]

ReassignShown(r) ==
  /\ Came(r, "reassign") /\ r.answer = <<"ok">>
  /\ view' = FetchRecycle(Without(view, r), r.of.agent, TRUE)

ReassignFails(r) ==
  Failed(r, "reassign") /\ view' = [Without(view, r) EXCEPT !.recycle.acting = FALSE]

----------------------------------------------------------------------------
OthersToggle(a) ==
  /\ Elsewhere /\ world.acc[a].status \in {"active", "suspended"}
  /\ world' = [world EXCEPT !.acc[a].status = IF @ = "active" THEN "suspended" ELSE "active",
                            !.acc[a].version = @ + 1]
  /\ UNCHANGED view

OthersStart(a) ==
  /\ Elsewhere /\ world.acc[a].status = "active" /\ LeadsOf(world, a) # {}
  /\ world' = [world EXCEPT !.acc[a].status = "handover_pending", !.acc[a].version = @ + 1]
  /\ UNCHANGED view

OthersAssign(l, a) ==
  /\ Elsewhere /\ a \in Active(world) \ {world.owner[l]}
  /\ world' = [world EXCEPT !.owner[l] = a]
  /\ UNCHANGED view

AgentsNext ==
  \/ \E f \in {"all", "active", "suspended", "handover_pending"} : FilterStatus(f)
  \/ \E a \in Agents : ViewAgentTasks(a) \/ HandleResetPassword(a) \/ RecycleTo(a) \/ OthersToggle(a) \/ OthersStart(a)
  \/ \E a \in Agents : \E acc \in CopiesOf(a) :
       \/ Suspend(a, acc) \/ Resume(a, acc) \/ StartHandover(a, acc) \/ OpenBatch(a, acc)
       \/ Unlock(a, acc) \/ OpenEditModal(a, acc) \/ OpenRecycle(a, acc)
  \/ \E l \in Leads : ToggleTaskDetail(l) \/ RetryDetail(l) \/ RecycleTick(l)
  \/ \E l \in Leads, a \in Agents : OthersAssign(l, a)
  \/ \E m \in {"auto", "manual"} : Reassign(m)
  \/ OpenCreateModal \/ ConfirmYes \/ ConfirmNo \/ EditForm \/ CloseForm \/ HandleSave \/ CloseRecycle \/ RecycleTickAll
  \/ ~view.away /\ \E r \in view.reqs :
       \/ AgentsTaken(r) \/ AgentsShown(r) \/ AgentsFail(r)
       \/ TasksTaken(r) \/ TasksShown(r) \/ TasksFail(r)
       \/ DetailTaken(r) \/ DetailShown(r) \/ DetailFails(r)
       \/ ToggleTaken(r) \/ ToggleAnswered(r) \/ ToggleLost(r)
       \/ StartTaken(r) \/ StartShown(r) \/ StartRefused(r) \/ StartLost(r) \/ StartCutShort(r)
       \/ BatchTaken(r) \/ BatchShown(r) \/ BatchFails(r)
       \/ UnlockTaken(r) \/ UnlockShown(r) \/ UnlockFails(r)
       \/ SaveTaken(r) \/ SaveShown(r) \/ SaveFails(r)
       \/ StaleTaken(r) \/ StaleShown(r) \/ StaleFails(r)
       \/ ResetTaken(r) \/ ResetDone(r)
       \/ ReassignTaken(r) \/ ReassignShown(r) \/ ReassignFails(r)

=============================================================================
