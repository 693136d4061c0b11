---------------------------- MODULE PhoneStudent ----------------------------
(***************************************************************************)
(* A student's page on the phone (pages/mobile/MobileStudentDetail.jsx).   *)
(* It loads the whole student; a change of the workflow is patched into    *)
(* what it shows, every other write loads it again, and while it loads     *)
(* nothing else is on the screen, the editor of groups included.           *)
(***************************************************************************)
EXTENDS PhoneTasks

VARIABLE stud  \* the page's state, or None

Fields == {"result", "stage", "help", "plan", "notes", "visited"}

\* What writes of the page do to the student, each when it may.
Effect(ops, r) ==
  [r EXCEPT
     !.result = CASE "enroll" \in ops -> "enrolled" [] "speak" \in ops -> "spoke" [] OTHER -> @,
     !.stage = CASE "enroll" \in ops -> "enrolled" [] "advance" \in ops -> "advanced" [] OTHER -> @,
     !.help = IF "help" \in ops THEN ~@ ELSE @,
     !.plan = CASE @ = "none" \/ "drop" \in ops -> "none" [] "complete" \in ops -> "done" [] OTHER -> @,
     !.notes = CASE "note" \in ops /\ "erase" \notin ops -> @ + 1
                 [] "erase" \in ops /\ "note" \notin ops /\ @ > 0 -> @ - 1
                 [] OTHER -> @,
     !.visited = IF "visit" \in ops THEN TRUE ELSE @]

Workflow == {"speak", "enroll", "advance", "help", "complete"}
Deletes == {"erase", "drop"}

\* The mark that is set while a write is on its way.
Busy(op) == CASE op \in Workflow -> Workflow [] op \in Deletes -> Deletes [] OTHER -> {op}

studVars == <<page, clicks, server, hook, lists, bulk, editor, tasks, undo>>

\* loadDetail: the page goes blank, and the editor of groups with it.
DetailLoad(d) ==
  [d EXCEPT !.loading = TRUE, !.error = FALSE, !.reqs = Superseded(@) \cup {<<>>}]
EditorGone == editor' = None /\ hook' = None

DetailSeen == stud # None /\ ~stud.loading /\ ~stud.error

\* openStudentDetail, from either list of the phone.
OpenStudent(s) ==
  /\ Click
  /\ \/ page = "tasks" /\ TasksSeen /\ s \in ToSet(tasks.rows) /\ UNCHANGED saved
     \/ /\ PhoneSees /\ ~list.picking /\ s \in ToSet(list.rows)
        /\ saved' = [filter |-> filter, rows |-> list.rows, total |-> list.total]
  /\ page' = "student"
  /\ stud' = DetailLoad([student |-> s, shown |-> None, loading |-> TRUE, error |-> FALSE,
                         reqs |-> {}, jobs |-> {}, doubt |-> {}, from |-> page])
  /\ tasks' = None /\ list' = None /\ hook' = None /\ bulk' = Unmounted(bulk)
  /\ undo' = IF undo = None THEN None ELSE [undo EXCEPT !.page = "gone"]
  /\ UNCHANGED <<server, filter, editor>>

DetailTaken ==
  /\ stud # None /\ <<>> \in stud.reqs
  /\ stud' = [stud EXCEPT !.reqs = {<<rec[stud.student]>>}]
  /\ UNCHANGED studVars

\* The editor of groups appears with the rest of the page.
DetailShown(a) ==
  /\ stud # None /\ a \in stud.reqs /\ a # <<>>
  /\ stud' = [stud EXCEPT !.shown = a[1], !.loading = FALSE, !.reqs = {},
                          !.doubt = {f \in Fields : a[1][f] # rec[stud.student][f]}]
  /\ hook' = HookOpens /\ editor' = EditorOpens(stud.student)
  /\ UNCHANGED <<page, clicks, server, lists, bulk, tasks, undo>>

DetailFails ==
  /\ stud # None /\ stud.reqs # {}
  /\ stud' = [stud EXCEPT !.error = TRUE, !.loading = FALSE, !.reqs = {}]
  /\ UNCHANGED studVars

DetailRetry ==
  /\ stud # None /\ stud.error /\ Click
  /\ stud' = DetailLoad(stud)
  /\ UNCHANGED <<page, server, hook, lists, bulk, editor, tasks, undo>>

\* What the page offers of what it shows.
WorkflowOffers(op) == op = "advance" => stud.shown.stage = "first"
NoteOffers(op) == op = "erase" => stud.shown.notes > 0
PlanOffers(op) ==
  /\ op = "complete" => stud.shown.plan = "open"
  /\ op = "drop" => stud.shown.plan # "none"

Offered(op) == WorkflowOffers(op) /\ NoteOffers(op) /\ PlanOffers(op)

StudentSend(op) ==
  /\ DetailSeen /\ Offered(op) /\ stud.jobs \cap Busy(op) = {}
  /\ Click
  /\ stud' = [stud EXCEPT !.jobs = @ \cup {op}]
  /\ UNCHANGED <<page, server, hook, lists, bulk, editor, tasks, undo>>

\* Mutant: the mark is turned over on the screen.
TurnedOver(op, shown, r) ==
  IF op = "help" THEN [shown EXCEPT !.help = ~@]
  ELSE [shown EXCEPT !.result = r.result, !.stage = r.stage, !.plan = IF op = "complete" THEN "done" ELSE @]

\* patchStudent and patchFollowUp, from the answer.
PatchedDetail(op, shown, r) ==
  CASE op \in {"speak", "enroll"} -> [shown EXCEPT !.result = r.result, !.stage = r.stage]
    [] op = "advance" -> [shown EXCEPT !.stage = "advanced"]
    [] op = "help" -> [shown EXCEPT !.help = r.help]
    [] op = "complete" -> [shown EXCEPT !.plan = "done"]

ToldFields(op) ==
  CASE op \in {"speak", "enroll"} -> {"result", "stage"} [] op = "advance" -> {"stage"}
    [] op = "help" -> {"help"} [] op = "complete" -> {"plan"}

\* A result, a stage, a call for help or a finished plan was saved.
WorkflowSaved(op) ==
  /\ stud # None /\ op \in stud.jobs \cap Workflow
  /\ op = "complete" => rec[stud.student].plan # "none"
  /\ rec' = [rec EXCEPT ![stud.student] = Effect({op}, @)]
  /\ stud' = [stud EXCEPT !.jobs = @ \ {op}, !.doubt = @ \ ToldFields(op),
                          !.shown = PatchedDetail(op, @, rec'[stud.student])]
  /\ undo' = IF op = "speak" /\ ~Handled(stud.student)
             THEN [student |-> stud.student, filter |-> "all", page |-> "student"] ELSE undo
  /\ UNCHANGED <<page, clicks, existing, elsewhere, hook, lists, bulk, editor, tasks>>

\* A note, a visit or a deletion was saved: the page loads again.
DetailSaved(op) ==
  /\ stud # None /\ op \in stud.jobs \ Workflow
  /\ rec' \in Orphaned([rec EXCEPT ![stud.student] = Effect({op}, @)])
  /\ stud' = DetailLoad([stud EXCEPT !.jobs = @ \ {op}])
  /\ EditorGone
  /\ UNCHANGED <<page, clicks, existing, elsewhere, lists, bulk, tasks, undo>>

JobFails(op) ==
  /\ stud # None /\ op \in stud.jobs
  /\ \/ UNCHANGED rec /\ stud' = [stud EXCEPT !.jobs = @ \ {op}]
     \/ /\ rec' = [rec EXCEPT ![stud.student] = Effect({op}, @)]
        /\ stud' = [stud EXCEPT !.jobs = @ \ {op}, !.doubt = Fields]
  /\ UNCHANGED <<page, clicks, existing, elsewhere, hook, lists, bulk, editor, tasks, undo>>

\* Back to the list it was opened from; writes still on their way are taken
\* by the service or lost.
LeaveStudent ==
  /\ page = "student" /\ Click
  /\ \E taken \in SUBSET stud.jobs :
       rec' \in Orphaned([rec EXCEPT ![stud.student] = Effect(taken, @)])
  /\ page' = stud.from /\ stud' = None /\ editor' = None
  /\ tasks' = TasksOpen
  /\ IF stud.from = "pending" THEN PhoneListOpens ELSE hook' = None /\ UNCHANGED <<list, filter>>
  /\ undo' = IF undo = None THEN None ELSE [undo EXCEPT !.page = "gone"]
  /\ UNCHANGED <<elsewhere, existing, saved, bulk>>

\* The toast takes the result back, and tells the page that showed it while
\* that page is there.
Undo ==
  /\ undo # None /\ Click
  /\ undo' = None
  /\ rec[undo.student].result = "spoke"
  /\ LET back == [rec EXCEPT ![undo.student].result = "new"]
     IN \/ /\ page = "student" /\ undo.page = "student"
           /\ rec' \in Orphaned(back)
           /\ stud' = DetailLoad([stud EXCEPT !.shown.result = "new"])
           /\ EditorGone /\ UNCHANGED tasks
        \/ /\ page = "student" /\ undo.page # "student"
           /\ rec' = back
           /\ stud' = IF undo.student # stud.student THEN stud
                      ELSE [stud EXCEPT !.doubt = @ \cup {"result"}]
           /\ UNCHANGED <<tasks, editor, hook>>
        \/ /\ page # "student"
           /\ rec' = back
           /\ tasks' = IF undo.page = "home" 
                       THEN TaskLoad(tasks, undo.filter) ELSE tasks
           /\ UNCHANGED <<stud, editor, hook>>
  /\ UNCHANGED <<page, existing, elsewhere, lists, bulk>>

StudentNext ==
  \/ \E s \in Students : OpenStudent(s)
  \/ DetailTaken \/ DetailFails \/ DetailRetry \/ LeaveStudent \/ Undo
  \/ stud # None /\ \E a \in stud.reqs : DetailShown(a)
  \/ \E op \in Workflow \cup Deletes \cup {"note", "visit"} :
       StudentSend(op) \/ WorkflowSaved(op) \/ DetailSaved(op) \/ JobFails(op)
=============================================================================
