------------------------------ MODULE PhoneHome ------------------------------
(***************************************************************************)
(* A counsellor's tab on the phone, from list to student and back, or the  *)
(* list of handled students at the desk; with the counsellor's other       *)
(* devices changing students meanwhile.                                    *)
(***************************************************************************)
EXTENDS PhoneStudent

phoneVars == <<page, clicks, server, hook, lists, bulk, editor, tasks, undo, stud>>

Fresh(handled) ==
  [result |-> IF handled THEN "spoke" ELSE "new", stage |-> "first", help |-> FALSE,
   plan |-> IF handled THEN "open" ELSE "none", notes |-> 0, visited |-> FALSE, groups |-> {}]

Init ==
  /\ clicks = 0 /\ elsewhere = 0
  /\ \E handled \in BOOLEAN : rec = [s \in Students |-> Fresh(handled)]
  /\ existing = [g \in Groups |-> IF g \in First THEN "kept" ELSE "none"]
  /\ saved = None /\ bulk = None /\ editor = None /\ stud = None /\ undo = None
  \* sessionStorage may hold a filter from before the tab was loaded again.
  /\ \/ /\ page = "tasks" /\ tasks = TasksOpen /\ hook = None /\ list = None
        /\ filter \in {"all"} \cup First
     \/ /\ page = "handled" /\ Handled(CHOOSE s \in Students : TRUE)
        /\ tasks = None /\ hook = HookOpens /\ list = DeskListOpens
        /\ filter \in {"all", "ungrouped"} \cup First

\* The counsellor's other devices take a student on, or back.
ElsewhereHandles(s) ==
  /\ elsewhere < MaxElsewhere /\ elsewhere' = elsewhere + 1
  /\ rec' = [rec EXCEPT ![s].result = IF @ = "new" THEN "spoke" ELSE "new"]
  /\ stud' = IF stud = None THEN None ELSE [stud EXCEPT !.doubt = @ \cup {"result"}]
  /\ UNCHANGED <<page, clicks, existing, hook, lists, bulk, editor, tasks, undo>>

Next ==
  \/ GroupsNext /\ UNCHANGED <<tasks, undo, stud>>
  \/ TasksNext /\ UNCHANGED stud
  \/ StudentNext
  \/ \E s \in Students : ElsewhereHandles(s)

Spec == Init /\ [][Next]_phoneVars

----------------------------------------------------------------------------

Quiet(l) == l.reqs = {} /\ ~l.timer /\ ~l.error

Contiguous(l) ==
  Quiet(l) /\ l.steady
    => IsPrefix(l.rows, l.seen) /\ (Len(l.rows) < l.total) = (Len(l.rows) < Len(l.seen))

\* When the pages of a list were cut from the same students, no page leaves a
\* student out between it and the one before, and the button for more is there
\* while students are missing, also after rows were taken off for a group.
NothingSkipped == (list # None => Contiguous(list)) /\ (tasks # None => Contiguous(tasks))

\* Under the filter for students without a group no row loaded for it has one,
\* unless the list was never told: a bar that failed half way, or one that
\* another list started (handleBulkApplied, personal-groups-changed).
UngroupedIsTrue ==
  list # None /\ filter = "ungrouped" /\ list.of = filter
    => \A s \in ToSet(list.rows) : s \in list.doubt \/ rec[s].groups = {}

\* The bar ends its selection only when every student picked is in the group;
\* a batch that failed in between is not passed over (applyToGroup).
BarMeansAll ==
  [][bulk # None /\ bulk' = None /\ bulk.shown /\ list'.picked = {} /\ list.picked # {} /\ clicks' = clicks
       => \A s \in bulk.all : bulk.group \in rec'[s].groups]_phoneVars

\* A student's page at rest shows what the service holds of everything it was
\* told since: patched or loaded, however writes of the page crossed.
DetailTrue ==
  stud # None /\ ~stud.loading /\ ~stud.error /\ stud.jobs = {}
    => \A f \in Fields \ stud.doubt : stud.shown[f] = rec[stud.student][f]
=============================================================================
