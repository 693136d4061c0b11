--------------------------- MODULE PersonalGroups ---------------------------
(***************************************************************************)
(* Private groups of students in a counsellor's tab                        *)
(* (components/PersonalGroups.jsx): the hook each of its three components  *)
(* keeps its own list of groups with, the bar that puts many students into *)
(* a group, a batch at a time, and the editor of one student's groups.     *)
(*                                                                         *)
(* The pages that show these components are PhoneTasks and HandledLists.   *)
(* Names and colours of groups are left out.  A write to the groups        *)
(* themselves is one step; the batches of the bar, the editor's writes and *)
(* every load are apart from their answers.                                *)
(***************************************************************************)
EXTENDS Integers, Sequences, FiniteSets, SequencesExt

CONSTANTS
  Students,   \* numbers; every list is in their order
  Groups,     \* the groups there may ever be
  First,      \* the groups at the start
  PhonePage,  \* rows a list of the phone asks for at a time
  DeskPage,   \* and the list at the desk
  MaxClicks,  \* what the counsellor does in a behaviour
  MaxElsewhere \* what the counsellor's other devices do in a behaviour

ASSUME GroupsAssumption == First \subseteq Groups /\ IsFiniteSet(Groups) /\ {"all", "ungrouped"} \cap Groups = {}
ASSUME StudentsAssumption == Students \subseteq Nat \ {0} /\ IsFiniteSet(Students)
ASSUME BoundsAssumption == {PhonePage, DeskPage} \subseteq Nat \ {0} /\ MaxClicks \in Nat /\ MaxElsewhere \in Nat

VARIABLES
  page,      \* the page in front
  clicks,
  elsewhere,
  rec,       \* the service's students
  existing,  \* the service's groups: none yet, kept or archived
  hook,      \* what usePersonalGroups of the page knows
  filter,    \* selectedGroupId: "all", "ungrouped" or a group
  list,      \* the list of handled students, on the page that has one
  bulk,      \* the bar's batches still to be sent
  editor     \* the groups of the student in front

server == <<rec, existing, elsewhere>>

None == [none |-> TRUE]
Filters == {"all", "ungrouped"} \cup Groups

\* What the counsellor does is counted.
Click == clicks < MaxClicks /\ clicks' = clicks + 1

Handled(s) == rec[s].result # "new"

\* A set of numbers in their order.
InOrder(S) ==
  [n \in 1 .. Cardinality(S) |-> CHOOSE s \in S : Cardinality({t \in S : t <= s}) = n]

\* GET /tasks/handled under a filter.
InFilter(s, f) == f = "all" \/ (f = "ungrouped" /\ rec[s].groups = {}) \/ f \in rec[s].groups
HandledAnswer(f) == InOrder({s \in Students : Handled(s) /\ InFilter(s, f)})

----------------------------------------------------------------------------
(* usePersonalGroups.  Its loads carry no number: any may be the last.     *)

HookOpens == [groups |-> {}, loading |-> TRUE, loads |-> <<<<>>>>]

\* reload, at the start and at every 'personal-groups-changed'.
Reloaded(h) == [h EXCEPT !.loading = TRUE, !.loads = Append(@, <<>>)]

HookAnswered(h, i, groups) ==
  [groups |-> groups, loading |-> FALSE, loads |-> RemoveAt(h.loads, i)]

\* PersonalGroupFilter's effect: a filter whose group is gone is given up.
Dropped(h) == filter \in Groups /\ ~h.loading /\ filter \notin h.groups

\* createGroup and deleteGroup, as the service does them: a group that is
\* deleted is archived with its memberships, and does not come back.
Existing == {g \in Groups : existing[g] = "kept"}
Created(g) == existing[g] = "none" /\ existing' = [existing EXCEPT ![g] = "kept"] /\ UNCHANGED rec
Deleted(g) == /\ g \in Existing /\ existing' = [existing EXCEPT ![g] = "archived"]
              /\ rec' = [s \in Students |-> [rec[s] EXCEPT !.groups = @ \ {g}]]

\* What the hook keeps after a write that succeeded; its event reloads it.
WithGroup(h, g) == Reloaded([h EXCEPT !.groups = @ \cup {g}])
WithoutGroup(h, g) == Reloaded([h EXCEPT !.groups = @ \ {g}])

----------------------------------------------------------------------------
(* PersonalGroupBulkBar: the batches of a selection, one after the other.  *)

BatchSize == 1

\* The students of the next batch; the order of a selection is left open.
Batches ==
  IF Cardinality(bulk.left) <= BatchSize THEN {bulk.left}
  ELSE {ids \in SUBSET bulk.left : Cardinality(ids) = BatchSize}

\* POST members: the whole batch joins, or the group is gone.
Join(g, ids) ==
  /\ g \in Existing
  /\ rec' = [s \in Students |-> IF s \in ids THEN [rec[s] EXCEPT !.groups = @ \cup {g}] ELSE rec[s]]

\* Mutant: a batch that fails does not stop the others.
StoppedNot(b, ids) == IF ids = b.left THEN b ELSE [b EXCEPT !.left = @ \ ids]

\* A batch that fails, with the answer lost or not sent on, ends the bar's work.
Stopped(b, ids) == None

\* For the properties: students whose groups changed without a word to the
\* list since its rows, or an answer on its way, were read.
Unheard(l, ids) ==
  IF l = None THEN None
  ELSE [l EXCEPT !.doubt = @ \cup ids, !.reqs = {[r EXCEPT !.doubt = @ \cup ids] : r \in @}]

BatchSaved ==
  /\ bulk # None
  /\ \E ids \in Batches \ {bulk.left} :
       /\ Join(bulk.group, ids)
       /\ bulk' = [bulk EXCEPT !.left = @ \ ids]
       /\ list' = Unheard(list, ids)
  /\ UNCHANGED <<page, clicks, elsewhere, existing, hook, filter, editor>>

BatchFails ==
  /\ bulk # None
  /\ \E ids \in Batches :
       /\ bulk' = Stopped(bulk, ids)
       /\ \/ UNCHANGED <<rec, list>>
          \/ Join(bulk.group, ids) /\ list' = Unheard(list, ids)
  /\ UNCHANGED <<page, clicks, elsewhere, existing, hook, filter, editor>>

----------------------------------------------------------------------------
(* PersonalGroupMembershipEditor.                                          *)

EditorOpens(s) == [student |-> s, ids |-> {}, loading |-> TRUE, answer |-> <<>>, saving |-> None]

\* What it offers: nothing while anything loads, and one change at a time.
EditorFree == editor # None /\ ~hook.loading /\ ~editor.loading /\ editor.saving = None

EditorTaken ==
  /\ editor # None /\ editor.loading /\ editor.answer = <<>>
  /\ editor' = [editor EXCEPT !.answer = <<rec[editor.student].groups>>]
  /\ UNCHANGED <<page, clicks, server, hook, filter, list, bulk>>

EditorLoaded ==
  /\ editor # None /\ editor.loading
  /\ \/ /\ editor.answer # <<>>
        /\ editor' = [editor EXCEPT !.ids = editor.answer[1], !.loading = FALSE]
     \/ editor' = [editor EXCEPT !.ids = {}, !.loading = FALSE]
  /\ UNCHANGED <<page, clicks, server, hook, filter, list, bulk>>

Toggle(g) ==
  /\ Click /\ EditorFree /\ g \in hook.groups
  /\ editor' = [editor EXCEPT !.saving = [group |-> g, included |-> g \in editor.ids]]
  /\ UNCHANGED <<page, server, hook, filter, list, bulk>>

\* createAndInclude makes the group first.
CreateAndInclude(g) ==
  /\ Click /\ EditorFree /\ Created(g)
  /\ hook' = WithGroup(hook, g)
  /\ editor' = [editor EXCEPT !.saving = [group |-> g, included |-> FALSE]]
  /\ UNCHANGED <<page, elsewhere, filter, list, bulk>>

\* DELETE or POST of one membership, when the service accepts it.
EditorWrite ==
  LET g == editor.saving.group
  IN  IF editor.saving.included
      THEN /\ g \in rec[editor.student].groups
           /\ rec' = [rec EXCEPT ![editor.student].groups = @ \ {g}]
      ELSE Join(g, {editor.student})

\* What becomes of a write that is on its way when the editor goes.
Orphaned(r) ==
  IF editor = None \/ editor.saving = None THEN {r}
  ELSE {r, [r EXCEPT ![editor.student].groups =
              IF editor.saving.included THEN @ \ {editor.saving.group}
              ELSE @ \cup ({editor.saving.group} \cap Existing)]}

Ticked(e) == IF e.saving.included THEN e.ids \ {e.saving.group} ELSE e.ids \cup {e.saving.group}

ToggleSaved ==
  /\ editor # None /\ editor.saving # None
  /\ EditorWrite
  /\ editor' = [editor EXCEPT !.ids = Ticked(editor), !.saving = None]
  /\ hook' = Reloaded(hook)
  /\ UNCHANGED <<page, clicks, elsewhere, existing, filter, list, bulk>>

ToggleFails ==
  /\ editor # None /\ editor.saving # None
  /\ UNCHANGED rec \/ EditorWrite
  /\ editor' = [editor EXCEPT !.saving = None]
  /\ UNCHANGED <<page, clicks, elsewhere, existing, hook, filter, list, bulk>>
=============================================================================
