----------------------------- MODULE GroupPages -----------------------------
(***************************************************************************)
(* The parts of PersonalGroups.jsx that reach the list beside them: the    *)
(* filter with its management of groups, the bar's end, and the events     *)
(* that make the hook and the list load again.                             *)
(***************************************************************************)
EXTENDS HandledLists

OnList == page \in {"pending", "handled"}
Around == <<page, elsewhere, editor, bulk>>

Filtered(f) == IF page = "pending" THEN PhoneFiltered(f) ELSE DeskFiltered
Told(l, members, g) == CASE page = "pending" -> PhoneTold(l, members, g)
                         [] page = "handled" -> DeskTold(l, members, g)
                         [] OTHER -> l
Applied(l, b) == IF page = "pending" THEN PhoneApplied(l, b) ELSE DeskApplied(l, b)
BarShown == IF page = "pending" THEN PhoneSees /\ list.picking ELSE page = "handled"

\* The filter goes to f, or stays.
FilterTo(f) ==
  IF f = filter THEN UNCHANGED lists
  ELSE filter' = f /\ list' = Filtered(f) /\ saved' = IF page = "pending" THEN None ELSE saved

\* A load of the groups ends; the filter may lose its group by it.
HookShown(i) ==
  /\ hook # None /\ i \in DOMAIN hook.loads /\ hook.loads[i] # <<>>
  /\ hook' = HookAnswered(hook, i, hook.loads[i][1])
  /\ IF OnList /\ Dropped(hook') THEN FilterTo("all") ELSE UNCHANGED lists
  /\ UNCHANGED <<clicks, Around, rec, existing>>

HookFails(i) ==
  /\ hook # None /\ i \in DOMAIN hook.loads
  /\ hook' = HookAnswered(hook, i, {})
  /\ IF OnList /\ Dropped(hook') THEN FilterTo("all") ELSE UNCHANGED lists
  /\ UNCHANGED <<clicks, Around, rec, existing>>

HookTaken(i) ==
  /\ hook # None /\ i \in DOMAIN hook.loads /\ hook.loads[i] = <<>>
  /\ hook' = [hook EXCEPT !.loads[i] = <<Existing>>]
  /\ UNCHANGED <<clicks, Around, rec, existing, lists>>

\* The groups the filter offers to choose, rename and delete.
GroupsOffered == IF OnList THEN hook.groups ELSE {}

\* handleCreate: the new group becomes the filter.
FilterCreate(g) ==
  /\ OnList /\ Click /\ Created(g)
  /\ \/ hook' = WithGroup(hook, g) /\ FilterTo(g)
     \/ UNCHANGED <<hook, lists>>
  /\ UNCHANGED Around

\* handleRename: a name is not kept here, the event is.
FilterRename(g) ==
  /\ Click /\ g \in GroupsOffered \cap Existing
  /\ hook' = Reloaded(hook)
  /\ list' = Told(list, FALSE, g)
  /\ UNCHANGED <<Around, rec, existing, filter, saved>>

\* handleDelete, once confirmed.
FilterDelete(g) ==
  /\ Click /\ g \in GroupsOffered /\ Deleted(g)
  /\ \/ /\ hook' = WithoutGroup(hook, g)
        /\ IF filter = g THEN FilterTo("all") ELSE UNCHANGED lists
     \/ UNCHANGED <<hook, lists>>
  /\ UNCHANGED Around

----------------------------------------------------------------------------
\* What the bar needs to start: rows picked, and nothing still being sent.
BarFree == OnList /\ BarShown /\ list.picked # {} /\ bulk = None

Started(g) == [group |-> g, left |-> list.picked, all |-> list.picked,
               filter |-> filter, shown |-> TRUE]

BulkStart(g) ==
  /\ BarFree /\ Click /\ g \in hook.groups
  /\ bulk' = Started(g)
  /\ UNCHANGED <<page, server, hook, lists, editor>>

\* createAndApply
BulkCreate(g) ==
  /\ BarFree /\ Click /\ Created(g)
  /\ hook' = WithGroup(hook, g)
  /\ bulk' = Started(g)
  /\ UNCHANGED <<page, elsewhere, lists, editor>>

\* For the properties: the rows picked under the filter they were loaded for
\* are settled by onApplied, all others wait for the reload.
HeardOf(l, b) ==
  IF b.shown /\ l.of = b.filter THEN [l EXCEPT !.doubt = @ \ b.all] ELSE Unheard(l, b.left)

\* The last batch: the event first, then onApplied of the list that started
\* it, which may be gone from the screen.
BatchesDone ==
  /\ bulk # None /\ bulk.left \in Batches
  /\ Join(bulk.group, bulk.left)
  /\ list' = IF ~OnList THEN list
             ELSE Told(HeardOf(IF bulk.shown THEN Applied(list, bulk) ELSE list, bulk), TRUE, bulk.group)
  /\ hook' = IF hook = None THEN hook ELSE Reloaded(hook)
  /\ bulk' = None
  /\ UNCHANGED <<page, clicks, elsewhere, existing, filter, saved, editor>>

GroupsNext ==
  \/ \E i \in 1 .. 3 : HookTaken(i) \/ HookShown(i) \/ HookFails(i)
  \/ \E g \in Groups : \/ FilterCreate(g) \/ FilterRename(g) \/ FilterDelete(g)
                       \/ BulkStart(g) \/ BulkCreate(g)
  \/ BatchesDone
  \/ (BatchSaved \/ BatchFails) /\ UNCHANGED saved
  \/ (EditorTaken \/ EditorLoaded \/ ToggleSaved \/ ToggleFails) /\ UNCHANGED saved
  \/ \E g \in Groups : (Toggle(g) \/ CreateAndInclude(g)) /\ UNCHANGED saved
  \/ \E r \in IF list = None THEN {} ELSE list.reqs :
       \/ ListTaken(r) \/ PhoneFirstShown(r) \/ PhoneMoreShown(r) \/ PhoneListFails(r)
       \/ DeskShown(r) \/ DeskListFails(r)
  \/ PhoneRetry \/ PhoneMore \/ PhonePickMode \/ PhonePickAll
  \/ DeskTimer \/ DeskMore \/ DeskPickMode \/ DeskPickAll
  \/ \E f \in Filters : PhoneChoose(f) \/ DeskChoose(f)
  \/ \E s \in Students : PhonePick(s) \/ DeskPick(s)
=============================================================================
