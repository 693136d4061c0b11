----------------------------- MODULE PhoneProofs -----------------------------
(***************************************************************************)
(* A counsellor's tab, for any students, groups, pages and clicks.         *)
(*                                                                         *)
(* The invariant has a part for each of the properties.  DetailInv is      *)
(* about the page of a student: outside `doubt` it shows the table, and    *)
(* what an answer brings is a whole student.  ListsInv is about the lists: *)
(* as long as nothing came in between, the rows are the first of the       *)
(* students they were cut from, in their order, and the one request on its *)
(* way goes on where the rows end, so that its page neither skips nor      *)
(* repeats; under "ungrouped" every row is in no group or in doubt, and so *)
(* is every row of an answer.  BarInv is about the bar: who is not left to *)
(* send has joined, unless the group was deleted, for a deleted group      *)
(* never returns.                                                          *)
(***************************************************************************)
EXTENDS PhoneHome, FiniteSetTheorems, SequenceTheorems, TLAPS

\* What a record of the service has, and what a student's page may do to it.
RecordFields == Fields \cup {"groups"}

\* A table of the service's students.
Table(t) ==
  DOMAIN t = Students /\ \A s \in Students : DOMAIN t[s] = RecordFields /\ t[s].groups \subseteq Groups

\* Two tables that differ in groups only, or in fields only.
SameFields(t, u) == \A s \in Students : \A f \in Fields : u[s][f] = t[s][f]
SameGroups(t, u) == \A s \in Students : u[s].groups = t[s].groups

\* The jobs that a student's page can send.
Ops == Workflow \cup Deletes \cup {"note", "visit"}
\* What a student's page keeps.
StudFields == {"student", "shown", "loading", "error", "reqs", "jobs", "doubt", "from"}

\* A student's page: what a job still to be answered was offered on, and what
\* an answer brings, is a whole student.
DetailWhole(d) ==
  /\ StudFields \subseteq DOMAIN d /\ d.student \in Students /\ d.jobs \subseteq Ops /\ d.from \in {"tasks", "pending"}
  /\ \A a \in d.reqs : a # <<>> => DOMAIN a[1] = RecordFields
  /\ d.jobs # {} \/ (~d.loading /\ ~d.error) => Fields \subseteq DOMAIN d.shown
\* At rest it shows what a table holds of everything it was told.
DetailTold(d, t) ==
  ~d.loading /\ ~d.error => \A f \in Fields \ d.doubt : d.shown[f] = t[d.student][f]

\* Where things are in front.
Places ==
  /\ list # None => page \in {"pending", "handled"}
  /\ stud # None <=> page = "student"
  /\ editor # None => page = "student"

\* Students in the order of the table, and rows that are its first ones.
Ascending(q) == \A i, j \in 1 .. Len(q) : i < j => q[i] < q[j]
Begins(q, whole) == Len(q) <= Len(whole) /\ \A i \in 1 .. Len(q) : q[i] = whole[i]

\* What a list keeps of its pages, and a request of the list it was sent for.
PageFields == {"rows", "total", "reqs", "of", "seen", "steady", "doubt"}
RequestFields == {"kind", "filter", "offset", "limit", "answer", "doubt"}

\* A page as it was cut: from students in order, of whom only free ones count
\* as being without a group.
Cut(a, r, free) ==
  /\ a.rows \in Seq(Students) /\ a.seen \in Seq(Students)
  /\ Ascending(a.seen) /\ a.total = Len(a.seen)
  /\ \A i \in 1 .. Len(a.rows) : r.offset + i <= Len(a.seen) /\ a.rows[i] = a.seen[r.offset + i]
  /\ r.filter = "ungrouped" => a.rows \in Seq(r.doubt \cup free)

\* A request goes on where the rows end.
RequestTrue(r, rows, free) ==
  /\ RequestFields \subseteq DOMAIN r /\ r.kind \in {"first", "more"} /\ r.limit \in Nat
  /\ r.offset = IF r.kind = "first" THEN 0 ELSE Len(rows)
  /\ r.answer # <<>> => Cut(r.answer[1], r, free)

\* Rows that are a beginning of what they were cut from, as long as nothing was
\* refused; under "ungrouped" each is free, or was touched since it was asked for.
RowsTrue(l, free) ==
  /\ PageFields \subseteq DOMAIN l /\ l.rows \in Seq(Students) /\ l.seen \in Seq(Students)
  /\ l.steady => Ascending(l.seen) /\ Begins(l.rows, l.seen) /\ l.total = Len(l.seen)
  /\ l.of = "ungrouped" => l.rows \in Seq(l.doubt \cup free)

\* A list that is loaded a page at a time, with one request at most.
ListTrue(l, free) ==
  /\ RowsTrue(l, free)
  /\ \A r \in l.reqs : RequestTrue(r, l.rows, free)
  /\ \A r, q \in l.reqs : r = q

\* Students in no group.
Free == {s \in Students : rec[s].groups = {}}

\* What a list of the groups page keeps, and the list of tasks.
ListFields == PageFields \cup {"loading", "more", "error", "timer", "picking", "picked"}
TaskFields == PageFields \cup {"loading", "more", "error", "timer", "filter"}

\* A list of the groups page whose rows are true, one whose requests are as well,
\* a list of tasks, and the list put aside for the way back.
RowsOk(l, free) == ListFields \subseteq DOMAIN l /\ l.picked \subseteq Students /\ RowsTrue(l, free)
ListOk(l, free) == ListFields \subseteq DOMAIN l /\ l.picked \subseteq Students /\ ListTrue(l, free)
TaskOk(t) == TaskFields \subseteq DOMAIN t /\ ListTrue(t, Students)
SavedOk(v) == {"filter", "rows", "total"} \subseteq DOMAIN v /\ v.rows \in Seq(Students)

\* Every list that is open is a true one, and the page in front has its list.
ListsInv ==
  /\ list # None => ListOk(list, Free)
  /\ tasks # None => TaskOk(tasks)
  /\ saved # None => SavedOk(saved)
  /\ page \in {"tasks", "pending", "handled", "student"}
  /\ page \in {"pending", "handled"} => list # None
  /\ page \in {"tasks", "pending"} => tasks # None
  /\ undo # None => page # "handled"

\* A bar on the screen: who is not left to send has joined, unless the group
\* was deleted meanwhile.
BarFields == {"group", "left", "all", "filter", "shown"}
\* A student who is in a group, or the group is no more.
InOrGone(s, g) == g \in rec[s].groups \/ existing[g] = "archived"

\* The bar's students, sent or left, are known; while it is on the screen who is
\* not left to send has joined.
BarInv ==
  /\ DOMAIN existing = Groups
  /\ bulk # None =>
       /\ BarFields \subseteq DOMAIN bulk
       /\ bulk.group \in Groups /\ bulk.left \subseteq bulk.all /\ bulk.all \subseteq Students
       /\ bulk.shown => OnList /\ \A s \in bulk.all \ bulk.left : InOrGone(s, bulk.group)

\* The page of a student: DetailTrue, made inductive.
DetailInv ==
  /\ Table(rec)
  /\ Places
  /\ stud # None => DetailWhole(stud) /\ DetailTold(stud, rec)

-----------------------------------------------------------------------------
\* A batch that joins a group.
LEMMA JoinFrame ==
  ASSUME Table(rec), NEW g, NEW ids, Join(g, ids)
  PROVE  Table(rec') /\ SameFields(rec, rec')
<1>1. g \in Groups
  BY DEF Join, Existing
<1>2. rec' = [s \in Students |-> IF s \in ids THEN [rec[s] EXCEPT !.groups = @ \cup {g}] ELSE rec[s]]
  BY DEF Join
<1>3. ASSUME NEW s \in Students
      PROVE  /\ DOMAIN rec'[s] = RecordFields /\ rec'[s].groups \subseteq Groups
             /\ \A f \in Fields : rec'[s][f] = rec[s][f]
  <2>1. DOMAIN rec[s] = RecordFields /\ rec[s].groups \subseteq Groups
    BY DEF Table
  <2>2. rec'[s] = IF s \in ids THEN [rec[s] EXCEPT !.groups = @ \cup {g}] ELSE rec[s]
    BY <1>2
  <2> QED
    BY <2>1, <2>2, <1>1 DEF RecordFields, Fields
<1>4. DOMAIN rec' = Students
  BY <1>2
<1> QED
  BY <1>3, <1>4 DEF Table, SameFields

\* A group that is deleted.
LEMMA DeletedFrame ==
  ASSUME Table(rec), NEW g, Deleted(g)
  PROVE  Table(rec') /\ SameFields(rec, rec')
<1>1. rec' = [s \in Students |-> [rec[s] EXCEPT !.groups = @ \ {g}]]
  BY DEF Deleted
<1>2. ASSUME NEW s \in Students
      PROVE  /\ DOMAIN rec'[s] = RecordFields /\ rec'[s].groups \subseteq Groups
             /\ \A f \in Fields : rec'[s][f] = rec[s][f]
  <2>1. DOMAIN rec[s] = RecordFields /\ rec[s].groups \subseteq Groups
    BY DEF Table
  <2>2. rec'[s] = [rec[s] EXCEPT !.groups = @ \ {g}]
    BY <1>1
  <2> QED
    BY <2>1, <2>2 DEF RecordFields, Fields
<1>3. DOMAIN rec' = Students
  BY <1>1
<1> QED
  BY <1>2, <1>3 DEF Table, SameFields

\* One student's groups.
LEMMA RegroupedFrame ==
  ASSUME NEW t, NEW u, Table(t), NEW x, NEW gs, x \in Students => gs \subseteq Groups,
         u = [t EXCEPT ![x].groups = gs]
  PROVE  Table(u) /\ SameFields(t, u)
<1>1. ASSUME NEW s \in Students
      PROVE  /\ DOMAIN u[s] = RecordFields /\ u[s].groups \subseteq Groups
             /\ \A f \in Fields : u[s][f] = t[s][f]
  <2>1. DOMAIN t = Students /\ DOMAIN t[s] = RecordFields /\ t[s].groups \subseteq Groups
    BY DEF Table
  <2>2. u[s] = IF s = x THEN [t[s] EXCEPT !.groups = gs] ELSE t[s]
    BY <2>1
  <2> QED
    BY <2>1, <2>2 DEF RecordFields, Fields
<1>2. DOMAIN u = Students
  BY DEF Table
<1> QED
  BY <1>1, <1>2 DEF Table, SameFields

\* The editor's write.
LEMMA EditorWriteFrame ==
  ASSUME Table(rec), EditorWrite
  PROVE  Table(rec') /\ SameFields(rec, rec')
<1> DEFINE g == editor.saving.group
           x == editor.student
<1>1. CASE editor.saving.included
  <2>1. rec' = [rec EXCEPT ![x].groups = rec[x].groups \ {g}] /\ g \in rec[x].groups
    BY <1>1 DEF EditorWrite
  <2>2. x \in Students => rec[x].groups \ {g} \subseteq Groups
    BY DEF Table
  <2> QED
    BY <2>1, <2>2, RegroupedFrame
<1>2. CASE ~editor.saving.included
  <2>1. Join(g, {x})
    BY <1>2 DEF EditorWrite
  <2> QED
    BY <2>1, JoinFrame
<1> QED
  BY <1>1, <1>2

\* A write that outlives the editor.
LEMMA OrphanedFrame ==
  ASSUME NEW t, NEW u, Table(t), u \in Orphaned(t)
  PROVE  Table(u) /\ SameFields(t, u)
<1> DEFINE g == editor.saving.group
           x == editor.student
<1>1. CASE u = t
  BY <1>1 DEF SameFields
<1>2. CASE u # t
  <2>1. u = [t EXCEPT ![x].groups = IF editor.saving.included THEN @ \ {g} ELSE @ \cup ({g} \cap Existing)]
    BY <1>2 DEF Orphaned
  <2> DEFINE gs == IF editor.saving.included THEN t[x].groups \ {g} ELSE t[x].groups \cup ({g} \cap Existing)
  <2>2. u = [t EXCEPT ![x].groups = gs]
    BY <2>1
  <2>3. x \in Students => gs \subseteq Groups
    BY DEF Table, Existing
  <2> HIDE DEF gs
  <2> QED
    BY <2>2, <2>3, RegroupedFrame
<1> QED
  BY <1>1, <1>2
\* Writes of a student's page.
LEMMA EffectFrame ==
  ASSUME NEW t, NEW u, Table(t), NEW ops, NEW x, u = [t EXCEPT ![x] = Effect(ops, @)]
  PROVE  /\ Table(u) /\ SameGroups(t, u)
         /\ x \in Students => u[x] = Effect(ops, t[x])
<1>1. ASSUME NEW r, DOMAIN r = RecordFields
      PROVE  DOMAIN Effect(ops, r) = RecordFields /\ Effect(ops, r).groups = r.groups
  BY <1>1 DEF Effect, RecordFields
<1>2. DOMAIN u = Students /\ \A s \in Students : u[s] = IF s = x THEN Effect(ops, t[x]) ELSE t[s]
  BY DEF Table
<1>3. \A s \in Students : DOMAIN t[s] = RecordFields /\ t[s].groups \subseteq Groups
  BY DEF Table
<1> QED
  BY <1>1, <1>2, <1>3 DEF Table, SameGroups

\* A student's result, as everyone else sets it.
LEMMA ResultFrame ==
  ASSUME NEW t, NEW u, Table(t), NEW x, NEW v, u = [t EXCEPT ![x].result = v]
  PROVE  /\ Table(u) /\ SameGroups(t, u)
         /\ \A s \in Students : \A f \in Fields \ {"result"} : u[s][f] = t[s][f]
         /\ \A s \in Students : s # x => u[s] = t[s]
<1>1. DOMAIN u = Students /\ \A s \in Students : u[s] = IF s = x THEN [t[x] EXCEPT !.result = v] ELSE t[s]
  BY DEF Table
<1>2. \A s \in Students : DOMAIN t[s] = RecordFields /\ t[s].groups \subseteq Groups
  BY DEF Table
<1>3. ASSUME NEW s \in Students
      PROVE  /\ DOMAIN u[s] = RecordFields /\ u[s].groups = t[s].groups
             /\ \A f \in Fields \ {"result"} : u[s][f] = t[s][f]
             /\ s # x => u[s] = t[s]
  BY <1>1, <1>2 DEF RecordFields, Fields
<1> QED
  BY <1>1, <1>2, <1>3 DEF Table, SameGroups

-----------------------------------------------------------------------------
\* A page that is open is not None.
LEMMA WholeIsSome == ASSUME NEW d, DetailWhole(d) PROVE d # None
BY DEF DetailWhole, StudFields, None

\* A load of the page.
LEMMA DetailLoadWhole ==
  ASSUME NEW d, StudFields \subseteq DOMAIN d, d.student \in Students, d.jobs \subseteq Ops, d.from \in {"tasks", "pending"},
         d.jobs # {} => Fields \subseteq DOMAIN d.shown,
         NEW t
  PROVE  DetailWhole(DetailLoad(d)) /\ DetailTold(DetailLoad(d), t)
<1> DEFINE e == DetailLoad(d)
<1>1. /\ e = [d EXCEPT !.loading = TRUE, !.error = FALSE, !.reqs = {<<>>}]
      /\ DOMAIN e = DOMAIN d
  BY DEF DetailLoad, Superseded
<1>2. /\ e.loading = TRUE /\ e.reqs = {<<>>}
      /\ e.student = d.student /\ e.jobs = d.jobs /\ e.shown = d.shown /\ e.from = d.from
  BY <1>1 DEF StudFields
<1> HIDE DEF e
<1>3. DetailTold(e, t)
  BY <1>2 DEF DetailTold
<1>4. \A a \in e.reqs : a # <<>> => DOMAIN a[1] = RecordFields
  BY <1>2
<1>5. e.jobs # {} \/ (~e.loading /\ ~e.error) => Fields \subseteq DOMAIN e.shown
  BY <1>2
<1>6. DetailWhole(e)
  BY <1>1, <1>2, <1>4, <1>5 DEF DetailWhole
<1> QED
  BY <1>3, <1>6 DEF e

\* A page that is not disturbed.
LEMMA DetailCarries ==
  ASSUME NEW d, NEW t, NEW u, DetailWhole(d), DetailTold(d, t), SameFields(t, u)
  PROVE  DetailTold(d, u)
BY DEF DetailWhole, DetailTold, SameFields

\* The patch agrees with the write, field by field.
LEMMA PatchTrue ==
  ASSUME NEW op \in Workflow, NEW shown, Fields \subseteq DOMAIN shown,
         NEW r, DOMAIN r = RecordFields, op = "complete" => r.plan # "none",
         NEW doubt, \A f \in Fields \ doubt : shown[f] = r[f]
  PROVE  /\ Fields \subseteq DOMAIN PatchedDetail(op, shown, Effect({op}, r))
         /\ \A f \in Fields \ (doubt \ ToldFields(op)) :
              PatchedDetail(op, shown, Effect({op}, r))[f] = Effect({op}, r)[f]
<1> DEFINE e == Effect({op}, r)
           p == PatchedDetail(op, shown, e)
<1>1. CASE op = "speak"
  <2>1. (\A f \in Fields \ {"result"} : e[f] = r[f])
    BY <1>1 DEF Effect, RecordFields, Fields
  <2>2. p = [shown EXCEPT !.result = e.result, !.stage = e.stage] /\ ToldFields(op) = {"result", "stage"}
    BY <1>1 DEF PatchedDetail, ToldFields
  <2> HIDE DEF e, p
  <2> QED
    BY <2>1, <2>2 DEF Fields, e, p
<1>2. CASE op = "enroll"
  <2>1. (\A f \in Fields \ {"result", "stage"} : e[f] = r[f])
    BY <1>2 DEF Effect, RecordFields, Fields
  <2>2. p = [shown EXCEPT !.result = e.result, !.stage = e.stage] /\ ToldFields(op) = {"result", "stage"}
    BY <1>2 DEF PatchedDetail, ToldFields
  <2> HIDE DEF e, p
  <2> QED
    BY <2>1, <2>2 DEF Fields, e, p
<1>3. CASE op = "advance"
  <2>1. (\A f \in Fields \ {"stage"} : e[f] = r[f]) /\ e.stage = "advanced"
    BY <1>3 DEF Effect, RecordFields, Fields
  <2>2. p = [shown EXCEPT !.stage = "advanced"] /\ ToldFields(op) = {"stage"}
    BY <1>3 DEF PatchedDetail, ToldFields
  <2> HIDE DEF e, p
  <2> QED
    BY <2>1, <2>2 DEF Fields, e, p
<1>4. CASE op = "help"
  <2>1. (\A f \in Fields \ {"help"} : e[f] = r[f])
    BY <1>4 DEF Effect, RecordFields, Fields
  <2>2. p = [shown EXCEPT !.help = e.help] /\ ToldFields(op) = {"help"}
    BY <1>4 DEF PatchedDetail, ToldFields
  <2> HIDE DEF e, p
  <2> QED
    BY <2>1, <2>2 DEF Fields, e, p
<1>5. CASE op = "complete"
  <2>1. (\A f \in Fields \ {"plan"} : e[f] = r[f]) /\ e.plan = "done"
    BY <1>5 DEF Effect, RecordFields, Fields
  <2>2. p = [shown EXCEPT !.plan = "done"] /\ ToldFields(op) = {"plan"}
    BY <1>5 DEF PatchedDetail, ToldFields
  <2> HIDE DEF e, p
  <2> QED
    BY <2>1, <2>2 DEF Fields, e, p
<1> QED
  BY <1>1, <1>2, <1>3, <1>4, <1>5 DEF Workflow
-----------------------------------------------------------------------------
\* What a step elsewhere leaves to the page of a student.
Frame ==
  /\ page' = page
  /\ list' # None => list # None \/ page \in {"pending", "handled"}
  /\ editor' # None => editor # None
  /\ Table(rec') /\ SameFields(rec, rec')

\* A step that writes nothing keeps the table.
LEMMA SameTable == ASSUME Table(rec), UNCHANGED rec PROVE Table(rec') /\ SameFields(rec, rec')
BY DEF SameFields

\* The loads of the groups.
LEMMA HookFrame ==
  ASSUME Table(rec), NEW i, HookTaken(i) \/ HookShown(i) \/ HookFails(i)
  PROVE  Frame
<1>1. UNCHANGED <<page, editor, rec>>
  BY DEF HookTaken, HookShown, HookFails, Around
<1>2. list' = list \/ OnList
  BY DEF HookTaken, HookShown, HookFails, lists
<1> QED
  BY <1>1, <1>2, SameTable DEF Frame, OnList

\* Creating, renaming and deleting a group.
LEMMA ManageFrame ==
  ASSUME Table(rec), NEW g, FilterCreate(g) \/ FilterRename(g) \/ FilterDelete(g)
  PROVE  Frame
<1>1. UNCHANGED <<page, editor>>
  BY DEF FilterCreate, FilterRename, FilterDelete, Around
<1>2. UNCHANGED rec \/ Deleted(g)
  BY DEF FilterCreate, FilterRename, FilterDelete, Created
<1>3. OnList
  BY DEF FilterCreate, FilterRename, FilterDelete, GroupsOffered
<1> QED
  BY <1>1, <1>2, <1>3, SameTable, DeletedFrame DEF Frame, OnList

\* The bar that adds many students to a group.
LEMMA BarFrame ==
  ASSUME Table(rec), (\E g \in Groups : BulkStart(g) \/ BulkCreate(g)) \/ BatchesDone \/ BatchSaved \/ BatchFails
  PROVE  Frame
<1>1. UNCHANGED <<page, editor>>
  BY DEF BulkStart, BulkCreate, BatchesDone, BatchSaved, BatchFails
<1>2. UNCHANGED rec \/ \E g, ids : Join(g, ids)
  BY DEF BulkStart, BulkCreate, BatchesDone, BatchSaved, BatchFails, Created, server
<1>3. list' = list \/ OnList \/ list # None
  <2>1. CASE BatchSaved \/ BatchFails
    BY <2>1 DEF BatchSaved, BatchFails, Unheard
  <2>2. CASE BatchesDone
    BY <2>2 DEF BatchesDone
  <2>3. CASE \E g \in Groups : BulkStart(g) \/ BulkCreate(g)
    BY <2>3 DEF BulkStart, BulkCreate, lists
  <2> QED
    BY <2>1, <2>2, <2>3
<1> QED
  BY <1>1, <1>2, <1>3, SameTable, JoinFrame DEF Frame, OnList

\* The editor of one student's groups.
LEMMA EditorFrame ==
  ASSUME Table(rec),
         \/ EditorTaken \/ EditorLoaded \/ ToggleSaved \/ ToggleFails
         \/ \E g \in Groups : Toggle(g) \/ CreateAndInclude(g)
  PROVE  Frame
<1>1. UNCHANGED <<page, list>> /\ editor # None
  BY DEF EditorTaken, EditorLoaded, ToggleSaved, ToggleFails, Toggle, CreateAndInclude, EditorFree
<1>2. UNCHANGED rec \/ EditorWrite
  BY DEF EditorTaken, EditorLoaded, ToggleSaved, ToggleFails, Toggle, CreateAndInclude, Created, server
<1> QED
  BY <1>1, <1>2, SameTable, EditorWriteFrame DEF Frame

\* The steps of the phone's list, and of the desk's.
PhoneListStep ==
  \/ \E r \in list.reqs : PhoneFirstShown(r) \/ PhoneMoreShown(r) \/ PhoneListFails(r)
  \/ PhoneRetry \/ PhoneMore \/ PhonePickMode \/ PhonePickAll
  \/ \E f \in Filters : PhoneChoose(f)
  \/ \E s \in Students : PhonePick(s)
DeskListStep ==
  \/ \E r \in list.reqs : DeskShown(r) \/ DeskListFails(r)
  \/ DeskTimer \/ DeskMore \/ DeskPickMode \/ DeskPickAll
  \/ \E f \in Filters : DeskChoose(f)
  \/ \E s \in Students : DeskPick(s)

\* They write nothing.
LEMMA ListFrame ==
  ASSUME Table(rec), PhoneListStep \/ DeskListStep \/ (list # None /\ \E r \in list.reqs : ListTaken(r))
  PROVE  Frame /\ UNCHANGED <<rec, existing, bulk, editor>>
<1>1. CASE PhoneListStep
  <2>1. UNCHANGED <<page, rec, existing, bulk, editor>> /\ page = "pending"
    BY <1>1 DEF PhoneListStep, PhoneFirstShown, PhoneMoreShown, PhoneListFails, PhoneRetry, PhoneMore,
      PhonePickMode, PhonePickAll, PhoneChoose, PhonePick, PhoneSees, server
  <2> QED
    BY <2>1, SameTable DEF Frame
<1>2. CASE DeskListStep
  <2>1. UNCHANGED <<page, rec, existing, bulk, editor>> /\ page = "handled"
    BY <1>2 DEF DeskListStep, DeskShown, DeskListFails, DeskTimer, DeskMore,
      DeskPickMode, DeskPickAll, DeskChoose, DeskPick, DeskSees, server
  <2> QED
    BY <2>1, SameTable DEF Frame
<1>3. CASE list # None /\ \E r \in list.reqs : ListTaken(r)
  <2>1. UNCHANGED <<page, rec, existing, bulk, editor>> /\ list # None
    BY <1>3 DEF ListTaken, server
  <2> QED
    BY <2>1, SameTable DEF Frame
<1> QED
  BY <1>1, <1>2, <1>3

\* The groups' steps, by what they are.
LEMMA GroupsCases ==
  ASSUME GroupsNext
  PROVE  \/ \E i \in 1 .. 3 : HookTaken(i) \/ HookShown(i) \/ HookFails(i)
         \/ \E g \in Groups : FilterCreate(g) \/ FilterRename(g) \/ FilterDelete(g)
         \/ (\E g \in Groups : BulkStart(g) \/ BulkCreate(g)) \/ BatchesDone \/ BatchSaved \/ BatchFails
         \/ EditorTaken \/ EditorLoaded \/ ToggleSaved \/ ToggleFails
         \/ \E g \in Groups : Toggle(g) \/ CreateAndInclude(g)
         \/ PhoneListStep \/ DeskListStep \/ (list # None /\ \E r \in list.reqs : ListTaken(r))
BY DEF GroupsNext, PhoneListStep, DeskListStep

\* All of the steps of the groups.
LEMMA GroupsFrame == ASSUME Table(rec), GroupsNext PROVE Frame
<1>1. CASE \E i \in 1 .. 3 : HookTaken(i) \/ HookShown(i) \/ HookFails(i)
  BY <1>1, HookFrame
<1>2. CASE \E g \in Groups : FilterCreate(g) \/ FilterRename(g) \/ FilterDelete(g)
  BY <1>2, ManageFrame
<1>3. CASE (\E g \in Groups : BulkStart(g) \/ BulkCreate(g)) \/ BatchesDone \/ BatchSaved \/ BatchFails
  BY <1>3, BarFrame
<1>4. CASE \/ EditorTaken \/ EditorLoaded \/ ToggleSaved \/ ToggleFails
           \/ \E g \in Groups : Toggle(g) \/ CreateAndInclude(g)
  BY <1>4, EditorFrame
<1>5. CASE PhoneListStep \/ DeskListStep \/ (list # None /\ \E r \in list.reqs : ListTaken(r))
  <2>1. ASSUME PhoneListStep PROVE Frame
    BY <2>1, ListFrame
  <2>2. ASSUME DeskListStep PROVE Frame
    BY <2>2, ListFrame
  <2>3. ASSUME list # None, NEW r \in list.reqs, ListTaken(r) PROVE Frame
    BY <2>3, ListFrame
  <2> QED
    BY <1>5, <2>1, <2>2, <2>3
<1> QED
  BY <1>1, <1>2, <1>3, <1>4, <1>5, GroupsCases, Zenon

\* They leave the page of a student true.
LEMMA GroupsDetail ==
  ASSUME DetailInv, GroupsNext, UNCHANGED stud
  PROVE  DetailInv'
<1>1. Frame
  BY GroupsFrame DEF DetailInv
<1>2. Places'
  BY <1>1 DEF Frame, Places, DetailInv
<1>3. stud' # None => DetailWhole(stud') /\ DetailTold(stud', rec')
  BY <1>1, DetailCarries DEF Frame, DetailInv
<1> QED
  BY <1>1, <1>2, <1>3 DEF Frame, DetailInv

-----------------------------------------------------------------------------
\* The phone's tasks.
LEMMA TasksDetail ==
  ASSUME DetailInv, TasksNext, UNCHANGED stud
  PROVE  DetailInv'
<1>1. CASE \E s \in Students : TaskCalled(s)
  <2>1. PICK s \in Students : TaskCalled(s)
    BY <1>1
  <2>2. page = "tasks" /\ rec' = [rec EXCEPT ![s].result = "spoke"] /\ UNCHANGED <<page, list, editor>>
    BY <2>1 DEF TaskCalled, TasksSeen, groupVars, lists
  <2>3. Table(rec')
    BY <2>2, ResultFrame DEF DetailInv
  <2> QED
    BY <2>2, <2>3 DEF DetailInv, Places
<1>2. CASE ~\E s \in Students : TaskCalled(s)
  <2>1. /\ UNCHANGED <<rec, editor>>
        /\ \/ UNCHANGED <<page, list>>
           \/ page = "tasks" /\ page' = "pending"
           \/ page = "pending" /\ page' = "tasks" /\ list' = None
    BY <1>2 DEF TasksNext, TasksChoose, TasksTimer, TasksRefresh, TasksShowAll, TasksMore, ToastGone,
      TaskTaken, TaskShown, TaskFails, GoPending, GoTasks, groupVars, lists, server
  <2>2. Places'
    BY <2>1 DEF Places, DetailInv
  <2> QED
    BY <2>1, <2>2 DEF DetailInv, Places
<1> QED
  BY <1>1, <1>2

-----------------------------------------------------------------------------
\* The student's page.
LEMMA OpenDetail ==
  ASSUME DetailInv, NEW s \in Students, OpenStudent(s)
  PROVE  DetailInv'
<1> DEFINE d == [student |-> s, shown |-> None, loading |-> TRUE, error |-> FALSE,
                 reqs |-> {}, jobs |-> {}, doubt |-> {}, from |-> page]
<1>1. /\ page' = "student" /\ stud' = DetailLoad(d) /\ list' = None
      /\ UNCHANGED <<rec, editor>>
  BY DEF OpenStudent, server
<1>2. StudFields \subseteq DOMAIN d /\ d.student = s /\ d.jobs = {} /\ d.from = page
  BY DEF StudFields
<1>5. page \in {"tasks", "pending"}
  BY DEF OpenStudent, PhoneSees
<1> HIDE DEF d
<1>3. DetailWhole(stud') /\ DetailTold(stud', rec')
  BY <1>1, <1>2, <1>5, DetailLoadWhole
<1>4. Places'
  BY <1>1, <1>3, WholeIsSome DEF Places
<1> QED
  BY <1>1, <1>3, <1>4 DEF DetailInv

\* A load is answered.
LEMMA AnswerDetail ==
  ASSUME DetailInv, DetailTaken \/ DetailFails \/ (stud # None /\ \E a \in stud.reqs : DetailShown(a))
  PROVE  DetailInv'
<1>1. stud # None /\ StudFields \subseteq DOMAIN stud /\ stud.student \in Students
  BY DEF DetailTaken, DetailFails, DetailShown, DetailInv, DetailWhole
<1>2. UNCHANGED <<rec, page, list>> /\ page = "student"
  BY <1>1 DEF DetailTaken, DetailFails, DetailShown, DetailInv, studVars, lists, server, Places
<1>3. DOMAIN rec[stud.student] = RecordFields
  BY <1>1 DEF DetailInv, Table
<1>4. DetailWhole(stud') /\ DetailTold(stud', rec)
  <2>1. CASE DetailTaken
    <3> DEFINE reqs == {<<rec[stud.student]>>}
    <3>1. stud' = [stud EXCEPT !.reqs = reqs]
      BY <2>1 DEF DetailTaken
    <3>2. \A a \in reqs : DOMAIN a[1] = RecordFields
      BY <1>3
    <3> HIDE DEF reqs
    <3>3. /\ stud'.reqs = reqs /\ DOMAIN stud' = DOMAIN stud
          /\ \A f \in StudFields \ {"reqs"} : stud'[f] = stud[f]
      BY <3>1, <1>1 DEF StudFields
    <3>4. /\ stud'.student = stud.student /\ stud'.jobs = stud.jobs /\ stud'.shown = stud.shown
          /\ stud'.loading = stud.loading /\ stud'.error = stud.error /\ stud'.doubt = stud.doubt
          /\ stud'.from = stud.from
      BY <3>3 DEF StudFields
    <3>5. DetailWhole(stud) /\ DetailTold(stud, rec)
      BY <1>1 DEF DetailInv
    <3> QED
      BY <3>2, <3>3, <3>4, <3>5 DEF DetailWhole, DetailTold
  <2>2. CASE DetailFails
    <3>1. stud' = [stud EXCEPT !.error = TRUE, !.loading = FALSE, !.reqs = {}]
      BY <2>2 DEF DetailFails
    <3>2. /\ stud'.reqs = {} /\ DOMAIN stud' = DOMAIN stud /\ stud'.error = TRUE /\ stud'.from = stud.from
          /\ stud'.student = stud.student /\ stud'.jobs = stud.jobs /\ stud'.shown = stud.shown
      BY <3>1, <1>1 DEF StudFields
    <3>3. DetailWhole(stud) /\ DetailTold(stud, rec)
      BY <1>1 DEF DetailInv
    <3> QED
      BY <3>2, <3>3 DEF DetailWhole, DetailTold
  <2>3. CASE stud # None /\ \E a \in stud.reqs : DetailShown(a)
    <3>1. PICK a \in stud.reqs : DetailShown(a)
      BY <2>3
    <3> DEFINE doubt == {f \in Fields : a[1][f] # rec[stud.student][f]}
    <3>2. stud' = [stud EXCEPT !.shown = a[1], !.loading = FALSE, !.reqs = {}, !.doubt = doubt] /\ a # <<>>
      BY <3>1 DEF DetailShown
    <3>3. DetailWhole(stud)
      BY <1>1 DEF DetailInv
    <3>4. DOMAIN a[1] = RecordFields
      BY <3>2, <3>3 DEF DetailWhole
    <3>5. \A f \in Fields \ doubt : a[1][f] = rec[stud.student][f]
      OBVIOUS
    <3> HIDE DEF doubt
    <3>6. /\ stud'.reqs = {} /\ DOMAIN stud' = DOMAIN stud /\ stud'.doubt = doubt /\ stud'.from = stud.from
          /\ stud'.student = stud.student /\ stud'.jobs = stud.jobs /\ stud'.shown = a[1]
      BY <3>2, <1>1 DEF StudFields
    <3> QED
      BY <3>3, <3>4, <3>5, <3>6 DEF DetailWhole, DetailTold, RecordFields
  <2> QED
    BY <2>1, <2>2, <2>3
<1>5. Places'
  BY <1>2, <1>4, WholeIsSome DEF Places, DetailInv
<1> QED
  BY <1>2, <1>4, <1>5 DEF DetailInv

\* A job is sent.
LEMMA SendDetail ==
  ASSUME DetailInv, DetailRetry \/ \E op \in Ops : StudentSend(op)
  PROVE  DetailInv'
<1>1. stud # None /\ DetailWhole(stud) /\ DetailTold(stud, rec)
  BY DEF DetailRetry, StudentSend, DetailSeen, DetailInv
<1>2. UNCHANGED <<rec, page, list, editor>> /\ page = "student"
  BY <1>1 DEF DetailRetry, StudentSend, DetailInv, lists, server, Places
<1>3. DetailWhole(stud') /\ DetailTold(stud', rec)
  <2>1. CASE DetailRetry
    <3>1. stud' = DetailLoad(stud)
      BY <2>1 DEF DetailRetry
    <3> QED
      BY <3>1, <1>1, DetailLoadWhole DEF DetailWhole
  <2>2. CASE \E op \in Ops : StudentSend(op)
    <3>1. PICK op \in Ops : StudentSend(op)
      BY <2>2
    <3>2. stud' = [stud EXCEPT !.jobs = @ \cup {op}] /\ ~stud.loading /\ ~stud.error
      BY <3>1 DEF StudentSend, DetailSeen
    <3>3. /\ DOMAIN stud' = DOMAIN stud /\ stud'.jobs = stud.jobs \cup {op}
          /\ stud'.student = stud.student /\ stud'.shown = stud.shown /\ stud'.reqs = stud.reqs /\ stud'.from = stud.from
          /\ stud'.loading = stud.loading /\ stud'.error = stud.error /\ stud'.doubt = stud.doubt
      BY <3>2, <1>1 DEF StudFields, DetailWhole
    <3> QED
      BY <3>2, <3>3, <1>1 DEF DetailWhole, DetailTold
  <2> QED
    BY <2>1, <2>2
<1>4. Places'
  BY <1>2, <1>3, WholeIsSome DEF Places, DetailInv
<1> QED
  BY <1>2, <1>3, <1>4 DEF DetailInv
\* A job of the workflow is saved: the answer is shown as it comes.
LEMMA WorkflowDetail ==
  ASSUME DetailInv, NEW op \in Ops, WorkflowSaved(op)
  PROVE  DetailInv'
<1> DEFINE x == stud.student
           r == rec[x]
           u == rec'[x]
           p == PatchedDetail(op, stud.shown, u)
<1>1. stud # None /\ DetailWhole(stud) /\ DetailTold(stud, rec) /\ Table(rec) /\ page = "student"
  BY DEF WorkflowSaved, DetailInv, Places
<1>2. /\ op \in Workflow /\ op \in stud.jobs /\ (op = "complete" => r.plan # "none")
      /\ rec' = [rec EXCEPT ![x] = Effect({op}, @)]
      /\ stud' = [stud EXCEPT !.jobs = @ \ {op}, !.doubt = @ \ ToldFields(op), !.shown = p]
      /\ UNCHANGED <<page, list, editor>>
  BY DEF WorkflowSaved, lists
<1>3. Table(rec') /\ u = Effect({op}, r)
  <2>1. x \in Students
    BY <1>1 DEF DetailWhole
  <2>2. rec' = [rec EXCEPT ![x] = Effect({op}, @)]
    BY <1>2
  <2> HIDE DEF x
  <2>3. Table(rec')
    BY <1>1, <2>2, EffectFrame
  <2>4. rec'[x] = Effect({op}, rec[x])
    BY <1>1, <2>1, <2>2 DEF Table
  <2> QED
    BY <2>3, <2>4 DEF x
<1>4. DOMAIN r = RecordFields /\ Fields \subseteq DOMAIN stud.shown
  BY <1>1, <1>2 DEF DetailWhole, Table
<1>5. Fields \subseteq DOMAIN p
  <2>1. CASE op \in {"speak", "enroll"}
    BY <2>1, <1>4 DEF PatchedDetail
  <2>2. CASE op = "advance"
    BY <2>2, <1>4 DEF PatchedDetail
  <2>3. CASE op = "help"
    BY <2>3, <1>4 DEF PatchedDetail
  <2>4. CASE op = "complete"
    BY <2>4, <1>4 DEF PatchedDetail
  <2> QED
    BY <2>1, <2>2, <2>3, <2>4, <1>2 DEF Workflow
<1>6. ~stud.loading /\ ~stud.error => \A f \in Fields \ (stud.doubt \ ToldFields(op)) : p[f] = u[f]
  <2> SUFFICES ASSUME ~stud.loading, ~stud.error
               PROVE  \A f \in Fields \ (stud.doubt \ ToldFields(op)) : p[f] = u[f]
    OBVIOUS
  <2>1. \A f \in Fields \ stud.doubt : stud.shown[f] = r[f]
    BY <1>1 DEF DetailTold
  <2> QED
    <3>1. p = PatchedDetail(op, stud.shown, Effect({op}, r)) /\ u = Effect({op}, r)
      BY <1>3
    <3>2. \A f \in Fields \ (stud.doubt \ ToldFields(op)) :
            PatchedDetail(op, stud.shown, Effect({op}, r))[f] = Effect({op}, r)[f]
      <4> DEFINE sh == stud.shown
                 db == stud.doubt
      <4>1. /\ op \in Workflow /\ Fields \subseteq DOMAIN sh /\ DOMAIN r = RecordFields
            /\ op = "complete" => r.plan # "none"
            /\ \A f \in Fields \ db : sh[f] = r[f]
        BY <2>1, <1>2, <1>4
      <4> HIDE DEF r, sh, db
      <4>2. \A f \in Fields \ (db \ ToldFields(op)) :
              PatchedDetail(op, sh, Effect({op}, r))[f] = Effect({op}, r)[f]
        BY <4>1, PatchTrue
      <4> QED
        BY <4>2 DEF sh, db
    <3> QED
      BY <3>1, <3>2
<1> HIDE DEF p, u
<1>7. /\ DOMAIN stud' = DOMAIN stud /\ stud'.jobs = stud.jobs \ {op} /\ stud'.shown = p
      /\ stud'.student = x /\ stud'.reqs = stud.reqs /\ stud'.doubt = stud.doubt \ ToldFields(op)
      /\ stud'.loading = stud.loading /\ stud'.error = stud.error /\ stud'.from = stud.from
  BY <1>1, <1>2 DEF StudFields, DetailWhole
<1>8. DetailWhole(stud')
  BY <1>1, <1>5, <1>7 DEF DetailWhole
<1>9. DetailTold(stud', rec')
  BY <1>6, <1>7 DEF DetailTold, u
<1>10. Places'
  BY <1>1, <1>2, <1>8, WholeIsSome DEF Places, DetailInv
<1> QED
  BY <1>3, <1>8, <1>9, <1>10 DEF DetailInv

\* Another job is saved: the page is loaded again.
LEMMA SavedDetail ==
  ASSUME DetailInv, NEW op \in Ops, DetailSaved(op)
  PROVE  DetailInv'
<1> DEFINE d == [stud EXCEPT !.jobs = @ \ {op}]
           t == [rec EXCEPT ![stud.student] = Effect({op}, @)]
<1>1. stud # None /\ DetailWhole(stud) /\ Table(rec) /\ page = "student" /\ op \in stud.jobs
  BY DEF DetailSaved, DetailInv, Places
<1>2. /\ rec' \in Orphaned(t) /\ stud' = DetailLoad(d) /\ editor' = None
      /\ UNCHANGED <<page, list>>
  BY DEF DetailSaved, EditorGone, lists
<1>3. Table(t)
  BY <1>1, EffectFrame
<1>4. Table(rec')
  <2> HIDE DEF t
  <2> QED
    BY <1>2, <1>3, OrphanedFrame
<1>5. /\ DOMAIN d = DOMAIN stud /\ d.jobs = stud.jobs \ {op} /\ d.shown = stud.shown /\ d.student = stud.student
      /\ d.from = stud.from
  BY <1>1 DEF DetailWhole, StudFields
<1> HIDE DEF d
<1>6. DetailWhole(stud') /\ DetailTold(stud', rec')
  BY <1>1, <1>2, <1>5, DetailLoadWhole DEF DetailWhole
<1>7. Places'
  BY <1>1, <1>2, <1>6, WholeIsSome DEF Places, DetailInv
<1> QED
  BY <1>4, <1>6, <1>7 DEF DetailInv

\* A job fails.
LEMMA FailsDetail ==
  ASSUME DetailInv, NEW op \in Ops, JobFails(op)
  PROVE  DetailInv'
<1>1. stud # None /\ DetailWhole(stud) /\ DetailTold(stud, rec) /\ Table(rec) /\ page = "student"
  BY DEF JobFails, DetailInv, Places
<1>2. UNCHANGED <<page, list, editor>> /\ op \in stud.jobs
  BY DEF JobFails, lists
<1>3. DetailWhole(stud') => Places'
  BY <1>1, <1>2, WholeIsSome DEF Places, DetailInv
<1>4. CASE UNCHANGED rec /\ stud' = [stud EXCEPT !.jobs = @ \ {op}]
  <2>1. /\ DOMAIN stud' = DOMAIN stud /\ stud'.jobs = stud.jobs \ {op} /\ stud'.shown = stud.shown
        /\ stud'.student = stud.student /\ stud'.reqs = stud.reqs /\ stud'.doubt = stud.doubt
        /\ stud'.loading = stud.loading /\ stud'.error = stud.error /\ stud'.from = stud.from
    BY <1>1, <1>4 DEF StudFields, DetailWhole
  <2>2. DetailWhole(stud') /\ DetailTold(stud', rec')
    BY <1>1, <1>4, <2>1 DEF DetailWhole, DetailTold
  <2> QED
    BY <1>1, <1>3, <1>4, <2>2 DEF DetailInv
<1>5. CASE /\ rec' = [rec EXCEPT ![stud.student] = Effect({op}, @)]
           /\ stud' = [stud EXCEPT !.jobs = @ \ {op}, !.doubt = Fields]
  <2>1. /\ DOMAIN stud' = DOMAIN stud /\ stud'.jobs = stud.jobs \ {op} /\ stud'.shown = stud.shown
        /\ stud'.student = stud.student /\ stud'.reqs = stud.reqs /\ stud'.doubt = Fields
        /\ stud'.loading = stud.loading /\ stud'.error = stud.error /\ stud'.from = stud.from
    BY <1>1, <1>5 DEF StudFields, DetailWhole
  <2>2. DetailWhole(stud') /\ DetailTold(stud', rec')
    BY <1>1, <2>1 DEF DetailWhole, DetailTold
  <2>3. Table(rec')
    BY <1>1, <1>5, EffectFrame
  <2> QED
    BY <1>3, <2>2, <2>3 DEF DetailInv
<1> QED
  BY <1>4, <1>5 DEF JobFails

\* The page is left.
LEMMA LeaveDetail ==
  ASSUME DetailInv, LeaveStudent
  PROVE  DetailInv'
<1>1. PICK taken \in SUBSET stud.jobs : rec' \in Orphaned([rec EXCEPT ![stud.student] = Effect(taken, @)])
  BY DEF LeaveStudent
<1> DEFINE t == [rec EXCEPT ![stud.student] = Effect(taken, @)]
<1>2. Table(t)
  BY EffectFrame DEF DetailInv
<1>3. Table(rec')
  <2> HIDE DEF t
  <2> QED
    BY <1>1, <1>2, OrphanedFrame DEF t
<1>4. /\ stud' = None /\ editor' = None /\ page = "student" /\ page' = stud.from
      /\ page' # "pending" => list' = list
  BY DEF LeaveStudent
<1>5. list = None /\ page' # "student"
  BY <1>4 DEF DetailInv, Places, DetailWhole
<1>6. Places'
  BY <1>4, <1>5 DEF Places
<1> QED
  BY <1>3, <1>4, <1>6 DEF DetailInv

\* The last outcome is taken back.
LEMMA UndoDetail ==
  ASSUME DetailInv, Undo
  PROVE  DetailInv'
<1> DEFINE t == [rec EXCEPT ![undo.student].result = "new"]
<1>1. /\ UNCHANGED <<page, list>>
      /\ \/ /\ page = "student" /\ rec' \in Orphaned(t)
            /\ stud' = DetailLoad([stud EXCEPT !.shown.result = "new"]) /\ editor' = None
         \/ /\ page = "student" /\ rec' = t /\ editor' = editor
            /\ stud' = IF undo.student # stud.student THEN stud ELSE [stud EXCEPT !.doubt = @ \cup {"result"}]
         \/ /\ page # "student" /\ rec' = t /\ editor' = editor /\ stud' = stud
  BY DEF Undo, EditorGone, lists
<1>2. Table(t) /\ \A s \in Students : \A f \in Fields \ {"result"} : t[s][f] = rec[s][f]
  BY ResultFrame DEF DetailInv
<1>3. \A s \in Students : s # undo.student => t[s] = rec[s]
  BY ResultFrame DEF DetailInv
<1> HIDE DEF t
<1>4. /\ list' # None => page' \in {"pending", "handled"}
      /\ editor' # None => page' = "student"
  BY <1>1 DEF DetailInv, Places
<1>5. CASE /\ page = "student" /\ rec' \in Orphaned(t)
           /\ stud' = DetailLoad([stud EXCEPT !.shown.result = "new"]) /\ editor' = None
  <2> DEFINE d == [stud EXCEPT !.shown.result = "new"]
  <2>1. DetailWhole(stud)
    BY <1>5 DEF DetailInv, Places
  <2>2. /\ DOMAIN d = DOMAIN stud /\ d.jobs = stud.jobs /\ d.student = stud.student /\ d.from = stud.from
        /\ d.shown = [stud.shown EXCEPT !.result = "new"]
    BY <2>1 DEF DetailWhole, StudFields
  <2>3. DOMAIN d.shown = DOMAIN stud.shown
    BY <2>2
  <2> HIDE DEF d
  <2>4. DetailWhole(stud') /\ DetailTold(stud', rec')
    BY <1>5, <2>1, <2>2, <2>3, DetailLoadWhole DEF DetailWhole, d
  <2>5. Table(rec')
    BY <1>2, <1>5, OrphanedFrame
  <2> QED
    BY <1>1, <1>4, <1>5, <2>4, <2>5, WholeIsSome DEF DetailInv, Places
<1>6. CASE /\ page = "student" /\ rec' = t /\ editor' = editor
           /\ stud' = IF undo.student # stud.student THEN stud ELSE [stud EXCEPT !.doubt = @ \cup {"result"}]
  <2>1. DetailWhole(stud) /\ DetailTold(stud, rec)
    BY <1>6 DEF DetailInv, Places
  <2>2. DetailWhole(stud') /\ DetailTold(stud', t)
    <3>1. CASE undo.student # stud.student
      BY <3>1, <1>3, <1>6, <2>1 DEF DetailWhole, DetailTold
    <3>2. CASE undo.student = stud.student
      <4>1. stud' = [stud EXCEPT !.doubt = @ \cup {"result"}]
        BY <3>2, <1>6
      <4>2. /\ DOMAIN stud' = DOMAIN stud /\ stud'.jobs = stud.jobs /\ stud'.shown = stud.shown
            /\ stud'.student = stud.student /\ stud'.reqs = stud.reqs /\ stud'.from = stud.from
            /\ stud'.doubt = stud.doubt \cup {"result"}
            /\ stud'.loading = stud.loading /\ stud'.error = stud.error
        BY <4>1, <2>1 DEF DetailWhole, StudFields
      <4>3. DetailWhole(stud')
        BY <2>1, <4>2 DEF DetailWhole
      <4>4. DetailTold(stud', t)
        BY <1>2, <2>1, <4>2 DEF DetailTold, DetailWhole
      <4> QED
        BY <4>3, <4>4
    <3> QED
      BY <3>1, <3>2
  <2> QED
    BY <1>1, <1>2, <1>4, <1>6, <2>2, WholeIsSome DEF DetailInv, Places
<1>7. CASE /\ page # "student" /\ rec' = t /\ editor' = editor /\ stud' = stud
  <2>1. stud = None
    BY <1>7 DEF DetailInv, Places
  <2> QED
    BY <1>1, <1>2, <1>4, <1>7, <2>1 DEF DetailInv, Places
<1> QED
  BY <1>1, <1>5, <1>6, <1>7
\* The counsellor's other devices.
LEMMA ElsewhereDetail ==
  ASSUME DetailInv, NEW s \in Students, ElsewhereHandles(s)
  PROVE  DetailInv'
<1> DEFINE v == IF rec[s].result = "new" THEN "spoke" ELSE "new"
<1>1. /\ rec' = [rec EXCEPT ![s].result = v]
      /\ stud' = IF stud = None THEN None ELSE [stud EXCEPT !.doubt = @ \cup {"result"}]
      /\ UNCHANGED <<page, list, editor>>
  BY DEF ElsewhereHandles, lists, DetailInv, Table
<1> HIDE DEF v
<1>2. Table(rec') /\ \A x \in Students : \A f \in Fields \ {"result"} : rec'[x][f] = rec[x][f]
  <2>1. Table(rec) /\ rec' = [rec EXCEPT ![s].result = v]
    BY <1>1 DEF DetailInv
  <2>2. Table(rec')
    BY <2>1, ResultFrame
  <2>3. \A x \in Students : rec'[x] = IF x = s THEN [rec[x] EXCEPT !.result = v] ELSE rec[x]
    BY <2>1 DEF Table
  <2>4. \A x \in Students : DOMAIN rec[x] = RecordFields
    BY <2>1 DEF Table
  <2> QED
    BY <2>2, <2>3, <2>4 DEF RecordFields
<1>3. CASE stud = None
  BY <1>1, <1>2, <1>3 DEF DetailInv, Places
<1>4. CASE stud # None
  <2>1. DetailWhole(stud) /\ DetailTold(stud, rec)
    BY <1>4 DEF DetailInv
  <2>2. /\ DOMAIN stud' = DOMAIN stud /\ stud'.jobs = stud.jobs /\ stud'.shown = stud.shown
        /\ stud'.student = stud.student /\ stud'.reqs = stud.reqs /\ stud'.from = stud.from
        /\ stud'.doubt = stud.doubt \cup {"result"}
        /\ stud'.loading = stud.loading /\ stud'.error = stud.error
    BY <1>1, <1>4, <2>1 DEF DetailWhole, StudFields
  <2>3. DetailWhole(stud')
    BY <2>1, <2>2 DEF DetailWhole
  <2>4. DetailTold(stud', rec')
    BY <1>2, <2>1, <2>2 DEF DetailTold, DetailWhole
  <2> QED
    BY <1>1, <1>2, <1>4, <2>3, <2>4, WholeIsSome DEF DetailInv, Places
<1> QED
  BY <1>3, <1>4

\* At the start no student's page is open.
LEMMA InitDetail == ASSUME Init PROVE DetailInv
<1>1. PICK handled \in BOOLEAN : rec = [s \in Students |-> Fresh(handled)]
  BY DEF Init
<1>2. DOMAIN Fresh(handled) = RecordFields /\ Fresh(handled).groups = {}
  BY DEF Fresh, RecordFields, Fields
<1>3. Table(rec)
  BY <1>1, <1>2 DEF Table
<1> QED
  BY <1>3 DEF Init, DetailInv, Places

\* The steps of a student's page that stay on it.
PageStep ==
  \/ DetailTaken \/ DetailFails \/ DetailRetry
  \/ stud # None /\ \E a \in stud.reqs : DetailShown(a)
  \/ \E op \in Ops : StudentSend(op) \/ WorkflowSaved(op) \/ DetailSaved(op) \/ JobFails(op)

\* The steps of a student's page are opening, leaving, undoing, or on the page.
LEMMA StayCases ==
  ASSUME StudentNext
  PROVE  (\E s \in Students : OpenStudent(s)) \/ LeaveStudent \/ Undo \/ PageStep
BY DEF StudentNext, PageStep, Ops

\* The steps of a student's page, by what they are.
LEMMA StudentCases ==
  ASSUME StudentNext
  PROVE  \/ \E s \in Students : OpenStudent(s)
         \/ DetailTaken \/ DetailFails \/ (stud # None /\ \E a \in stud.reqs : DetailShown(a))
         \/ DetailRetry \/ \E op \in Ops : StudentSend(op)
         \/ \E op \in Ops : WorkflowSaved(op) \/ DetailSaved(op) \/ JobFails(op)
         \/ LeaveStudent
         \/ Undo
BY DEF StudentNext, Ops

\* Every step keeps the page of a student true.
LEMMA NextDetail == ASSUME DetailInv, [Next]_phoneVars PROVE DetailInv'
<1>1. CASE GroupsNext /\ UNCHANGED <<tasks, undo, stud>>
  BY <1>1, GroupsDetail
<1>2. CASE TasksNext /\ UNCHANGED stud
  BY <1>2, TasksDetail
<1>3. CASE StudentNext
  <2>1. CASE \E s \in Students : OpenStudent(s)
    BY <2>1, OpenDetail
  <2>2. CASE DetailTaken \/ DetailFails \/ (stud # None /\ \E a \in stud.reqs : DetailShown(a))
    BY <2>2, AnswerDetail
  <2>3. CASE DetailRetry \/ \E op \in Ops : StudentSend(op)
    BY <2>3, SendDetail
  <2>4. CASE \E op \in Ops : WorkflowSaved(op) \/ DetailSaved(op) \/ JobFails(op)
    BY <2>4, WorkflowDetail, SavedDetail, FailsDetail
  <2>5. CASE LeaveStudent
    BY <2>5, LeaveDetail
  <2>6. CASE Undo
    BY <2>6, UndoDetail
  <2> QED
    BY <1>3, <2>1, <2>2, <2>3, <2>4, <2>5, <2>6, StudentCases
<1>4. CASE \E s \in Students : ElsewhereHandles(s)
  BY <1>4, ElsewhereDetail
<1>5. CASE UNCHANGED phoneVars
  BY <1>5 DEF phoneVars, server, lists, DetailInv, Places, DetailTold
<1> QED
  BY <1>1, <1>2, <1>3, <1>4, <1>5 DEF Next

\* A student's page at rest shows what the service holds of everything it was
\* told since (patchStudent and patchFollowUp, MobileStudentDetail.jsx).
THEOREM DetailShowsTruth == Spec => []DetailTrue
<1>1. Init => DetailInv
  BY InitDetail
<1>2. DetailInv /\ [Next]_phoneVars => DetailInv'
  BY NextDetail
<1>3. DetailInv => DetailTrue
  BY DEF DetailInv, DetailTold, DetailTrue
<1> QED
  BY <1>1, <1>2, <1>3, PTL DEF Spec
-----------------------------------------------------------------------------
(* A set of numbers in its order.                                          *)

\* The members up to one, and their number.
Upto(S, s) == {t \in S : t <= s}
Rank(S, s) == Cardinality(Upto(S, s))

\* Later members have higher ranks.
LEMMA RankGrows ==
  ASSUME NEW S \in SUBSET Nat, IsFiniteSet(S), NEW s \in S, NEW t \in S, s < t
  PROVE  Rank(S, s) < Rank(S, t)
<1>0. \A u \in S : u \in Nat
  OBVIOUS
<1>1. Upto(S, s) \subseteq Upto(S, t) /\ t \in Upto(S, t) /\ t \notin Upto(S, s)
  <2>1. s \in Nat /\ t \in Nat
    BY <1>0
  <2>2. ASSUME NEW u \in S, u <= s PROVE u <= t
    BY <1>0, <2>1, <2>2
  <2>3. Upto(S, s) \subseteq Upto(S, t)
    BY <2>2, Zenon DEF Upto
  <2>4. t <= t /\ ~(t <= s)
    BY <2>1
  <2>5. t \in Upto(S, t) /\ t \notin Upto(S, s)
    BY <2>4, Zenon DEF Upto
  <2> QED
    BY <2>3, <2>5
<1>2. IsFiniteSet(Upto(S, t)) /\ IsFiniteSet(Upto(S, s))
  BY FS_Subset DEF Upto
<1>3. /\ Cardinality(Upto(S, s)) <= Cardinality(Upto(S, t))
      /\ Cardinality(Upto(S, s)) # Cardinality(Upto(S, t))
  BY <1>1, <1>2, FS_Subset
<1>4. Cardinality(Upto(S, s)) \in Nat /\ Cardinality(Upto(S, t)) \in Nat
  BY <1>2, FS_CardinalityType
<1> QED
  BY <1>3, <1>4 DEF Rank

\* Every rank up to the number of members is somebody's.
LEMMA RankOnto ==
  ASSUME NEW S \in SUBSET Nat, IsFiniteSet(S)
  PROVE  /\ Cardinality(S) \in Nat
         /\ \A s \in S : Rank(S, s) \in 1 .. Cardinality(S)
         /\ \A n \in 1 .. Cardinality(S) : \E s \in S : Rank(S, s) = n
<1> DEFINE N == Cardinality(S)
           f == [s \in S |-> Rank(S, s)]
<1>1. N \in Nat
  BY FS_CardinalityType
<1>2. ASSUME NEW s \in S PROVE Rank(S, s) \in 1 .. N
  <2>1. s \in Upto(S, s) /\ Upto(S, s) \subseteq S
    BY DEF Upto
  <2>2. IsFiniteSet(Upto(S, s)) /\ Cardinality(Upto(S, s)) <= N
    BY <2>1, FS_Subset
  <2>3. Cardinality(Upto(S, s)) \in Nat /\ Cardinality(Upto(S, s)) # 0
    BY <2>1, <2>2, FS_CardinalityType, FS_EmptySet
  <2> QED
    BY <1>1, <2>2, <2>3 DEF Rank
<1>3. \A s, t \in S : f[s] = f[t] => s = t
  <2> SUFFICES ASSUME NEW s \in S, NEW t \in S, Rank(S, s) = Rank(S, t), s # t PROVE FALSE
    OBVIOUS
  <2>1. s < t \/ t < s
    OBVIOUS
  <2>2. Rank(S, s) \in Nat /\ Rank(S, t) \in Nat
    BY <1>1, <1>2
  <2> QED
    BY <2>1, <2>2, RankGrows
<1>4. f \in Injection(S, 1 .. N)
  BY <1>2, <1>3 DEF Injection, IsInjective
<1>5. IsFiniteSet(1 .. N) /\ Cardinality(1 .. N) = N
  BY <1>1, FS_Interval
<1>6. f \in Surjection(S, 1 .. N)
  BY <1>4, <1>5, FS_Injection
<1>7. \A n \in 1 .. N : \E s \in S : f[s] = n
  BY <1>6 DEF Surjection
<1> QED
  BY <1>1, <1>2, <1>7

\* The n-th member is the one of rank n.
LEMMA InOrderIs ==
  ASSUME NEW S \in SUBSET Nat, IsFiniteSet(S)
  PROVE  /\ InOrder(S) \in Seq(S) /\ Len(InOrder(S)) = Cardinality(S) /\ Cardinality(S) \in Nat
         /\ DOMAIN InOrder(S) = 1 .. Cardinality(S)
         /\ \A n \in 1 .. Cardinality(S) : InOrder(S)[n] \in S /\ Rank(S, InOrder(S)[n]) = n
<1> DEFINE N == Cardinality(S)
           q == InOrder(S)
<1>1. N \in Nat /\ \A n \in 1 .. N : \E s \in S : Rank(S, s) = n
  BY RankOnto
<1>2. q = [n \in 1 .. N |-> CHOOSE s \in S : Cardinality({t \in S : t <= s}) = n]
  BY DEF InOrder
<1>3. ASSUME NEW n \in 1 .. N PROVE q[n] \in S /\ Rank(S, q[n]) = n
  <2>1. q[n] = CHOOSE s \in S : Cardinality({t \in S : t <= s}) = n
    BY <1>2
  <2>2. \E s \in S : Cardinality({t \in S : t <= s}) = n
    BY <1>1 DEF Rank, Upto
  <2>3. q[n] \in S /\ Cardinality({t \in S : t <= q[n]}) = n
    <3> HIDE DEF q
    <3> QED
      BY <2>1, <2>2
  <2> QED
    BY <2>3 DEF Rank, Upto
<1>4. q \in [1 .. N -> S]
  <2>1. DOMAIN q = 1 .. N
    BY <1>2
  <2> QED
    BY <1>2, <1>3
<1>5. q \in Seq(S) /\ Len(q) = N
  <2> HIDE DEF q, N
  <2> QED
    BY <1>1, <1>4
<1> QED
  BY <1>1, <1>3, <1>4, <1>5

\* It rises, and everybody is in it.
LEMMA InOrderRises ==
  ASSUME NEW S \in SUBSET Nat, IsFiniteSet(S)
  PROVE  /\ Ascending(InOrder(S))
         /\ \A s \in S : Rank(S, s) \in 1 .. Len(InOrder(S)) /\ InOrder(S)[Rank(S, s)] = s
<1> DEFINE N == Cardinality(S)
           q == InOrder(S)
<1>1. /\ Len(q) = N /\ N \in Nat
      /\ \A n \in 1 .. N : q[n] \in S /\ Rank(S, q[n]) = n
  BY InOrderIs
<1> HIDE DEF q, N
<1>2. ASSUME NEW i \in 1 .. N, NEW j \in 1 .. N, i < j PROVE q[i] < q[j]
  <2>1. q[i] \in S /\ q[j] \in S /\ Rank(S, q[i]) = i /\ Rank(S, q[j]) = j
    BY <1>1
  <2>2. CASE q[j] < q[i]
    <3>1. Rank(S, q[j]) < Rank(S, q[i])
      BY <2>1, <2>2, RankGrows
    <3> QED
      BY <1>2, <2>1, <3>1, <1>1
  <2>3. q[i] # q[j]
    BY <1>1, <1>2, <2>1
  <2>4. q[i] \in Nat /\ q[j] \in Nat
    BY <2>1
  <2> QED
    BY <2>2, <2>3, <2>4
<1>3. ASSUME NEW s \in S PROVE Rank(S, s) \in 1 .. N /\ q[Rank(S, s)] = s
  <2>1. Rank(S, s) \in 1 .. N
    BY RankOnto DEF N
  <2> DEFINE t == q[Rank(S, s)]
  <2>2. t \in S /\ Rank(S, t) = Rank(S, s)
    BY <1>1, <2>1
  <2> HIDE DEF t
  <2>3. ~(t < s) /\ ~(s < t)
    <3>1. Rank(S, s) \in Nat
      BY <1>1, <2>1
    <3>2. t < s => Rank(S, t) < Rank(S, s)
      BY <2>2, RankGrows
    <3>3. s < t => Rank(S, s) < Rank(S, t)
      BY <2>2, RankGrows
    <3> QED
      BY <2>2, <3>1, <3>2, <3>3
  <2>4. t = s
    BY <2>2, <2>3
  <2> QED
    BY <2>1, <2>4 DEF t
<1> QED
  BY <1>1, <1>2, <1>3 DEF Ascending, q
-----------------------------------------------------------------------------
(* A list without some of its rows.                                        *)

Kept(q, ids) == {i \in DOMAIN q : q[i] \notin ids}

\* The places that are kept are finitely many places of the rows.
LEMMA KeptFinite ==
  ASSUME NEW A, NEW q \in Seq(A), NEW ids
  PROVE  /\ Kept(q, ids) \in SUBSET Nat /\ Kept(q, ids) \subseteq 1 .. Len(q) /\ IsFiniteSet(Kept(q, ids))
         /\ Len(q) \in Nat /\ DOMAIN q = 1 .. Len(q)
         /\ \A i \in 1 .. Len(q) : q[i] \in A
<1>1. Len(q) \in Nat /\ DOMAIN q = 1 .. Len(q) /\ \A i \in 1 .. Len(q) : q[i] \in A
  BY LenProperties, ElementOfSeq
<1>2. Kept(q, ids) \subseteq 1 .. Len(q)
  BY <1>1 DEF Kept
<1>3. IsFiniteSet(1 .. Len(q))
  BY <1>1, FS_Interval
<1> QED
  BY <1>1, <1>2, <1>3, FS_Subset

\* Its rows are rows, and how many they are.
LEMMA MinusIs ==
  ASSUME NEW A, NEW q \in Seq(A), NEW ids
  PROVE  /\ Minus(q, ids) \in Seq(A \ ids)
         /\ Len(Minus(q, ids)) = Cardinality(Kept(q, ids))
<1> DEFINE K == Kept(q, ids)
           k == InOrder(K)
           m == Minus(q, ids)
           N == Cardinality(K)
<1>1. /\ N \in Nat /\ DOMAIN k = 1 .. N
      /\ \A n \in 1 .. N : k[n] \in K
  BY KeptFinite, InOrderIs
<1>2. m = [n \in 1 .. N |-> q[k[n]]]
  <2>1. m = [n \in DOMAIN k |-> q[k[n]]]
    BY DEF Minus, Kept
  <2> QED
    BY <1>1, <2>1
<1>3. \A i \in K : q[i] \in A \ ids
  BY KeptFinite DEF Kept
<1>4. m \in [1 .. N -> A \ ids] /\ \A n \in 1 .. N : m[n] = q[k[n]]
  <2> HIDE DEF K, k, m, N
  <2> QED
    BY <1>1, <1>2, <1>3
<1>5. m \in Seq(A \ ids) /\ Len(m) = N
  <2> HIDE DEF m, N
  <2> QED
    BY <1>1, <1>4
<1> QED
  BY <1>4, <1>5

\* A row that is kept, by its new place.
LEMMA MinusRow ==
  ASSUME NEW A, NEW q \in Seq(A), NEW ids, NEW n \in 1 .. Cardinality(Kept(q, ids))
  PROVE  Minus(q, ids)[n] = q[InOrder(Kept(q, ids))[n]]
<1>1. DOMAIN InOrder(Kept(q, ids)) = 1 .. Cardinality(Kept(q, ids))
  BY KeptFinite, InOrderIs
<1> QED
  BY <1>1 DEF Minus, Kept

\* Nothing is taken off when nothing is there to take.
LEMMA MinusNothing ==
  ASSUME NEW A, NEW q \in Seq(A), NEW ids, \A i \in 1 .. Len(q) : q[i] \notin ids
  PROVE  Minus(q, ids) = q
<1> DEFINE N == Len(q)
           K == 1 .. N
<1>1. N \in Nat /\ DOMAIN q = 1 .. N
  BY KeptFinite
<1>2. Kept(q, ids) = K
  BY <1>1 DEF Kept
<1>3. K \in SUBSET Nat /\ IsFiniteSet(K) /\ Cardinality(K) = N
  <2> HIDE DEF N
  <2> QED
    BY <1>1, FS_Interval
<1>4. ASSUME NEW i \in 1 .. N PROVE InOrder(K)[i] = i
  <2>1. Upto(K, i) = 1 .. i
    BY <1>1 DEF Upto
  <2>2. Rank(K, i) = i
    BY <1>1, <2>1, FS_Interval DEF Rank
  <2>3. InOrder(K)[Rank(K, i)] = i
    <3> HIDE DEF K
    <3> QED
      BY <1>3, InOrderRises DEF K
  <2> QED
    BY <2>2, <2>3
<1>5. /\ Minus(q, ids) \in Seq(A \ ids) /\ Len(Minus(q, ids)) = N
      /\ \A n \in 1 .. N : Minus(q, ids)[n] = q[n]
  <2>1. Minus(q, ids) \in Seq(A \ ids) /\ Len(Minus(q, ids)) = Cardinality(Kept(q, ids))
    BY MinusIs
  <2>2. \A n \in 1 .. Cardinality(Kept(q, ids)) : Minus(q, ids)[n] = q[InOrder(Kept(q, ids))[n]]
    BY MinusRow
  <2> HIDE DEF N, K
  <2> QED
    BY <1>2, <1>3, <1>4, <2>1, <2>2
<1>6. DOMAIN Minus(q, ids) = 1 .. N /\ Minus(q, ids) \in [1 .. N -> A] /\ q \in [1 .. N -> A]
  BY <1>5, LenProperties
<1> HIDE DEF N
<1> QED
  BY <1>5, <1>6

\* Rows that begin a list still do when the same are taken off both.
LEMMA MinusBegins ==
  ASSUME NEW A, NEW q \in Seq(A), NEW w \in Seq(A), NEW ids, Begins(q, w)
  PROVE  Begins(Minus(q, ids), Minus(w, ids))
<1> DEFINE K == Kept(q, ids)
           L == Kept(w, ids)
<1>1. /\ K \in SUBSET Nat /\ IsFiniteSet(K) /\ K \subseteq 1 .. Len(q)
      /\ L \in SUBSET Nat /\ IsFiniteSet(L) /\ L \subseteq 1 .. Len(w)
      /\ Len(q) \in Nat /\ Len(w) \in Nat /\ DOMAIN q = 1 .. Len(q) /\ DOMAIN w = 1 .. Len(w)
  BY KeptFinite
<1>2. Len(q) <= Len(w) /\ \A i \in 1 .. Len(q) : q[i] = w[i]
  BY DEF Begins
<1>3. \A i \in 1 .. Len(q) : i \in K <=> i \in L
  BY <1>1, <1>2 DEF Kept
<1>4. K \subseteq L
  BY <1>1, <1>3
<1>5. /\ Cardinality(K) <= Cardinality(L) /\ Cardinality(K) \in Nat /\ Cardinality(L) \in Nat
  BY <1>1, <1>4, FS_Subset, FS_CardinalityType
<1> HIDE DEF K, L
<1>6. ASSUME NEW n \in 1 .. Cardinality(K)
      PROVE  InOrder(K)[n] = InOrder(L)[n] /\ InOrder(K)[n] \in K
  <2> DEFINE s == InOrder(K)[n]
  <2>1. s \in K /\ Rank(K, s) = n
    BY <1>1, InOrderIs
  <2> HIDE DEF s
  <2>2. Upto(K, s) = Upto(L, s)
    <3>1. s \in 1 .. Len(q)
      BY <1>1, <2>1
    <3>2. ASSUME NEW t \in L, t <= s PROVE t \in K
      <4>1. t \in 1 .. Len(q)
        BY <1>1, <3>1, <3>2
      <4> QED
        BY <1>3, <3>2, <4>1
    <3> QED
      BY <1>4, <3>2 DEF Upto
  <2>3. s \in L /\ Rank(L, s) = n
    BY <1>4, <2>1, <2>2 DEF Rank
  <2>4. InOrder(L)[Rank(L, s)] = s
    BY <1>1, <2>3, InOrderRises
  <2> QED
    BY <2>1, <2>3, <2>4 DEF s
<1>7. /\ Len(Minus(q, ids)) = Cardinality(K) /\ Len(Minus(w, ids)) = Cardinality(L)
      /\ \A n \in 1 .. Cardinality(K) : Minus(q, ids)[n] = q[InOrder(K)[n]]
      /\ \A n \in 1 .. Cardinality(L) : Minus(w, ids)[n] = w[InOrder(L)[n]]
  <2>1. Len(Minus(q, ids)) = Cardinality(Kept(q, ids)) /\ Len(Minus(w, ids)) = Cardinality(Kept(w, ids))
    BY MinusIs
  <2>2. \A n \in 1 .. Cardinality(Kept(q, ids)) : Minus(q, ids)[n] = q[InOrder(Kept(q, ids))[n]]
    BY MinusRow
  <2>3. \A n \in 1 .. Cardinality(Kept(w, ids)) : Minus(w, ids)[n] = w[InOrder(Kept(w, ids))[n]]
    BY MinusRow
  <2> QED
    BY <2>1, <2>2, <2>3 DEF K, L
<1>8. ASSUME NEW n \in 1 .. Cardinality(K) PROVE Minus(q, ids)[n] = Minus(w, ids)[n]
  <2>1. n \in 1 .. Cardinality(L)
    BY <1>5
  <2>2. InOrder(K)[n] \in 1 .. Len(q) /\ InOrder(K)[n] = InOrder(L)[n]
    BY <1>1, <1>6
  <2> QED
    BY <1>2, <1>7, <2>1, <2>2
<1> QED
  BY <1>5, <1>7, <1>8 DEF Begins

\* A rising list goes on rising.
LEMMA MinusRises ==
  ASSUME NEW A \in SUBSET Nat, NEW q \in Seq(A), NEW ids, Ascending(q)
  PROVE  Ascending(Minus(q, ids))
<1> DEFINE K == Kept(q, ids)
<1>1. K \in SUBSET Nat /\ IsFiniteSet(K) /\ K \subseteq 1 .. Len(q)
  BY KeptFinite
<1>2. /\ Len(Minus(q, ids)) = Cardinality(K)
      /\ \A n \in 1 .. Cardinality(K) : Minus(q, ids)[n] = q[InOrder(K)[n]]
  <2>1. Len(Minus(q, ids)) = Cardinality(Kept(q, ids))
    BY MinusIs
  <2>2. \A n \in 1 .. Cardinality(Kept(q, ids)) : Minus(q, ids)[n] = q[InOrder(Kept(q, ids))[n]]
    BY MinusRow
  <2> QED
    BY <2>1, <2>2
<1> HIDE DEF K
<1>3. /\ Ascending(InOrder(K)) /\ Len(InOrder(K)) = Cardinality(K)
      /\ \A n \in 1 .. Cardinality(K) : InOrder(K)[n] \in K
  BY <1>1, InOrderIs, InOrderRises
<1>4. ASSUME NEW i \in 1 .. Cardinality(K), NEW j \in 1 .. Cardinality(K), i < j
      PROVE  Minus(q, ids)[i] < Minus(q, ids)[j]
  <2>1. InOrder(K)[i] < InOrder(K)[j]
    BY <1>3, <1>4 DEF Ascending
  <2>2. InOrder(K)[i] \in 1 .. Len(q) /\ InOrder(K)[j] \in 1 .. Len(q)
    BY <1>1, <1>3
  <2> QED
    BY <1>2, <2>1, <2>2 DEF Ascending
<1> QED
  BY <1>2, <1>4 DEF Ascending

\* How many are left when all that are taken off were there, once.
LEMMA MinusCount ==
  ASSUME NEW A \in SUBSET Nat, NEW q \in Seq(A), NEW ids, Ascending(q), ids \subseteq ToSet(q)
  PROVE  /\ Cardinality(ids) \in Nat /\ Cardinality(ids) <= Len(q)
         /\ Len(Minus(q, ids)) = Len(q) - Cardinality(ids)
<1> DEFINE K == Kept(q, ids)
           N == Len(q)
           J == {i \in 1 .. N : q[i] \in ids}
           f == [i \in J |-> q[i]]
<1>1. N \in Nat /\ DOMAIN q = 1 .. N /\ \A i \in 1 .. N : q[i] \in Nat
  BY KeptFinite
<1>2. IsFiniteSet(1 .. N) /\ Cardinality(1 .. N) = N
  <2> HIDE DEF N
  <2> QED
    BY <1>1, FS_Interval
<1>3. K = (1 .. N) \ J /\ J \subseteq 1 .. N /\ (1 .. N) \cap J = J
  BY <1>1 DEF Kept
<1>4. \A i, j \in J : f[i] = f[j] => i = j
  <2> SUFFICES ASSUME NEW i \in J, NEW j \in J, q[i] = q[j], i # j PROVE FALSE
    OBVIOUS
  <2>1. i \in 1 .. N /\ j \in 1 .. N
    OBVIOUS
  <2>2. i < j \/ j < i
    BY <1>1, <2>1
  <2>3. q[i] < q[j] \/ q[j] < q[i]
    BY <2>1, <2>2 DEF Ascending
  <2> QED
    BY <1>1, <2>1, <2>3
<1>5. \A x \in ids : \E i \in J : f[i] = x
  BY <1>1 DEF ToSet
<1>6. f \in [J -> ids]
  OBVIOUS
<1>7. f \in Bijection(J, ids)
  BY <1>4, <1>5, <1>6 DEF Bijection, Injection, Surjection, IsInjective
<1> HIDE DEF f, J, N, K
<1>8. IsFiniteSet(J) /\ Cardinality(J) <= N
  <2>1. IsFiniteSet(J) /\ Cardinality(J) <= Cardinality(1 .. N)
    BY <1>2, <1>3, FS_Subset
  <2> QED
    BY <1>2, <2>1
<1>9. ExistsBijection(J, ids)
  BY <1>7 DEF ExistsBijection
<1>10. Cardinality(ids) = Cardinality(J)
  BY <1>8, <1>9, FS_Bijection
<1>11. Cardinality(K) = N - Cardinality(J)
  <2>1. Cardinality((1 .. N) \ J) = Cardinality(1 .. N) - Cardinality((1 .. N) \cap J)
    BY <1>2, FS_Difference
  <2> QED
    BY <1>2, <1>3, <2>1
<1>12. Cardinality(J) \in Nat
  BY <1>8, FS_CardinalityType
<1>13. Len(Minus(q, ids)) = Cardinality(K)
  BY MinusIs DEF K
<1> QED
  BY <1>8, <1>10, <1>11, <1>12, <1>13 DEF N
-----------------------------------------------------------------------------
(* The lists, a page at a time.                                            *)

\* Students are finitely many numbers.
LEMMA StudentsNumbers == Students \in SUBSET Nat /\ IsFiniteSet(Students)
BY StudentsAssumption

\* What a page is cut from.
LEMMA CutFromOrder ==
  ASSUME NEW S \in SUBSET Students, NEW r, NEW free,
         r.offset \in Nat, r.limit \in Nat, r.filter = "ungrouped" => S \subseteq free,
         NEW a, a.seen = InOrder(S), a.total = Len(InOrder(S)),
         a.rows = SubSeq(InOrder(S), r.offset + 1,
                    IF r.offset + r.limit < Len(InOrder(S)) THEN r.offset + r.limit ELSE Len(InOrder(S)))
  PROVE  Cut(a, r, free)
<1> DEFINE q == InOrder(S)
           o == r.offset
           till == IF o + r.limit < Len(q) THEN o + r.limit ELSE Len(q)
<1>1. S \in SUBSET Nat /\ IsFiniteSet(S)
  BY StudentsNumbers, FS_Subset
<1>2. q \in Seq(S) /\ Ascending(q)
  BY <1>1, InOrderIs, InOrderRises
<1>3. Len(q) \in Nat /\ \A i \in 1 .. Len(q) : q[i] \in S
  BY <1>2, LenProperties, ElementOfSeq
<1> HIDE DEF q
<1>4. till \in Nat /\ till <= Len(q) /\ o \in Nat
  BY <1>3
<1>5. a.rows = SubSeq(q, o + 1, till)
  BY DEF q
<1> HIDE DEF till, o
<1> DEFINE T == SubSeq(q, o + 1, till)
<1>6. /\ T \in Seq(S)
      /\ Len(T) = IF o + 1 <= till THEN till - (o + 1) + 1 ELSE 0
      /\ \A i \in 1 .. till - (o + 1) + 1 : T[i] = q[(o + 1) + i - 1]
  <2>1. o + 1 \in Int /\ till \in Int /\ \A i \in (o + 1) .. till : q[i] \in S
    BY <1>3, <1>4
  <2> QED
    BY <2>1, SubSeqProperties
<1> HIDE DEF T
<1>7. ASSUME NEW i \in 1 .. Len(T) PROVE o + i <= Len(q) /\ T[i] = q[o + i]
  <2>1. CASE o + 1 <= till
    <3>1. Len(T) = till - (o + 1) + 1
      BY <1>6, <2>1
    <3>2. i \in 1 .. till - (o + 1) + 1
      BY <3>1, <1>7
    <3>3. T[i] = q[(o + 1) + i - 1]
      BY <1>6, <3>2
    <3>4. (o + 1) + i - 1 = o + i /\ o + i <= till
      BY <1>4, <3>2
    <3> QED
      BY <1>3, <1>4, <3>3, <3>4
  <2>2. CASE ~(o + 1 <= till)
    BY <1>6, <1>7, <2>2
  <2> QED
    BY <2>1, <2>2
<1>8. a.rows = T
  BY <1>5 DEF T
<1>9. a.rows \in Seq(Students) /\ q \in Seq(Students)
  BY <1>2, <1>6, <1>8, SeqMonotonic
<1>10. r.filter = "ungrouped" => a.rows \in Seq(r.doubt \cup free)
  <2> DEFINE F == r.doubt \cup free
  <2>1. r.filter = "ungrouped" => S \subseteq F
    OBVIOUS
  <2> HIDE DEF F
  <2>2. S \subseteq F => Seq(S) \subseteq Seq(F)
    BY SeqMonotonic
  <2>3. r.filter = "ungrouped" => a.rows \in Seq(F)
    BY <1>6, <1>8, <2>1, <2>2
  <2> QED
    BY <2>3 DEF F
<1> QED
  BY <1>2, <1>7, <1>8, <1>9, <1>10 DEF Cut, q, o

\* The only request of a list is answered.
LEMMA AnsweredTrue ==
  ASSUME NEW l, NEW free, ListTrue(l, free), NEW r \in l.reqs,
         NEW a, NEW k, RequestFields \subseteq DOMAIN k, k.kind = r.kind, k.limit = r.limit,
         k.offset = r.offset, k.answer = <<a>>, Cut(a, k, free),
         NEW m, m = [l EXCEPT !.reqs = (@ \ {r}) \cup {k}]
  PROVE  ListTrue(m, free)
<1>1. RowsTrue(l, free) /\ RequestTrue(r, l.rows, free) /\ l.reqs = {r}
  BY DEF ListTrue
<1>3. RequestTrue(k, l.rows, free)
  BY <1>1 DEF RequestTrue
<1>4. /\ PageFields \subseteq DOMAIN m /\ m.reqs = {k} /\ m.rows = l.rows /\ m.seen = l.seen
      /\ m.steady = l.steady /\ m.total = l.total /\ m.of = l.of /\ m.doubt = l.doubt
  BY <1>1 DEF RowsTrue, PageFields
<1>5. RowsTrue(m, free)
  BY <1>1, <1>4 DEF RowsTrue
<1> QED
  BY <1>3, <1>4, <1>5 DEF ListTrue

\* Fields of a list that only the screen knows.
LEMMA SamePageTrue ==
  ASSUME NEW l, NEW free, ListTrue(l, free), NEW m, PageFields \subseteq DOMAIN m,
         \A f \in PageFields : m[f] = l[f]
  PROVE  ListTrue(m, free)
<1>1. /\ m.reqs = l.reqs /\ m.rows = l.rows /\ m.seen = l.seen
      /\ m.steady = l.steady /\ m.total = l.total /\ m.of = l.of /\ m.doubt = l.doubt
  BY DEF PageFields
<1> QED
  BY <1>1 DEF ListTrue, RowsTrue

\* A request that fails counts no more.
LEMMA FailedTrue ==
  ASSUME NEW l, NEW free, ListTrue(l, free), NEW r, NEW m, PageFields \subseteq DOMAIN m,
         m.reqs = l.reqs \ {r}, \A f \in PageFields \ {"reqs"} : m[f] = l[f]
  PROVE  ListTrue(m, free)
<1>1. /\ m.rows = l.rows /\ m.seen = l.seen
      /\ m.steady = l.steady /\ m.total = l.total /\ m.of = l.of /\ m.doubt = l.doubt
  BY DEF PageFields
<1> QED
  BY <1>1 DEF ListTrue, RowsTrue

\* A new request is the only one that counts.
LEMMA AskTrue ==
  ASSUME NEW l, NEW free, RowsTrue(l, free), NEW kind \in {"first", "more"}, NEW f, NEW n \in Nat,
         NEW o, o = IF kind = "first" THEN 0 ELSE Len(l.rows)
  PROVE  /\ ListTrue(Ask(l, RequestOf(kind, f, o, n)), free)
         /\ DOMAIN Ask(l, RequestOf(kind, f, o, n)) = DOMAIN l
         /\ \A x \in DOMAIN l \ {"reqs"} : Ask(l, RequestOf(kind, f, o, n))[x] = l[x]
<1> DEFINE r == RequestOf(kind, f, o, n)
           m == Ask(l, r)
<1>1. m = [l EXCEPT !.reqs = {r}]
  BY DEF Ask, Superseded
<1>2. RequestTrue(r, l.rows, free)
  BY DEF RequestOf, RequestTrue, RequestFields
<1> HIDE DEF r
<1>3. /\ DOMAIN m = DOMAIN l /\ \A x \in DOMAIN l \ {"reqs"} : m[x] = l[x]
      /\ PageFields \subseteq DOMAIN m /\ m.reqs = {r} /\ m.rows = l.rows /\ m.seen = l.seen
      /\ m.steady = l.steady /\ m.total = l.total /\ m.of = l.of /\ m.doubt = l.doubt
  BY <1>1 DEF RowsTrue, PageFields
<1> HIDE DEF m
<1>4. RowsTrue(m, free)
  BY <1>3 DEF RowsTrue
<1>5. ListTrue(m, free)
  BY <1>2, <1>3, <1>4 DEF ListTrue
<1> QED
  BY <1>3, <1>5 DEF m, r

\* A first page is shown.
LEMMA FirstPageTrue ==
  ASSUME NEW l, NEW free, ListTrue(l, free), NEW r \in l.reqs, r.kind = "first", r.answer # <<>>
  PROVE  ListTrue(FirstPage(l, r), free) /\ DOMAIN FirstPage(l, r) = DOMAIN l
         /\ \A x \in DOMAIN l \ PageFields : FirstPage(l, r)[x] = l[x]
<1> DEFINE a == r.answer[1]
           m == FirstPage(l, r)
<1>1. PageFields \subseteq DOMAIN l /\ l.reqs = {r} /\ r.offset = 0 /\ Cut(a, r, free)
  BY DEF ListTrue, RowsTrue, RequestTrue
<1> HIDE DEF a
<1>2. m = [l EXCEPT !.rows = a.rows, !.total = a.total, !.of = r.filter, !.seen = a.seen,
                    !.steady = TRUE, !.doubt = r.doubt, !.reqs = {}]
  BY <1>1 DEF FirstPage, a
<1>3. /\ DOMAIN m = DOMAIN l /\ \A x \in DOMAIN l \ PageFields : m[x] = l[x]
      /\ m.reqs = {} /\ m.rows = a.rows /\ m.seen = a.seen
      /\ m.total = a.total /\ m.of = r.filter /\ m.doubt = r.doubt
  BY <1>1, <1>2 DEF PageFields
<1> HIDE DEF m
<1>4. a.rows \in Seq(Students) /\ a.seen \in Seq(Students) /\ Ascending(a.seen) /\ a.total = Len(a.seen)
  BY <1>1 DEF Cut
<1>5. \A i \in 1 .. Len(a.rows) : i <= Len(a.seen) /\ a.rows[i] = a.seen[i]
  <2>1. \A i \in 1 .. Len(a.rows) : 0 + i <= Len(a.seen) /\ a.rows[i] = a.seen[0 + i]
    BY <1>1 DEF Cut
  <2>2. \A i \in 1 .. Len(a.rows) : 0 + i = i
    OBVIOUS
  <2> QED
    BY <2>1, <2>2
<1>6. Begins(a.rows, a.seen)
  <2>1. Len(a.rows) \in Nat /\ Len(a.seen) \in Nat
    BY <1>4, LenProperties
  <2>2. Len(a.rows) = 0 \/ Len(a.rows) \in 1 .. Len(a.rows)
    BY <2>1
  <2>3. Len(a.rows) <= Len(a.seen)
    BY <1>5, <2>1, <2>2
  <2> QED
    BY <1>5, <2>3 DEF Begins
<1>7. m.of = "ungrouped" => m.rows \in Seq(m.doubt \cup free)
  BY <1>1, <1>3 DEF Cut
<1>8. RowsTrue(m, free)
  BY <1>1, <1>3, <1>4, <1>6, <1>7 DEF RowsTrue
<1> QED
  BY <1>3, <1>8 DEF ListTrue, m

\* A further page is appended: none of its rows was there, when both were cut
\* from the same students.
LEMMA NextPageTrue ==
  ASSUME NEW l, NEW free, ListTrue(l, free), NEW r \in l.reqs, r.kind = "more", r.answer # <<>>,
         NEW rows, rows \in {NewRows(l, r), r.answer[1].rows}
  PROVE  ListTrue(NextPage(l, r, rows), free) /\ DOMAIN NextPage(l, r, rows) = DOMAIN l
         /\ \A x \in DOMAIN l \ PageFields : NextPage(l, r, rows)[x] = l[x]
<1> DEFINE a == r.answer[1]
           m == NextPage(l, r, rows)
           o == Len(l.rows)
           still == l.steady /\ a.seen = l.seen /\ r.filter = l.of
<1>1. PageFields \subseteq DOMAIN l /\ l.reqs = {r} /\ r.offset = o /\ Cut(a, r, free)
  BY DEF ListTrue, RowsTrue, RequestTrue
<1>2. rows \in {Minus(a.rows, ToSet(l.rows)), a.rows}
  BY DEF NewRows
<1>3. m = [l EXCEPT !.rows = @ \o rows, !.total = a.total, !.reqs = {},
             !.of = IF r.filter = @ THEN @ ELSE "mixed", !.doubt = @ \cup r.doubt, !.steady = @ /\ a.seen = l.seen /\ r.filter = l.of]
  BY <1>1 DEF NextPage
<1> HIDE DEF a
<1>4. /\ DOMAIN m = DOMAIN l /\ \A x \in DOMAIN l \ PageFields : m[x] = l[x]
      /\ m.reqs = {} /\ m.rows = l.rows \o rows /\ m.seen = l.seen /\ m.total = a.total
      /\ m.of = (IF r.filter = l.of THEN l.of ELSE "mixed") /\ m.doubt = l.doubt \cup r.doubt
      /\ m.steady => still
  BY <1>1, <1>3 DEF PageFields
<1> HIDE DEF m
<1>5. /\ a.rows \in Seq(Students) /\ l.rows \in Seq(Students) /\ l.seen \in Seq(Students) /\ a.total = Len(a.seen)
      /\ \A i \in 1 .. Len(a.rows) : o + i <= Len(a.seen) /\ a.rows[i] = a.seen[o + i]
  BY <1>1 DEF Cut, ListTrue, RowsTrue
<1>6. \A A : a.rows \in Seq(A) => rows \in Seq(A)
  <2> SUFFICES ASSUME NEW A, a.rows \in Seq(A) PROVE rows \in Seq(A)
    OBVIOUS
  <2> DEFINE ids == ToSet(l.rows)
             B == A \ ids
  <2>1. Minus(a.rows, ids) \in Seq(B)
    BY MinusIs
  <2>2. B \subseteq A
    OBVIOUS
  <2> HIDE DEF B, ids
  <2>3. Minus(a.rows, ids) \in Seq(A)
    BY <2>1, <2>2, SeqMonotonic
  <2> QED
    BY <1>2, <2>3 DEF ids
<1>7. m.rows \in Seq(Students)
  BY <1>4, <1>5, <1>6, ConcatProperties
<1>8. m.of = "ungrouped" => m.rows \in Seq(m.doubt \cup free)
  <2> SUFFICES ASSUME m.of = "ungrouped" PROVE m.rows \in Seq(m.doubt \cup free)
    OBVIOUS
  <2>1. r.filter = "ungrouped" /\ l.of = "ungrouped"
    BY <1>4
  <2> DEFINE F == l.doubt \cup free
             G == r.doubt \cup free
             H == m.doubt \cup free
  <2>2. l.rows \in Seq(F) /\ a.rows \in Seq(G)
    BY <1>1, <2>1 DEF ListTrue, RowsTrue, Cut
  <2>3. F \subseteq H /\ G \subseteq H
    BY <1>4
  <2> HIDE DEF F, G, H
  <2>4. l.rows \in Seq(H) /\ rows \in Seq(H)
    BY <1>6, <2>2, <2>3, SeqMonotonic
  <2>5. l.rows \o rows \in Seq(H)
    BY <2>4, ConcatProperties
  <2> QED
    BY <1>4, <2>5 DEF H
<1>9. m.steady => Ascending(m.seen) /\ Begins(m.rows, m.seen) /\ m.total = Len(m.seen)
  <2> SUFFICES ASSUME still PROVE Ascending(m.seen) /\ Begins(m.rows, m.seen) /\ m.total = Len(m.seen)
    BY <1>4
  <2>1. Ascending(l.seen) /\ Begins(l.rows, l.seen) /\ a.seen = l.seen
    BY DEF ListTrue, RowsTrue
  <2>2. /\ o \in Nat /\ Len(a.rows) \in Nat /\ Len(l.seen) \in Nat /\ o <= Len(l.seen)
        /\ \A j \in 1 .. Len(l.seen) : l.seen[j] \in Nat
        /\ \A j \in 1 .. o : l.rows[j] = l.seen[j]
    BY <1>5, <2>1, LenProperties, ElementOfSeq, StudentsAssumption DEF Begins
  <2>3. DOMAIN l.rows = 1 .. o
    BY <1>5, LenProperties
  <2> HIDE DEF o
  <2>4. ASSUME NEW i \in 1 .. Len(a.rows) PROVE a.rows[i] \notin ToSet(l.rows)
    <3>1. o + i <= Len(l.seen) /\ a.rows[i] = l.seen[o + i]
      BY <1>5, <2>1
    <3>2. ASSUME NEW j \in 1 .. o PROVE l.seen[o + i] # l.seen[j]
      <4>1. j \in 1 .. Len(l.seen) /\ o + i \in 1 .. Len(l.seen) /\ j < o + i
        BY <2>2, <2>4, <3>1, <3>2
      <4>2. l.seen[j] < l.seen[o + i]
        BY <2>1, <4>1 DEF Ascending
      <4> QED
        BY <2>2, <4>1, <4>2
    <3>3. \A j \in 1 .. o : l.rows[j] # a.rows[i]
      BY <2>2, <3>1, <3>2
    <3> QED
      BY <2>3, <3>3 DEF ToSet
  <2>5. rows = a.rows
    <3> DEFINE ids == ToSet(l.rows)
    <3>1. \A i \in 1 .. Len(a.rows) : a.rows[i] \notin ids
      BY <2>4
    <3> HIDE DEF ids
    <3>2. Minus(a.rows, ids) = a.rows
      BY <1>5, <3>1, MinusNothing
    <3> QED
      BY <1>2, <3>2 DEF ids
  <2>6. /\ Len(m.rows) = o + Len(a.rows)
        /\ \A i \in 1 .. o + Len(a.rows) : m.rows[i] = IF i <= o THEN l.rows[i] ELSE a.rows[i - o]
    <3> DEFINE b == l.rows
               c == a.rows
    <3>1. m.rows = b \o c /\ b \in Seq(Students) /\ c \in Seq(Students) /\ o = Len(b)
      BY <1>4, <1>5, <2>5 DEF o
    <3> HIDE DEF b, c
    <3>2. /\ Len(b \o c) = Len(b) + Len(c)
          /\ \A i \in 1 .. Len(b) + Len(c) : (b \o c)[i] = IF i <= Len(b) THEN b[i] ELSE c[i - Len(b)]
      BY <3>1, ConcatProperties
    <3>3. /\ Len(m.rows) = o + Len(c)
          /\ \A i \in 1 .. o + Len(c) : m.rows[i] = IF i <= o THEN b[i] ELSE c[i - o]
      BY <3>1, <3>2
    <3> QED
      BY <3>3 DEF b, c
  <2>7. o + Len(a.rows) <= Len(l.seen)
    <3>1. CASE Len(a.rows) = 0
      BY <2>2, <3>1
    <3>2. CASE Len(a.rows) \in 1 .. Len(a.rows)
      BY <1>5, <2>1, <3>2
    <3> QED
      BY <2>2, <3>1, <3>2
  <2>8. ASSUME NEW i \in 1 .. o + Len(a.rows) PROVE m.rows[i] = l.seen[i]
    <3>1. CASE i <= o
      BY <2>2, <2>6, <3>1
    <3>2. CASE ~(i <= o)
      <4>1. i - o \in 1 .. Len(a.rows) /\ o + (i - o) = i
        BY <2>2, <3>2
      <4>2. a.rows[i - o] = l.seen[o + (i - o)]
        BY <1>5, <2>1, <4>1
      <4> QED
        BY <2>6, <3>2, <4>1, <4>2
    <3> QED
      BY <3>1, <3>2
  <2> QED
    BY <1>4, <1>5, <2>1, <2>6, <2>7, <2>8 DEF Begins
<1>10. RowsTrue(m, free)
  BY <1>1, <1>4, <1>5, <1>7, <1>8, <1>9 DEF RowsTrue
<1> QED
  BY <1>4, <1>10 DEF ListTrue, m

\* The rows of a selection are taken off.
LEMMA TakenTrue ==
  ASSUME NEW l, NEW free, RowsTrue(l, free), NEW ids
  PROVE  /\ RowsTrue(Taken(l, ids), free) /\ DOMAIN Taken(l, ids) = DOMAIN l
         /\ \A x \in DOMAIN l \ {"rows", "seen", "total", "steady"} : Taken(l, ids)[x] = l[x]
         /\ l.of = "ungrouped" => Taken(l, ids).rows \in Seq((l.doubt \cup free) \ ids)
<1> DEFINE m == Taken(l, ids)
<1>1. /\ PageFields \subseteq DOMAIN l /\ l.rows \in Seq(Students) /\ l.seen \in Seq(Students)
      /\ l.steady => Ascending(l.seen) /\ Begins(l.rows, l.seen) /\ l.total = Len(l.seen)
      /\ l.of = "ungrouped" => l.rows \in Seq(l.doubt \cup free)
  BY DEF RowsTrue
<1>2. /\ DOMAIN m = DOMAIN l /\ \A x \in DOMAIN l \ {"rows", "seen", "total", "steady"} : m[x] = l[x]
      /\ m.rows = Minus(l.rows, ids) /\ m.seen = Minus(l.seen, ids)
      /\ m.total = IF l.total > Cardinality(ids) THEN l.total - Cardinality(ids) ELSE 0
      /\ m.steady => l.steady /\ ids \subseteq ToSet(l.seen)
      /\ m.of = l.of /\ m.doubt = l.doubt
  BY <1>1 DEF Taken, PageFields
<1> HIDE DEF m
<1>3. ASSUME NEW A, NEW q \in Seq(A) PROVE Minus(q, ids) \in Seq(A) /\ Minus(q, ids) \in Seq(A \ ids)
  <2> DEFINE B == A \ ids
  <2>1. Minus(q, ids) \in Seq(B)
    BY MinusIs
  <2>2. B \subseteq A
    OBVIOUS
  <2> HIDE DEF B
  <2> QED
    BY <2>1, <2>2, SeqMonotonic DEF B
<1>4. m.rows \in Seq(Students) /\ m.seen \in Seq(Students)
  BY <1>1, <1>2, <1>3
<1>5. l.of = "ungrouped" => m.rows \in Seq(l.doubt \cup free) /\ m.rows \in Seq((l.doubt \cup free) \ ids)
  <2> DEFINE F == l.doubt \cup free
  <2>1. l.of = "ungrouped" => l.rows \in Seq(F)
    BY <1>1
  <2> HIDE DEF F
  <2>2. l.of = "ungrouped" => m.rows \in Seq(F) /\ m.rows \in Seq(F \ ids)
    BY <1>2, <1>3, <2>1
  <2> QED
    BY <2>2 DEF F
<1>6. m.steady => Ascending(m.seen) /\ Begins(m.rows, m.seen) /\ m.total = Len(m.seen)
  <2> SUFFICES ASSUME l.steady, ids \subseteq ToSet(l.seen)
               PROVE  Ascending(m.seen) /\ Begins(m.rows, m.seen) /\ m.total = Len(m.seen)
    BY <1>2
  <2>1. Ascending(l.seen) /\ Begins(l.rows, l.seen) /\ l.total = Len(l.seen)
    BY <1>1
  <2>2. Begins(m.rows, m.seen)
    BY <1>1, <1>2, <2>1, MinusBegins
  <2> DEFINE q == l.seen
  <2>3. q \in Seq(Students) /\ Students \in SUBSET Nat /\ Ascending(q) /\ ids \subseteq ToSet(q)
    BY <1>1, <2>1, StudentsNumbers
  <2> HIDE DEF q
  <2>4. Ascending(Minus(q, ids))
    BY <2>3, MinusRises
  <2>5. Cardinality(ids) \in Nat /\ Cardinality(ids) <= Len(q) /\ Len(Minus(q, ids)) = Len(q) - Cardinality(ids)
    BY <2>3, MinusCount
  <2>6. Len(q) \in Nat
    BY <2>3, LenProperties
  <2>7. (IF Len(q) > Cardinality(ids) THEN Len(q) - Cardinality(ids) ELSE 0) = Len(q) - Cardinality(ids)
    BY <2>5, <2>6
  <2> QED
    BY <1>2, <2>1, <2>2, <2>4, <2>5, <2>7 DEF q
<1>7. RowsTrue(m, free)
  BY <1>1, <1>2, <1>4, <1>5, <1>6 DEF RowsTrue
<1> QED
  BY <1>2, <1>5, <1>7 DEF m

\* Others join a group: only those the list has not heard of count no more.
LEMMA UnheardTrue ==
  ASSUME NEW l, NEW free, NEW after, NEW ids, free \ ids \subseteq after, PageFields \subseteq DOMAIN l
  PROVE  /\ RowsTrue(l, free) => RowsTrue(Unheard(l, ids), after)
         /\ ListTrue(l, free) => ListTrue(Unheard(l, ids), after)
         /\ DOMAIN Unheard(l, ids) = DOMAIN l
         /\ \A x \in DOMAIN l \ {"doubt", "reqs"} : Unheard(l, ids)[x] = l[x]
<1> DEFINE m == Unheard(l, ids)
<1>1. l # None
  <2>1. "rows" \notin DOMAIN None /\ "rows" \in DOMAIN l
    BY DEF None, PageFields
  <2> QED
    BY <2>1
<1>2. m = [l EXCEPT !.doubt = @ \cup ids, !.reqs = {[r EXCEPT !.doubt = @ \cup ids] : r \in @}]
  BY <1>1 DEF Unheard
<1>3. /\ DOMAIN m = DOMAIN l /\ \A x \in DOMAIN l \ {"doubt", "reqs"} : m[x] = l[x]
      /\ m.doubt = l.doubt \cup ids /\ m.reqs = {[r EXCEPT !.doubt = @ \cup ids] : r \in l.reqs}
      /\ m.rows = l.rows /\ m.seen = l.seen /\ m.steady = l.steady /\ m.total = l.total /\ m.of = l.of
  BY <1>2 DEF PageFields
<1> HIDE DEF m
<1>4. ASSUME NEW q, NEW d, q \in Seq(d \cup free) PROVE q \in Seq((d \cup ids) \cup after)
  <2> DEFINE F == d \cup free
             G == (d \cup ids) \cup after
  <2>1. F \subseteq G /\ q \in Seq(F)
    BY <1>4
  <2> HIDE DEF F, G
  <2>2. q \in Seq(G)
    BY <2>1, SeqMonotonic
  <2> QED
    BY <2>2 DEF G
<1>5. ASSUME RowsTrue(l, free) PROVE RowsTrue(m, after)
  <2>1. m.of = "ungrouped" => m.rows \in Seq(m.doubt \cup after)
    BY <1>3, <1>4, <1>5 DEF RowsTrue
  <2> QED
    BY <1>3, <1>5, <2>1 DEF RowsTrue
<1>6. ASSUME ListTrue(l, free) PROVE ListTrue(m, after)
  <2>1. ASSUME NEW r \in l.reqs, NEW k, k = [r EXCEPT !.doubt = @ \cup ids]
        PROVE  RequestTrue(k, m.rows, after)
    <3>1. RequestTrue(r, l.rows, free)
      BY <1>6 DEF ListTrue
    <3>2. /\ DOMAIN k = DOMAIN r /\ k.kind = r.kind /\ k.filter = r.filter /\ k.offset = r.offset
          /\ k.limit = r.limit /\ k.answer = r.answer /\ k.doubt = r.doubt \cup ids
      BY <2>1, <3>1 DEF RequestTrue, RequestFields
    <3>3. k.answer # <<>> => Cut(k.answer[1], k, after)
      <4> SUFFICES ASSUME k.answer # <<>> PROVE Cut(k.answer[1], k, after)
        OBVIOUS
      <4> DEFINE a == r.answer[1]
      <4>1. Cut(a, r, free)
        BY <3>1, <3>2 DEF RequestTrue
      <4> HIDE DEF a
      <4>2. k.filter = "ungrouped" => a.rows \in Seq(k.doubt \cup after)
        BY <1>4, <3>2, <4>1 DEF Cut
      <4>3. Cut(a, k, after)
        BY <3>2, <4>1, <4>2 DEF Cut
      <4> QED
        BY <3>2, <4>3 DEF a
    <3> QED
      BY <1>3, <3>1, <3>2, <3>3 DEF RequestTrue
  <2>2. RowsTrue(m, after)
    BY <1>5, <1>6 DEF ListTrue
  <2>3. \A r, q \in m.reqs : r = q
    BY <1>3, <1>6 DEF ListTrue
  <2>4. \A k \in m.reqs : RequestTrue(k, m.rows, after)
    BY <1>3, <2>1
  <2> QED
    BY <2>2, <2>3, <2>4 DEF ListTrue
<1> QED
  BY <1>3, <1>5, <1>6 DEF m

\* Students lose their groups.
LEMMA FreerTrue ==
  ASSUME NEW l, NEW free, NEW after, free \subseteq after, ListTrue(l, free)
  PROVE  ListTrue(l, after)
<1>1. ASSUME NEW q, NEW d, q \in Seq(d \cup free) PROVE q \in Seq(d \cup after)
  <2> DEFINE F == d \cup free
             G == d \cup after
  <2>1. F \subseteq G /\ q \in Seq(F)
    BY <1>1
  <2> HIDE DEF F, G
  <2>2. q \in Seq(G)
    BY <2>1, SeqMonotonic
  <2> QED
    BY <2>2 DEF G
<1>2. RowsTrue(l, after)
  BY <1>1 DEF ListTrue, RowsTrue
<1>3. ASSUME NEW r \in l.reqs PROVE RequestTrue(r, l.rows, after)
  <2>1. RequestTrue(r, l.rows, free)
    BY DEF ListTrue
  <2>2. r.answer # <<>> => Cut(r.answer[1], r, after)
    BY <1>1, <2>1 DEF RequestTrue, Cut
  <2> QED
    BY <2>1, <2>2 DEF RequestTrue
<1> QED
  BY <1>2, <1>3 DEF ListTrue
-----------------------------------------------------------------------------
(* Loads.                                                                  *)

\* Fields that say nothing of the rows.
LEMMA RowsStay ==
  ASSUME NEW l, NEW free, RowsTrue(l, free), NEW m, DOMAIN m = DOMAIN l,
         \A x \in PageFields \ {"reqs"} : m[x] = l[x]
  PROVE  RowsTrue(m, free)
<1>1. /\ m.rows = l.rows /\ m.seen = l.seen
      /\ m.steady = l.steady /\ m.total = l.total /\ m.of = l.of /\ m.doubt = l.doubt
  BY DEF PageFields
<1> QED
  BY <1>1 DEF RowsTrue

\* A list that is open is not None.
LEMMA SomeList ==
  /\ \A l : ListFields \subseteq DOMAIN l => l # None
  /\ \A t : TaskFields \subseteq DOMAIN t => t # None
<1>1. "rows" \notin DOMAIN None
  BY DEF None
<1>2. "rows" \in ListFields /\ "rows" \in TaskFields
  BY DEF ListFields, TaskFields, PageFields
<1> QED
  BY <1>1, <1>2

\* A true list has true rows.
LEMMA OkRows == ASSUME NEW l, NEW free, ListOk(l, free) PROVE RowsOk(l, free)
BY DEF ListOk, RowsOk, ListTrue

\* An empty list has the rows of any table.
LEMMA NoRows ==
  ASSUME NEW l, NEW free, RowsTrue(l, free), NEW m, DOMAIN m = DOMAIN l, m.rows = <<>>,
         \A x \in PageFields \ {"reqs", "rows"} : m[x] = l[x]
  PROVE  RowsTrue(m, free)
<1>1. /\ m.seen = l.seen
      /\ m.steady = l.steady /\ m.total = l.total /\ m.of = l.of /\ m.doubt = l.doubt
  BY DEF PageFields
<1>2. PageFields \subseteq DOMAIN l /\ l.seen \in Seq(Students) /\ (l.steady => Ascending(l.seen) /\ l.total = Len(l.seen))
  BY DEF RowsTrue
<1>3. /\ Len(<<>>) = 0 /\ Len(l.seen) \in Nat /\ <<>> \in Seq(Students) /\ <<>> \in Seq(m.doubt \cup free)
  BY <1>2, LenProperties
<1>4. Begins(<<>>, l.seen)
  BY <1>3 DEF Begins
<1> QED
  BY <1>1, <1>2, <1>3, <1>4 DEF RowsTrue

\* PendingList's load.
LEMMA PhoneLoadTrue ==
  ASSUME NEW l, NEW free, RowsOk(l, free), NEW f, NEW same \in BOOLEAN
  PROVE  ListOk(PhoneLoad(l, f, same), free)
<1> DEFINE n == IF ~same \/ Len(l.rows) < PhonePage THEN PhonePage
                ELSE IF Len(l.rows) < 2 * PhonePage THEN Len(l.rows) ELSE 2 * PhonePage
           m == [l EXCEPT !.rows = IF same THEN @ ELSE <<>>, !.more = FALSE, !.error = FALSE,
                          !.loading = ~same \/ l.rows = <<>>]
           r == RequestOf("first", f, 0, n)
<1>1. PhoneLoad(l, f, same) = Ask(m, r)
  BY DEF PhoneLoad
<1>2. ListFields \subseteq DOMAIN l /\ l.picked \subseteq Students /\ RowsTrue(l, free)
  BY DEF RowsOk
<1>3. l.rows \in Seq(Students) /\ PhonePage \in Nat
  BY <1>2, BoundsAssumption DEF RowsTrue
<1>4. n \in Nat
  BY <1>3, LenProperties
<1>5. /\ DOMAIN m = DOMAIN l /\ m.picked = l.picked
      /\ \A x \in PageFields \ {"rows"} : m[x] = l[x]
      /\ m.rows = IF same THEN l.rows ELSE <<>>
  BY <1>2 DEF ListFields, PageFields
<1> HIDE DEF m, n
<1>6. CASE same
  <2>1. \A x \in PageFields : m[x] = l[x]
    BY <1>5, <1>6
  <2>2. RowsTrue(m, free)
    BY <1>2, <1>5, <2>1, RowsStay
  <2>3. ListTrue(Ask(m, r), free) /\ DOMAIN Ask(m, r) = DOMAIN m /\ \A x \in DOMAIN m \ {"reqs"} : Ask(m, r)[x] = m[x]
    BY <1>4, <2>2, AskTrue
  <2> QED
    BY <1>1, <1>2, <1>5, <2>3 DEF ListOk, ListFields
<1>7. CASE ~same
  <2>1. RowsTrue(m, free)
    BY <1>2, <1>5, <1>7, NoRows
  <2>2. ListTrue(Ask(m, r), free) /\ DOMAIN Ask(m, r) = DOMAIN m /\ \A x \in DOMAIN m \ {"reqs"} : Ask(m, r)[x] = m[x]
    BY <1>4, <2>1, AskTrue
  <2> QED
    BY <1>1, <1>2, <1>5, <2>2 DEF ListOk, ListFields
<1> QED
  BY <1>6, <1>7

\* HandledView's load.
LEMMA DeskLoadTrue ==
  ASSUME NEW l, NEW free, RowsOk(l, free), NEW f
  PROVE  ListOk(DeskLoad(l, f), free)
<1> DEFINE m == [l EXCEPT !.loading = TRUE]
           r == RequestOf("first", f, 0, DeskPage)
<1>1. ListFields \subseteq DOMAIN l /\ l.picked \subseteq Students /\ RowsTrue(l, free) /\ DeskPage \in Nat
  BY BoundsAssumption DEF RowsOk
<1>2. DOMAIN m = DOMAIN l /\ m.picked = l.picked /\ \A x \in PageFields : m[x] = l[x]
  BY <1>1 DEF ListFields, PageFields
<1> HIDE DEF m
<1>3. RowsTrue(m, free)
  BY <1>1, <1>2, RowsStay
<1>4. ListTrue(Ask(m, r), free) /\ DOMAIN Ask(m, r) = DOMAIN m /\ \A x \in DOMAIN m \ {"reqs"} : Ask(m, r)[x] = m[x]
  BY <1>1, <1>3, AskTrue
<1>5. DeskLoad(l, f) = Ask(m, r)
  BY DEF DeskLoad, m
<1> QED
  BY <1>1, <1>2, <1>4, <1>5 DEF ListOk, ListFields

\* A list before its first load.
LEMMA EmptiedTrue == ASSUME NEW free PROVE RowsOk(Emptied, free) /\ ListOk(Emptied, free)
<1>1. /\ ListFields \subseteq DOMAIN Emptied /\ PageFields \subseteq DOMAIN Emptied
      /\ Emptied.picked = {} /\ Emptied.rows = <<>> /\ Emptied.seen = <<>> /\ Emptied.total = 0
      /\ Emptied.reqs = {} /\ Emptied.of = "all"
  BY DEF Emptied, ListFields, PageFields
<1>2. Len(<<>>) = 0 /\ <<>> \in Seq(Students) /\ Ascending(<<>>) /\ Begins(<<>>, <<>>)
  BY DEF Ascending, Begins
<1>3. RowsTrue(Emptied, free)
  BY <1>1, <1>2 DEF RowsTrue
<1> QED
  BY <1>1, <1>3 DEF RowsOk, ListOk, ListTrue

\* The phone's list is there again.
LEMMA PhoneOpensTrue ==
  ASSUME NEW free, saved # None => SavedOk(saved), PhoneListOpens
  PROVE  ListOk(list', free)
<1>1. RowsOk(PhoneRestored, free)
  <2>1. CASE saved # None /\ saved.filter = filter /\ saved.rows # <<>>
    <3> DEFINE m == [Emptied EXCEPT !.rows = saved.rows, !.total = saved.total, !.of = "mixed", !.steady = FALSE]
    <3>1. /\ ListFields \subseteq DOMAIN m /\ PageFields \subseteq DOMAIN m
          /\ m.picked = {} /\ m.rows = saved.rows /\ m.seen = <<>> /\ m.steady = FALSE /\ m.of = "mixed"
      BY DEF Emptied, ListFields, PageFields
    <3>2. m.rows \in Seq(Students) /\ <<>> \in Seq(Students)
      BY <2>1, <3>1 DEF SavedOk
    <3>3. PhoneRestored = m
      BY <2>1 DEF PhoneRestored
    <3> HIDE DEF m
    <3> QED
      BY <3>1, <3>2, <3>3 DEF RowsOk, RowsTrue
  <2>2. CASE ~(saved # None /\ saved.filter = filter /\ saved.rows # <<>>)
    BY <2>2, EmptiedTrue DEF PhoneRestored
  <2> QED
    BY <2>1, <2>2
<1>2. PICK f : list' = PhoneLoad(PhoneRestored, f, TRUE)
  BY DEF PhoneListOpens
<1> QED
  BY <1>1, <1>2, PhoneLoadTrue

\* What a list does when it is told of a change of groups.
LEMMA ToldTrue ==
  ASSUME NEW l, NEW free, RowsOk(l, free), OnList, NEW g
  PROVE  /\ ListOk(Told(l, TRUE, g), free)
         /\ ListOk(l, free) => ListOk(Told(l, FALSE, g), free)
<1>1. ListOk(PhoneLoad(l, filter, TRUE), free)
  BY PhoneLoadTrue
<1>2. ListOk(DeskLoad(l, filter), free)
  BY DeskLoadTrue
<1>3. CASE page = "pending"
  BY <1>1, <1>3 DEF Told, PhoneTold
<1>4. CASE page = "handled"
  BY <1>2, <1>4 DEF Told, DeskTold
<1> QED
  BY <1>3, <1>4 DEF OnList

\* Another filter.
LEMMA FilteredTrue ==
  ASSUME NEW free, ListOk(list, free), OnList, NEW f
  PROVE  ListOk(Filtered(f), free)
<1>0. ListFields \subseteq DOMAIN list /\ ListTrue(list, free) /\ RowsTrue(list, free)
  BY DEF ListOk, ListTrue
<1>1. CASE page = "pending"
  <2> DEFINE m == [list EXCEPT !.picking = FALSE, !.picked = {}]
  <2>1. DOMAIN m = DOMAIN list /\ m.picked = {} /\ \A x \in PageFields : m[x] = list[x]
    BY <1>0 DEF ListFields, PageFields
  <2>2. Filtered(f) = PhoneLoad(m, f, FALSE)
    BY <1>1 DEF Filtered, PhoneFiltered
  <2> HIDE DEF m
  <2>3. RowsTrue(m, free)
    BY <1>0, <2>1, RowsStay
  <2>4. RowsOk(m, free)
    BY <1>0, <2>1, <2>3 DEF RowsOk
  <2> QED
    BY <2>2, <2>4, PhoneLoadTrue
<1>2. CASE page = "handled"
  <2> DEFINE m == [list EXCEPT !.picking = FALSE, !.picked = {}, !.timer = TRUE]
  <2>1. DOMAIN m = DOMAIN list /\ m.picked = {} /\ \A x \in PageFields : m[x] = list[x]
    BY <1>0 DEF ListFields, PageFields
  <2>2. Filtered(f) = m
    BY <1>2 DEF Filtered, DeskFiltered
  <2> HIDE DEF m
  <2>3. PageFields \subseteq DOMAIN m
    BY <1>0, <2>1 DEF ListFields
  <2>4. ListTrue(m, free)
    BY <1>0, <2>1, <2>3, SamePageTrue
  <2> QED
    BY <1>0, <2>1, <2>2, <2>4 DEF ListOk
<1> QED
  BY <1>1, <1>2 DEF OnList

\* The filter changes, or stays.
LEMMA FilterToTrue ==
  ASSUME NEW free, ListOk(list, free), OnList, NEW f, FilterTo(f)
  PROVE  ListOk(list', free) /\ saved' \in {saved, None}
<1>1. CASE f = filter
  BY <1>1 DEF FilterTo, lists
<1>2. CASE f # filter
  BY <1>2, FilteredTrue DEF FilterTo
<1> QED
  BY <1>1, <1>2
-----------------------------------------------------------------------------
(* Who is without a group.                                                 *)

\* A batch takes from the free ones no more than its students.
LEMMA FreeJoin ==
  ASSUME Table(rec), NEW g, NEW ids, Join(g, ids)
  PROVE  Free \ ids \subseteq Free'
<1>1. rec' = [s \in Students |-> IF s \in ids THEN [rec[s] EXCEPT !.groups = @ \cup {g}] ELSE rec[s]]
  BY DEF Join
<1> QED
  BY <1>1 DEF Free

\* Deleting a group only frees.
LEMMA FreeDeleted == ASSUME Table(rec), NEW g, Deleted(g) PROVE Free \subseteq Free'
<1>1. rec' = [s \in Students |-> [rec[s] EXCEPT !.groups = @ \ {g}]]
  BY DEF Deleted
<1>2. ASSUME NEW s \in Students, rec[s].groups = {} PROVE rec'[s].groups = {}
  <2>1. "groups" \in DOMAIN rec[s]
    BY DEF Table, RecordFields
  <2> QED
    BY <1>1, <1>2, <2>1
<1> QED
  BY <1>2 DEF Free
-----------------------------------------------------------------------------
(* The lists, step by step.                                                *)

\* What becomes of the list that is there, while the page stays.
ListGoesOn ==
  /\ IF list = None THEN list' = None ELSE ListOk(list', Free')
  /\ saved' \in {saved, None}

\* What is known before a step.
Before == DetailInv /\ ListsInv /\ BarInv

\* The list is there on its pages, and nowhere else.
LEMMA ListHere == ASSUME Before, OnList PROVE ListOk(list, Free) /\ list # None
BY DEF Before, ListsInv, OnList

LEMMA ListThere == ASSUME Before, ~OnList PROVE list = None
BY DEF Before, DetailInv, Places, OnList

\* The loads of the groups.
LEMMA HookList ==
  ASSUME Before, NEW i, HookTaken(i) \/ HookShown(i) \/ HookFails(i)
  PROVE  ListGoesOn
<1>1. UNCHANGED rec
  BY DEF HookTaken, HookShown, HookFails
<1>2. Free' = Free
  BY <1>1 DEF Free
<1>3. UNCHANGED lists \/ (OnList /\ FilterTo("all"))
  BY DEF HookTaken, HookShown, HookFails
<1>4. CASE UNCHANGED lists
  BY <1>2, <1>4 DEF lists, ListGoesOn, Before, ListsInv
<1>5. CASE OnList /\ FilterTo("all")
  <2>1. ListOk(list', Free) /\ saved' \in {saved, None} /\ list # None
    BY <1>5, ListHere, FilterToTrue
  <2> QED
    BY <1>2, <2>1 DEF ListGoesOn
<1> QED
  BY <1>3, <1>4, <1>5

\* A list stays true when more students are free.
LEMMA FreerOk ==
  ASSUME NEW l, NEW free, NEW after, free \subseteq after, ListOk(l, free)
  PROVE  ListOk(l, after)
BY FreerTrue DEF ListOk

\* Creating, renaming and deleting a group.
LEMMA ManageList ==
  ASSUME Before, NEW g, FilterCreate(g) \/ FilterRename(g) \/ FilterDelete(g)
  PROVE  ListGoesOn
<1>1. OnList
  BY DEF FilterCreate, FilterRename, FilterDelete, GroupsOffered
<1>2. ListOk(list, Free) /\ list # None
  BY <1>1, ListHere
<1>3. Free \subseteq Free'
  <2>1. UNCHANGED rec \/ Deleted(g)
    BY DEF FilterCreate, FilterRename, FilterDelete, Created
  <2>2. ASSUME UNCHANGED rec PROVE Free' = Free
    BY <2>2 DEF Free
  <2> QED
    BY <2>1, <2>2, FreeDeleted DEF Before, DetailInv
<1>4. CASE FilterRename(g)
  <2>1. list' = Told(list, FALSE, g) /\ saved' = saved
    BY <1>4 DEF FilterRename
  <2>2. ListOk(list', Free)
    BY <1>1, <1>2, <2>1, OkRows, ToldTrue
  <2> QED
    BY <1>2, <1>3, <2>1, <2>2, FreerOk DEF ListGoesOn
<1>5. CASE FilterCreate(g) \/ FilterDelete(g)
  <2>1. UNCHANGED lists \/ \E f : FilterTo(f)
    BY <1>5 DEF FilterCreate, FilterDelete
  <2>2. ListOk(list', Free) /\ saved' \in {saved, None}
    <3>1. ASSUME UNCHANGED lists PROVE ListOk(list', Free) /\ saved' \in {saved, None}
      BY <1>2, <3>1 DEF lists
    <3>2. ASSUME NEW f, FilterTo(f) PROVE ListOk(list', Free) /\ saved' \in {saved, None}
      BY <1>1, <1>2, <3>2, FilterToTrue
    <3> QED
      BY <2>1, <3>1, <3>2
  <2> QED
    BY <1>2, <1>3, <2>2, FreerOk DEF ListGoesOn
<1> QED
  BY <1>4, <1>5

\* A list that hears of a join by somebody else.
LEMMA UnheardOk ==
  ASSUME NEW l, NEW free, NEW after, NEW ids, free \ ids \subseteq after
  PROVE  /\ RowsOk(l, free) => RowsOk(Unheard(l, ids), after)
         /\ ListOk(l, free) => ListOk(Unheard(l, ids), after) /\ Unheard(l, ids).picked = l.picked
<1>1. CASE ListFields \subseteq DOMAIN l
  <2>1. PageFields \subseteq DOMAIN l /\ "picked" \in DOMAIN l \ {"doubt", "reqs"}
    BY <1>1 DEF ListFields
  <2>2. /\ RowsTrue(l, free) => RowsTrue(Unheard(l, ids), after)
        /\ ListTrue(l, free) => ListTrue(Unheard(l, ids), after)
        /\ DOMAIN Unheard(l, ids) = DOMAIN l
        /\ \A x \in DOMAIN l \ {"doubt", "reqs"} : Unheard(l, ids)[x] = l[x]
    BY <2>1, UnheardTrue
  <2>3. Unheard(l, ids).picked = l.picked
    BY <2>1, <2>2
  <2> QED
    BY <2>2, <2>3 DEF RowsOk, ListOk
<1>2. CASE ~(ListFields \subseteq DOMAIN l)
  BY <1>2 DEF RowsOk, ListOk
<1> QED
  BY <1>1, <1>2

\* onApplied.
LEMMA AppliedTrue ==
  ASSUME NEW l, NEW free, RowsOk(l, free), NEW b, OnList
  PROVE  /\ RowsOk(Applied(l, b), free) /\ Applied(l, b).of = l.of /\ Applied(l, b).doubt = l.doubt
         /\ b.filter = "ungrouped" /\ l.of = "ungrouped"
              => Applied(l, b).rows \in Seq((l.doubt \cup free) \ b.all)
<1> DEFINE m == [l EXCEPT !.picking = FALSE, !.picked = {}]
           k == Taken(m, b.all)
<1>1. Applied(l, b) = IF b.filter = "ungrouped" THEN k ELSE m
  BY DEF Applied, PhoneApplied, DeskApplied
<1>2. ListFields \subseteq DOMAIN l /\ PageFields \subseteq DOMAIN l /\ RowsTrue(l, free)
  BY DEF RowsOk, ListFields
<1>3. DOMAIN m = DOMAIN l /\ m.picked = {} /\ \A x \in PageFields : m[x] = l[x]
  BY <1>2 DEF ListFields, PageFields
<1>4. m.of = l.of /\ m.doubt = l.doubt
  BY <1>3 DEF PageFields
<1> HIDE DEF m
<1>5. RowsTrue(m, free)
  BY <1>2, <1>3, RowsStay
<1>6. /\ RowsTrue(k, free) /\ DOMAIN k = DOMAIN m
      /\ \A x \in DOMAIN m \ {"rows", "seen", "total", "steady"} : k[x] = m[x]
      /\ m.of = "ungrouped" => k.rows \in Seq((m.doubt \cup free) \ b.all)
  BY <1>5, TakenTrue
<1> HIDE DEF k
<1>7. k.picked = m.picked /\ k.of = m.of /\ k.doubt = m.doubt
  <2>1. {"picked", "of", "doubt"} \subseteq DOMAIN m \ {"rows", "seen", "total", "steady"}
    BY <1>2, <1>3 DEF ListFields, PageFields
  <2> QED
    BY <1>6, <2>1
<1>8. RowsOk(m, free) /\ RowsOk(k, free)
  BY <1>2, <1>3, <1>5, <1>6, <1>7 DEF RowsOk
<1> QED
  BY <1>1, <1>4, <1>6, <1>7, <1>8

\* The end of a bar: its own students have joined, and are gone from the rows
\* that were loaded for its filter.
LEMMA HeardOfTrue ==
  ASSUME NEW l, NEW free, NEW after, RowsOk(l, free), NEW b, OnList, b.left \subseteq b.all,
         free \ b.left \subseteq after
  PROVE  RowsOk(HeardOf(IF b.shown THEN Applied(l, b) ELSE l, b), after)
<1> DEFINE k == IF b.shown THEN Applied(l, b) ELSE l
           m == [k EXCEPT !.doubt = @ \ b.all]
<1>1. RowsOk(k, free) /\ k.of = l.of /\ k.doubt = l.doubt
  BY AppliedTrue
<1>2. b.shown /\ b.filter = "ungrouped" /\ l.of = "ungrouped" => k.rows \in Seq((l.doubt \cup free) \ b.all)
  BY AppliedTrue
<1> HIDE DEF k
<1>3. CASE b.shown /\ k.of = b.filter
  <2>1. HeardOf(k, b) = m
    BY <1>3 DEF HeardOf
  <2>2. ListFields \subseteq DOMAIN k /\ PageFields \subseteq DOMAIN k /\ RowsTrue(k, free) /\ k.picked \subseteq Students
    BY <1>1 DEF RowsOk, ListFields
  <2>3. /\ DOMAIN m = DOMAIN k /\ m.picked = k.picked /\ m.doubt = k.doubt \ b.all
        /\ m.rows = k.rows /\ m.seen = k.seen /\ m.steady = k.steady /\ m.total = k.total /\ m.of = k.of
    BY <2>2 DEF ListFields, PageFields
  <2> HIDE DEF m
  <2>4. m.of = "ungrouped" => m.rows \in Seq(m.doubt \cup after)
    <3> DEFINE F == (l.doubt \cup free) \ b.all
               G == m.doubt \cup after
    <3>1. F \subseteq G
      BY <1>1, <2>3
    <3>2. m.of = "ungrouped" => m.rows \in Seq(F)
      BY <1>1, <1>2, <1>3, <2>3
    <3> HIDE DEF F, G
    <3>3. m.of = "ungrouped" => m.rows \in Seq(G)
      BY <3>1, <3>2, SeqMonotonic
    <3> QED
      BY <3>3 DEF G
  <2>5. RowsTrue(m, after)
    BY <2>2, <2>3, <2>4 DEF RowsTrue
  <2>6. RowsOk(m, after)
    BY <2>2, <2>3, <2>5 DEF RowsOk
  <2> QED
    BY <2>1, <2>6 DEF k
<1>4. CASE ~(b.shown /\ k.of = b.filter)
  <2>1. HeardOf(k, b) = Unheard(k, b.left)
    BY <1>4 DEF HeardOf
  <2>2. RowsOk(Unheard(k, b.left), after)
    BY <1>1, UnheardOk
  <2> QED
    BY <2>1, <2>2 DEF k
<1> QED
  BY <1>3, <1>4

\* The bar: who joins is in doubt, here and in what is underway.
LEMMA BarList ==
  ASSUME Before,
         \/ \E g \in Groups : BulkStart(g) \/ BulkCreate(g)
         \/ BatchesDone
         \/ (BatchSaved \/ BatchFails) /\ UNCHANGED saved
  PROVE  ListGoesOn
<1>1. CASE \E g \in Groups : BulkStart(g) \/ BulkCreate(g)
  <2>1. UNCHANGED <<list, saved, rec>>
    BY <1>1 DEF BulkStart, BulkCreate, Created, server, lists
  <2>2. Free' = Free
    BY <2>1 DEF Free
  <2> QED
    BY <2>1, <2>2 DEF ListGoesOn, Before, ListsInv
<1>2. CASE (BatchSaved \/ BatchFails) /\ UNCHANGED saved
  <2>1. \/ UNCHANGED <<rec, list>>
        \/ \E ids : Join(bulk.group, ids) /\ list' = Unheard(list, ids)
    BY <1>2 DEF BatchSaved, BatchFails
  <2>2. CASE UNCHANGED <<rec, list>>
    <3>1. Free' = Free
      BY <2>2 DEF Free
    <3> QED
      BY <1>2, <2>2, <3>1 DEF ListGoesOn, Before, ListsInv
  <2>3. ASSUME NEW ids, Join(bulk.group, ids), list' = Unheard(list, ids) PROVE ListGoesOn
    <3>1. Free \ ids \subseteq Free'
      BY <2>3, FreeJoin DEF Before, DetailInv
    <3>2. CASE list = None
      BY <1>2, <2>3, <3>2 DEF Unheard, ListGoesOn
    <3>3. CASE list # None
      <4>1. ListOk(list, Free)
        BY <3>3 DEF Before, ListsInv
      <4>2. ListOk(list', Free')
        BY <2>3, <3>1, <4>1, UnheardOk
      <4> QED
        BY <1>2, <3>3, <4>2 DEF ListGoesOn
    <3> QED
      BY <3>2, <3>3
  <2> QED
    BY <2>1, <2>2, <2>3
<1>3. CASE BatchesDone
  <2>1. saved' = saved /\ bulk # None /\ Join(bulk.group, bulk.left)
    BY <1>3 DEF BatchesDone
  <2>2. CASE ~OnList
    <3>1. list = None /\ list' = list
      BY <1>3, <2>2, ListThere DEF BatchesDone
    <3> QED
      BY <2>1, <3>1 DEF ListGoesOn
  <2>3. CASE OnList
    <3> DEFINE k == HeardOf(IF bulk.shown THEN Applied(list, bulk) ELSE list, bulk)
    <3>1. ListOk(list, Free) /\ list # None
      BY <2>3, ListHere
    <3>2. Free \ bulk.left \subseteq Free' /\ bulk.left \subseteq bulk.all
      BY <2>1, FreeJoin DEF Before, DetailInv, BarInv
    <3>3. RowsOk(k, Free')
      <4> DEFINE F == Free
                 G == Free'
      <4>1. RowsOk(list, F) /\ F \ bulk.left \subseteq G /\ bulk.left \subseteq bulk.all
        BY <3>1, <3>2, OkRows
      <4> HIDE DEF F, G
      <4>2. RowsOk(k, G)
        BY <2>3, <4>1, HeardOfTrue
      <4> QED
        BY <4>2 DEF G
    <3>4. list' = Told(k, TRUE, bulk.group)
      BY <1>3, <2>3 DEF BatchesDone
    <3> HIDE DEF k
    <3>5. ListOk(list', Free')
      <4> DEFINE G == Free'
                 h == bulk.group
      <4>1. RowsOk(k, G) /\ list' = Told(k, TRUE, h)
        BY <3>3, <3>4
      <4> HIDE DEF G, h
      <4>2. ListOk(list', G)
        BY <2>3, <4>1, ToldTrue
      <4> QED
        BY <4>2 DEF G
    <3> QED
      BY <2>1, <3>1, <3>5 DEF ListGoesOn
  <2> QED
    BY <2>2, <2>3
<1> QED
  BY <1>1, <1>2, <1>3

\* The editor is on a student's page, where no list is.
LEMMA EditorList ==
  ASSUME Before, UNCHANGED saved,
         \/ EditorTaken \/ EditorLoaded \/ ToggleSaved \/ ToggleFails
         \/ \E g \in Groups : Toggle(g) \/ CreateAndInclude(g)
  PROVE  ListGoesOn
<1>1. UNCHANGED list /\ editor # None
  BY DEF EditorTaken, EditorLoaded, ToggleSaved, ToggleFails, Toggle, CreateAndInclude, EditorFree
<1>2. list = None
  BY <1>1, ListThere DEF Before, DetailInv, Places, OnList
<1> QED
  BY <1>1, <1>2 DEF ListGoesOn

\* The students of a list are counted while they are in its filter.
LEMMA TakenList ==
  ASSUME Before, list # None, NEW r \in list.reqs, ListTaken(r)
  PROVE  ListGoesOn
<1> DEFINE S == {s \in Students : Handled(s) /\ InFilter(s, r.filter)}
           q == InOrder(S)
           till == IF r.offset + r.limit < Len(q) THEN r.offset + r.limit ELSE Len(q)
           a == [rows |-> SubSeq(q, r.offset + 1, till), total |-> Len(q), seen |-> q]
           k == [r EXCEPT !.answer = <<a>>, !.doubt = {}]
           F == Free
<1>1. /\ UNCHANGED <<rec, saved>>
      /\ list' = [list EXCEPT !.reqs = (@ \ {r}) \cup {k}]
  BY DEF ListTaken, HandledAnswer, server
<1>2. Free' = F
  BY <1>1 DEF Free
<1>3. ListFields \subseteq DOMAIN list /\ list.picked \subseteq Students /\ ListTrue(list, F)
  BY DEF Before, ListsInv, ListOk
<1>4. /\ RequestFields \subseteq DOMAIN r /\ r.limit \in Nat
      /\ r.offset = IF r.kind = "first" THEN 0 ELSE Len(list.rows)
      /\ list.rows \in Seq(Students)
  BY <1>3 DEF ListTrue, RequestTrue, RowsTrue
<1>5. r.offset \in Nat
  BY <1>4, LenProperties
<1>6. r.filter = "ungrouped" => S \subseteq F
  <2> SUFFICES ASSUME r.filter = "ungrouped", NEW s \in S PROVE s \in F
    OBVIOUS
  <2>1. "ungrouped" \notin rec[s].groups
    BY GroupsAssumption DEF Before, DetailInv, Table
  <2> QED
    BY <2>1 DEF InFilter, Free
<1> HIDE DEF S, F
<1>7. k.offset = r.offset /\ k.limit = r.limit /\ k.filter = r.filter
  BY <1>4 DEF RequestFields
<1>8. S \subseteq Students
  BY DEF S
<1>9. a.seen = InOrder(S) /\ a.total = Len(InOrder(S)) /\ a.rows = SubSeq(InOrder(S), k.offset + 1,
        IF k.offset + k.limit < Len(InOrder(S)) THEN k.offset + k.limit ELSE Len(InOrder(S)))
  BY <1>7
<1> HIDE DEF a
<1>10. RequestFields \subseteq DOMAIN k /\ k.kind = r.kind /\ k.answer = <<a>>
  BY <1>4 DEF RequestFields
<1> HIDE DEF k, q, till
<1>11. Cut(a, k, F)
  BY <1>4, <1>5, <1>6, <1>7, <1>8, <1>9, CutFromOrder
<1>12. ListTrue(list', F)
  BY <1>1, <1>3, <1>7, <1>10, <1>11, AnsweredTrue
<1>13. ListFields \subseteq DOMAIN list' /\ list'.picked = list.picked
  BY <1>1, <1>3 DEF ListFields
<1>14. ListOk(list', Free')
  BY <1>2, <1>3, <1>12, <1>13 DEF ListOk
<1> QED
  BY <1>1, <1>14 DEF ListGoesOn

\* What only the screen knows.
LEMMA ScreenOk ==
  ASSUME NEW l, NEW free, ListOk(l, free), NEW m, DOMAIN m = DOMAIN l, m.picked \subseteq Students,
         \A x \in PageFields : m[x] = l[x]
  PROVE  ListOk(m, free)
<1>1. PageFields \subseteq DOMAIN m
  BY DEF ListOk, ListFields
<1> QED
  BY <1>1, SamePageTrue DEF ListOk

\* An answer is shown, as a first page or as a next one.
LEMMA ShownOk ==
  ASSUME NEW l, NEW free, ListOk(l, free), NEW r \in l.reqs, r.answer # <<>>
  PROVE  /\ r.kind = "first" => ListOk(FirstPage(l, r), free)
         /\ r.kind = "more" => \A rows \in {NewRows(l, r), r.answer[1].rows} : ListOk(NextPage(l, r, rows), free)
         /\ r.kind \in {"first", "more"}
<1>1. ListFields \subseteq DOMAIN l /\ l.picked \subseteq Students /\ ListTrue(l, free)
  BY DEF ListOk
<1>2. "picked" \in DOMAIN l \ PageFields
  BY <1>1 DEF ListFields, PageFields
<1>3. ASSUME r.kind = "first" PROVE ListOk(FirstPage(l, r), free)
  <2>1. ListTrue(FirstPage(l, r), free) /\ DOMAIN FirstPage(l, r) = DOMAIN l
        /\ \A x \in DOMAIN l \ PageFields : FirstPage(l, r)[x] = l[x]
    BY <1>1, <1>3, FirstPageTrue
  <2> QED
    BY <1>1, <1>2, <2>1 DEF ListOk
<1>4. ASSUME r.kind = "more", NEW rows \in {NewRows(l, r), r.answer[1].rows}
      PROVE  ListOk(NextPage(l, r, rows), free)
  <2>1. ListTrue(NextPage(l, r, rows), free) /\ DOMAIN NextPage(l, r, rows) = DOMAIN l
        /\ \A x \in DOMAIN l \ PageFields : NextPage(l, r, rows)[x] = l[x]
    BY <1>1, <1>4, NextPageTrue
  <2> QED
    BY <1>1, <1>2, <2>1 DEF ListOk
<1>5. r.kind \in {"first", "more"}
  BY <1>1 DEF ListTrue, RequestTrue
<1> QED
  BY <1>3, <1>4, <1>5

\* A request fails.
LEMMA FailedOk ==
  ASSUME NEW l, NEW free, ListOk(l, free), NEW r, NEW m, DOMAIN m = DOMAIN l, m.picked = l.picked,
         m.reqs = l.reqs \ {r}, \A f \in PageFields \ {"reqs"} : m[f] = l[f]
  PROVE  ListOk(m, free)
<1>1. PageFields \subseteq DOMAIN m
  BY DEF ListOk, ListFields
<1> QED
  BY <1>1, FailedTrue DEF ListOk

\* loadMore.
LEMMA MoreOk ==
  ASSUME NEW l, NEW free, ListOk(l, free), NEW f, NEW n \in Nat
  PROVE  ListOk(Ask([l EXCEPT !.more = TRUE], RequestOf("more", f, Len(l.rows), n)), free)
<1> DEFINE m == [l EXCEPT !.more = TRUE]
           o == Len(l.rows)
<1>1. ListFields \subseteq DOMAIN l /\ l.picked \subseteq Students /\ RowsTrue(l, free)
  BY DEF ListOk, ListTrue
<1>2. DOMAIN m = DOMAIN l /\ m.picked = l.picked /\ \A x \in PageFields : m[x] = l[x]
  BY <1>1 DEF ListFields, PageFields
<1>3. "rows" \in PageFields
  BY DEF PageFields
<1> HIDE DEF m
<1>4. RowsTrue(m, free) /\ o = Len(m.rows)
  BY <1>1, <1>2, <1>3, RowsStay
<1> HIDE DEF o
<1>5. /\ ListTrue(Ask(m, RequestOf("more", f, o, n)), free)
      /\ DOMAIN Ask(m, RequestOf("more", f, o, n)) = DOMAIN m
      /\ \A x \in DOMAIN m \ {"reqs"} : Ask(m, RequestOf("more", f, o, n))[x] = m[x]
  BY <1>4, AskTrue
<1>6. ListOk(Ask(m, RequestOf("more", f, o, n)), free)
  BY <1>1, <1>2, <1>5 DEF ListOk, ListFields
<1> QED
  BY <1>6 DEF m, o

\* The rows are students.
LEMMA RowStudents == ASSUME NEW l, NEW free, ListOk(l, free) PROVE ToSet(l.rows) \subseteq Students
<1>1. l.rows \in Seq(Students)
  BY DEF ListOk, ListTrue, RowsTrue
<1> QED
  BY <1>1, LenProperties, ElementOfSeq DEF ToSet

\* A selection of rows.
LEMMA PickedOk ==
  ASSUME NEW l, NEW free, ListOk(l, free), NEW some \in SUBSET Students, NEW m,
         \/ m = [l EXCEPT !.picking = ~@, !.picked = {}]
         \/ m = [l EXCEPT !.picked = @ \ some]
         \/ m = [l EXCEPT !.picked = @ \cup some]
  PROVE  ListOk(m, free)
<1>1. ListFields \subseteq DOMAIN l /\ l.picked \subseteq Students
  BY DEF ListOk
<1>2. DOMAIN m = DOMAIN l /\ m.picked \subseteq Students /\ \A x \in PageFields : m[x] = l[x]
  BY <1>1 DEF ListFields, PageFields
<1> QED
  BY <1>2, ScreenOk

\* PendingList.
LEMMA PhoneList ==
  ASSUME Before, list # None, PhoneListStep
  PROVE  ListGoesOn
<1> DEFINE F == Free
<1>1. ListOk(list, F) /\ ListFields \subseteq DOMAIN list /\ list.picked \subseteq Students
  BY DEF Before, ListsInv, ListOk
<1>2. /\ UNCHANGED rec
      /\ saved' \in {saved, None}
      /\ page = "pending" /\ OnList
  BY DEF PhoneListStep, PhoneFirstShown, PhoneMoreShown, PhoneListFails, PhoneRetry, PhoneMore,
      PhonePickMode, PhonePickAll, PhoneChoose, PhonePick, PhoneSees, server, OnList
<1>3. Free' = F
  BY <1>2 DEF Free
<1> HIDE DEF F
<1>4. ASSUME NEW r \in list.reqs, PhoneFirstShown(r) \/ PhoneMoreShown(r) PROVE ListOk(list', F)
  <2>1. r.answer # <<>>
    BY <1>4 DEF PhoneFirstShown, PhoneMoreShown
  <2>2. PICK k : /\ ListOk(k, F)
                 /\ list' = [k EXCEPT !.loading = FALSE] \/ list' = [k EXCEPT !.more = FALSE]
    BY <1>1, <1>4, <2>1, ShownOk DEF PhoneFirstShown, PhoneMoreShown
  <2>3. ListFields \subseteq DOMAIN k /\ k.picked \subseteq Students
    BY <2>2 DEF ListOk
  <2>4. DOMAIN list' = DOMAIN k /\ list'.picked = k.picked /\ \A x \in PageFields : list'[x] = k[x]
    BY <2>2, <2>3 DEF ListFields, PageFields
  <2> QED
    BY <2>2, <2>3, <2>4, ScreenOk
<1>5. ASSUME NEW r \in list.reqs, PhoneListFails(r) PROVE ListOk(list', F)
  <2>1. list' = [list EXCEPT !.error = TRUE, !.reqs = @ \ {r},
                          !.loading = @ /\ r.kind # "first", !.more = @ /\ r.kind # "more"]
    BY <1>5 DEF PhoneListFails
  <2>2. /\ DOMAIN list' = DOMAIN list /\ list'.picked = list.picked /\ list'.reqs = list.reqs \ {r}
        /\ \A x \in PageFields \ {"reqs"} : list'[x] = list[x]
    BY <1>1, <2>1 DEF ListFields, PageFields
  <2> QED
    BY <1>1, <2>2, FailedOk
<1>6. ASSUME PhoneRetry PROVE ListOk(list', F)
  BY <1>1, <1>6, OkRows, PhoneLoadTrue DEF PhoneRetry
<1>7. ASSUME PhoneMore PROVE ListOk(list', F)
  <2>1. PhonePage \in Nat
    BY BoundsAssumption
  <2> QED
    BY <1>1, <1>7, <2>1, MoreOk DEF PhoneMore
<1>8. ASSUME NEW f, PhoneChoose(f) PROVE ListOk(list', F)
  BY <1>1, <1>2, <1>8, FilteredTrue DEF PhoneChoose, Filtered
<1>9. ASSUME PhonePickMode \/ PhonePickAll \/ \E s \in Students : PhonePick(s) PROVE ListOk(list', F)
  <2>1. CASE PhonePickMode
    BY <1>1, <2>1, PickedOk DEF PhonePickMode
  <2>2. CASE PhonePickAll
    BY <1>1, <2>2, PickedOk, RowStudents DEF PhonePickAll
  <2>3. ASSUME NEW s \in Students, PhonePick(s) PROVE ListOk(list', F)
    <3>1. {s} \in SUBSET Students
      OBVIOUS
    <3> QED
      BY <1>1, <2>3, <3>1, PickedOk DEF PhonePick
  <2> QED
    BY <1>9, <2>1, <2>2, <2>3
<1>10. ListOk(list', F)
  BY <1>4, <1>5, <1>6, <1>7, <1>8, <1>9 DEF PhoneListStep
<1> QED
  BY <1>2, <1>3, <1>10 DEF ListGoesOn

\* HandledView.
LEMMA DeskList ==
  ASSUME Before, list # None, DeskListStep
  PROVE  ListGoesOn
<1> DEFINE F == Free
<1>1. ListOk(list, F) /\ ListFields \subseteq DOMAIN list /\ list.picked \subseteq Students
  BY DEF Before, ListsInv, ListOk
<1>2. UNCHANGED <<rec, saved>> /\ page = "handled" /\ OnList
  BY DEF DeskListStep, DeskShown, DeskListFails, DeskTimer, DeskMore,
      DeskPickMode, DeskPickAll, DeskChoose, DeskPick, DeskSees, server, OnList
<1>3. Free' = F
  BY <1>2 DEF Free
<1> HIDE DEF F
<1>4. ASSUME NEW k, ListOk(k, F), list' = Spun(k) PROVE ListOk(list', F)
  <2>1. ListFields \subseteq DOMAIN k /\ k.picked \subseteq Students
    BY <1>4 DEF ListOk
  <2>2. DOMAIN list' = DOMAIN k /\ list'.picked = k.picked /\ \A x \in PageFields : list'[x] = k[x]
    BY <1>4, <2>1 DEF Spun, ListFields, PageFields
  <2> QED
    BY <1>4, <2>1, <2>2, ScreenOk
<1>5. ASSUME NEW r \in list.reqs, DeskShown(r) PROVE ListOk(list', F)
  <2>1. PICK k : ListOk(k, F) /\ list' = Spun(k)
    <3>1. r.answer # <<>> /\ list' = Spun(IF r.kind = "first" THEN FirstPage(list, r)
                                          ELSE NextPage(list, r, r.answer[1].rows))
      BY <1>5 DEF DeskShown
    <3>2. ListOk(IF r.kind = "first" THEN FirstPage(list, r) ELSE NextPage(list, r, r.answer[1].rows), F)
      BY <1>1, <3>1, ShownOk
    <3> QED
      BY <3>1, <3>2
  <2> QED
    BY <1>4, <2>1
<1>6. ASSUME NEW r \in list.reqs, DeskListFails(r) PROVE ListOk(list', F)
  <2> DEFINE k == [list EXCEPT !.reqs = @ \ {r}]
  <2>1. /\ DOMAIN k = DOMAIN list /\ k.picked = list.picked /\ k.reqs = list.reqs \ {r}
        /\ \A x \in PageFields \ {"reqs"} : k[x] = list[x]
    BY <1>1 DEF ListFields, PageFields
  <2>2. list' = Spun(k)
    BY <1>6 DEF DeskListFails
  <2> HIDE DEF k
  <2>3. ListOk(k, F)
    BY <1>1, <2>1, FailedOk
  <2> QED
    BY <1>4, <2>2, <2>3
<1>7. ASSUME DeskTimer PROVE ListOk(list', F)
  <2> DEFINE k == DeskLoad(list, filter)
  <2>1. ListOk(k, F) /\ list' = [k EXCEPT !.timer = FALSE]
    BY <1>1, <1>7, OkRows, DeskLoadTrue DEF DeskTimer
  <2> HIDE DEF k
  <2>2. ListFields \subseteq DOMAIN k /\ k.picked \subseteq Students
    BY <2>1 DEF ListOk
  <2>3. DOMAIN list' = DOMAIN k /\ list'.picked = k.picked /\ \A x \in PageFields : list'[x] = k[x]
    BY <2>1, <2>2 DEF ListFields, PageFields
  <2> QED
    BY <2>1, <2>2, <2>3, ScreenOk
<1>8. ASSUME DeskMore PROVE ListOk(list', F)
  <2>1. DeskPage \in Nat
    BY BoundsAssumption
  <2> QED
    BY <1>1, <1>8, <2>1, MoreOk DEF DeskMore
<1>9. ASSUME NEW f, DeskChoose(f) PROVE ListOk(list', F)
  <2>1. list' = Filtered(f)
    BY <1>2, <1>9 DEF DeskChoose, Filtered
  <2> QED
    BY <1>1, <1>2, <2>1, FilteredTrue
<1>10. ASSUME DeskPickMode \/ DeskPickAll \/ \E s \in Students : DeskPick(s) PROVE ListOk(list', F)
  <2>1. CASE DeskPickMode
    BY <1>1, <2>1, PickedOk DEF DeskPickMode
  <2>2. CASE DeskPickAll
    BY <1>1, <2>2, PickedOk, RowStudents DEF DeskPickAll
  <2>3. ASSUME NEW s \in Students, DeskPick(s) PROVE ListOk(list', F)
    <3>1. {s} \in SUBSET Students
      OBVIOUS
    <3> QED
      BY <1>1, <2>3, <3>1, PickedOk DEF DeskPick
  <2> QED
    BY <1>10, <2>1, <2>2, <2>3
<1>11. ListOk(list', F)
  BY <1>5, <1>6, <1>7, <1>8, <1>9, <1>10 DEF DeskListStep
<1> QED
  BY <1>2, <1>3, <1>11 DEF ListGoesOn

\* The steps of the groups and of the lists beside them.
LEMMA GroupsLists ==
  ASSUME Before, GroupsNext, UNCHANGED <<tasks, undo>>
  PROVE  ListsInv'
<1>1. ListGoesOn
  <2>1. CASE \E i \in 1 .. 3 : HookTaken(i) \/ HookShown(i) \/ HookFails(i)
    BY <2>1, HookList
  <2>2. CASE \E g \in Groups : FilterCreate(g) \/ FilterRename(g) \/ FilterDelete(g)
    BY <2>2, ManageList
  <2>3. CASE \/ \E g \in Groups : BulkStart(g) \/ BulkCreate(g)
             \/ BatchesDone
             \/ (BatchSaved \/ BatchFails) /\ UNCHANGED saved
    BY <2>3, BarList
  <2>4. CASE /\ UNCHANGED saved
             /\ \/ EditorTaken \/ EditorLoaded \/ ToggleSaved \/ ToggleFails
                \/ \E g \in Groups : Toggle(g) \/ CreateAndInclude(g)
    BY <2>4, EditorList
  <2>5. CASE list # None /\ \E r \in list.reqs : ListTaken(r)
    BY <2>5, TakenList
  <2>6. CASE PhoneListStep
    <3>1. page = "pending"
      BY <2>6 DEF PhoneListStep, PhoneFirstShown, PhoneMoreShown, PhoneListFails, PhoneRetry, PhoneMore,
        PhonePickMode, PhonePickAll, PhoneChoose, PhonePick, PhoneSees
    <3> QED
      BY <2>6, <3>1, PhoneList DEF Before, ListsInv
  <2>7. CASE DeskListStep
    <3>1. page = "handled"
      BY <2>7 DEF DeskListStep, DeskShown, DeskListFails, DeskTimer, DeskMore,
        DeskPickMode, DeskPickAll, DeskChoose, DeskPick, DeskSees
    <3> QED
      BY <2>7, <3>1, DeskList DEF Before, ListsInv
  <2>8. \/ \E i \in 1 .. 3 : HookTaken(i) \/ HookShown(i) \/ HookFails(i)
        \/ \E g \in Groups : FilterCreate(g) \/ FilterRename(g) \/ FilterDelete(g)
        \/ \/ \E g \in Groups : BulkStart(g) \/ BulkCreate(g)
           \/ BatchesDone
           \/ (BatchSaved \/ BatchFails) /\ UNCHANGED saved
        \/ /\ UNCHANGED saved
           /\ \/ EditorTaken \/ EditorLoaded \/ ToggleSaved \/ ToggleFails
              \/ \E g \in Groups : Toggle(g) \/ CreateAndInclude(g)
        \/ list # None /\ \E r \in list.reqs : ListTaken(r)
        \/ PhoneListStep
        \/ DeskListStep
    BY DEF GroupsNext, PhoneListStep, DeskListStep
  <2> QED
    BY <2>1, <2>2, <2>3, <2>4, <2>5, <2>6, <2>7, <2>8, Zenon
<1>2. page' = page
  BY GroupsFrame DEF Frame, Before, DetailInv
<1>3. list # None => list' # None
  BY <1>1, SomeList DEF ListGoesOn, ListOk
<1> QED
  BY <1>1, <1>2, <1>3 DEF ListGoesOn, ListsInv, Before
-----------------------------------------------------------------------------
(* The phone's tasks, step by step.                                        *)

LEMMA TaskScreenOk ==
  ASSUME NEW t, TaskOk(t), NEW m, DOMAIN m = DOMAIN t, \A x \in PageFields : m[x] = t[x]
  PROVE  TaskOk(m)
<1>1. PageFields \subseteq DOMAIN m
  BY DEF TaskOk, TaskFields
<1> QED
  BY <1>1, SamePageTrue DEF TaskOk

\* fetchTasks.
LEMMA TaskLoadTrue ==
  ASSUME NEW t, TaskFields \subseteq DOMAIN t, RowsTrue(t, Students), NEW f
  PROVE  TaskOk(TaskLoad(t, f))
<1> DEFINE m == [t EXCEPT !.loading = TRUE, !.more = FALSE, !.error = FALSE]
           r == RequestOf("first", f, 0, PhonePage)
<1>1. DOMAIN m = DOMAIN t /\ \A x \in PageFields : m[x] = t[x]
  BY DEF TaskFields, PageFields
<1>2. TaskLoad(t, f) = Ask(m, r) /\ PhonePage \in Nat
  BY BoundsAssumption DEF TaskLoad
<1> HIDE DEF m
<1>3. RowsTrue(m, Students)
  BY <1>1, RowsStay
<1>4. ListTrue(Ask(m, r), Students) /\ DOMAIN Ask(m, r) = DOMAIN m
  BY <1>2, <1>3, AskTrue
<1> QED
  BY <1>1, <1>2, <1>4 DEF TaskOk

\* The list of tasks is opened.
LEMMA TasksOpenTrue == TaskOk(TasksOpen)
<1> DEFINE t == [rows |-> <<>>, total |-> 0, filter |-> "all", loading |-> TRUE,
                 more |-> FALSE, error |-> FALSE, timer |-> FALSE, reqs |-> {},
                 of |-> "all", seen |-> <<>>, steady |-> TRUE, doubt |-> {}]
<1>1. /\ TaskFields \subseteq DOMAIN t /\ PageFields \subseteq DOMAIN t
      /\ t.rows = <<>> /\ t.seen = <<>> /\ t.total = 0 /\ t.of = "all"
  BY DEF TaskFields, PageFields
<1>2. TasksOpen = TaskLoad(t, "all")
  BY DEF TasksOpen
<1> HIDE DEF t
<1>3. Len(<<>>) = 0 /\ <<>> \in Seq(Students) /\ Ascending(<<>>) /\ Begins(<<>>, <<>>)
  BY DEF Ascending, Begins
<1>4. RowsTrue(t, Students)
  BY <1>1, <1>3 DEF RowsTrue
<1> QED
  BY <1>1, <1>2, <1>4, TaskLoadTrue

\* A load of a list that is there.
LEMMA TaskAgain ==
  ASSUME NEW t, TaskOk(t), NEW f
  PROVE  TaskOk(TaskLoad(t, f))
BY TaskLoadTrue DEF TaskOk, ListTrue

\* A request of the tasks is taken by the service.
LEMMA TaskTakenOk ==
  ASSUME TaskOk(tasks), NEW r \in tasks.reqs, TaskTaken(r)
  PROVE  TaskOk(tasks')
<1> DEFINE S == {s \in Students : ~Handled(s) /\ (r.filter = "overdue" => s % 2 = 0)}
           q == InOrder(S)
           till == IF r.offset + r.limit < Len(q) THEN r.offset + r.limit ELSE Len(q)
           a == [rows |-> SubSeq(q, r.offset + 1, till), total |-> Len(q), seen |-> q]
           k == [r EXCEPT !.answer = <<a>>]
<1>1. tasks' = [tasks EXCEPT !.reqs = (@ \ {r}) \cup {k}]
  BY DEF TaskTaken, TasksAnswer
<1>2. TaskFields \subseteq DOMAIN tasks /\ ListTrue(tasks, Students)
  BY DEF TaskOk
<1>3. /\ RequestFields \subseteq DOMAIN r /\ r.limit \in Nat
      /\ r.offset = IF r.kind = "first" THEN 0 ELSE Len(tasks.rows)
      /\ tasks.rows \in Seq(Students)
  BY <1>2 DEF ListTrue, RequestTrue, RowsTrue
<1>4. r.offset \in Nat
  BY <1>3, LenProperties
<1>5. S \subseteq Students
  OBVIOUS
<1> HIDE DEF S
<1>6. k.offset = r.offset /\ k.limit = r.limit /\ k.filter = r.filter
  BY <1>3 DEF RequestFields
<1>7. a.seen = InOrder(S) /\ a.total = Len(InOrder(S)) /\ a.rows = SubSeq(InOrder(S), k.offset + 1,
        IF k.offset + k.limit < Len(InOrder(S)) THEN k.offset + k.limit ELSE Len(InOrder(S)))
  BY <1>6
<1> HIDE DEF a
<1>8. RequestFields \subseteq DOMAIN k /\ k.kind = r.kind /\ k.answer = <<a>>
  BY <1>3 DEF RequestFields
<1> HIDE DEF k, q, till
<1>9. Cut(a, k, Students)
  BY <1>3, <1>4, <1>5, <1>6, <1>7, CutFromOrder
<1>10. ListTrue(tasks', Students)
  BY <1>1, <1>2, <1>6, <1>8, <1>9, AnsweredTrue
<1>11. DOMAIN tasks' = DOMAIN tasks
  BY <1>1
<1> QED
  BY <1>2, <1>10, <1>11 DEF TaskOk

\* Its answer is shown.
LEMMA TaskShownOk ==
  ASSUME TaskOk(tasks), NEW r \in tasks.reqs, TaskShown(r)
  PROVE  TaskOk(tasks')
<1>1. TaskFields \subseteq DOMAIN tasks /\ ListTrue(tasks, Students) /\ r.answer # <<>> /\ r.kind \in {"first", "more"}
  BY DEF TaskOk, ListTrue, RequestTrue, TaskShown
<1> DEFINE rows == NewRows(tasks, r)
<1>2. PICK k : /\ TaskOk(k)
               /\ tasks' = [k EXCEPT !.loading = FALSE] \/ tasks' = [k EXCEPT !.more = FALSE]
  <2>1. CASE r.kind = "first"
    <3>1. ListTrue(FirstPage(tasks, r), Students) /\ DOMAIN FirstPage(tasks, r) = DOMAIN tasks
      BY <1>1, <2>1, FirstPageTrue
    <3>2. TaskOk(FirstPage(tasks, r))
      BY <1>1, <3>1 DEF TaskOk
    <3>3. tasks' = [FirstPage(tasks, r) EXCEPT !.loading = FALSE]
      BY <2>1 DEF TaskShown
    <3> QED
      BY <3>2, <3>3
  <2>2. CASE r.kind = "more"
    <3>0. tasks' = [NextPage(tasks, r, rows) EXCEPT !.more = FALSE]
      BY <2>2 DEF TaskShown
    <3>1. rows \in {NewRows(tasks, r), r.answer[1].rows}
      OBVIOUS
    <3> HIDE DEF rows
    <3>2. ListTrue(NextPage(tasks, r, rows), Students) /\ DOMAIN NextPage(tasks, r, rows) = DOMAIN tasks
      BY <1>1, <2>2, <3>1, NextPageTrue
    <3>3. TaskOk(NextPage(tasks, r, rows))
      BY <1>1, <3>2 DEF TaskOk
    <3> QED
      BY <3>0, <3>3
  <2> QED
    BY <1>1, <2>1, <2>2
<1>3. DOMAIN tasks' = DOMAIN k /\ \A x \in PageFields : tasks'[x] = k[x]
  BY <1>2 DEF TaskOk, TaskFields, PageFields
<1> QED
  BY <1>2, <1>3, TaskScreenOk

\* It fails.
LEMMA TaskFailsOk ==
  ASSUME TaskOk(tasks), NEW r \in tasks.reqs, TaskFails(r)
  PROVE  TaskOk(tasks')
<1>1. \/ tasks' = [tasks EXCEPT !.error = TRUE, !.loading = FALSE, !.reqs = @ \ {r}]
      \/ tasks' = [tasks EXCEPT !.more = FALSE, !.reqs = @ \ {r}]
  BY DEF TaskFails
<1>2. TaskFields \subseteq DOMAIN tasks /\ ListTrue(tasks, Students)
  BY DEF TaskOk
<1>3. /\ DOMAIN tasks' = DOMAIN tasks /\ tasks'.reqs = tasks.reqs \ {r}
      /\ \A x \in PageFields \ {"reqs"} : tasks'[x] = tasks[x]
  BY <1>1, <1>2 DEF TaskFields, PageFields
<1>4. PageFields \subseteq DOMAIN tasks'
  BY <1>2, <1>3 DEF TaskFields
<1>5. ListTrue(tasks', Students)
  BY <1>2, <1>3, <1>4, FailedTrue
<1> QED
  BY <1>2, <1>3, <1>5 DEF TaskOk

\* The next page is asked for.
LEMMA TasksMoreOk ==
  ASSUME TaskOk(tasks), TasksMore
  PROVE  TaskOk(tasks')
<1> DEFINE m == [tasks EXCEPT !.more = TRUE]
           o == Len(tasks.rows)
           f == tasks.filter
           n == PhonePage
           F == Students
<1>1. TaskFields \subseteq DOMAIN tasks /\ RowsTrue(tasks, F) /\ n \in Nat
  BY BoundsAssumption DEF TaskOk, ListTrue
<1>2. tasks' = Ask(m, RequestOf("more", f, o, n))
  BY DEF TasksMore, NextOffset
<1>3. DOMAIN m = DOMAIN tasks /\ (\A x \in PageFields : m[x] = tasks[x]) /\ m.rows = tasks.rows
  BY <1>1 DEF TaskFields, PageFields
<1>4. o = Len(m.rows)
  BY <1>3
<1> HIDE DEF m, o, f, n, F
<1>5. RowsTrue(m, F)
  BY <1>1, <1>3, RowsStay
<1>6. /\ ListTrue(Ask(m, RequestOf("more", f, o, n)), F)
      /\ DOMAIN Ask(m, RequestOf("more", f, o, n)) = DOMAIN m
      /\ \A x \in DOMAIN m \ {"reqs"} : Ask(m, RequestOf("more", f, o, n))[x] = m[x]
  BY <1>1, <1>4, <1>5, AskTrue
<1> QED
  BY <1>1, <1>2, <1>3, <1>6 DEF TaskOk, F

\* What a step of the tasks does to them.
LEMMA TasksOk ==
  ASSUME Before, TasksNext
  PROVE  IF tasks = None THEN tasks' = None ELSE TaskOk(tasks')
<1>1. tasks # None => TaskOk(tasks) /\ TaskFields \subseteq DOMAIN tasks
  BY DEF Before, ListsInv, TaskOk
<1>2. page = "tasks" => tasks # None
  BY DEF Before, ListsInv
<1>3. CASE (\E f \in TaskFilters : TasksChoose(f)) \/ TasksTimer \/ TasksShowAll
  <2>1. tasks # None
    BY <1>2, <1>3 DEF TasksChoose, TasksTimer, TasksShowAll, TasksSeen
  <2>2. PICK k : /\ TaskOk(k)
                 /\ \/ \E f : tasks' = [k EXCEPT !.filter = f, !.timer = TRUE]
                    \/ tasks' = [k EXCEPT !.timer = FALSE]
                    \/ tasks' = [k EXCEPT !.filter = "all", !.timer = @ \/ tasks.filter # "all"]
    <3>1. TaskOk(tasks) /\ \A f : TaskOk(TaskLoad(tasks, f))
      BY <1>1, <2>1, TaskAgain
    <3> QED
      BY <1>3, <3>1 DEF TasksChoose, TasksTimer, TasksShowAll
  <2>3. DOMAIN tasks' = DOMAIN k /\ \A x \in PageFields : tasks'[x] = k[x]
    BY <2>2 DEF TaskOk, TaskFields, PageFields
  <2>4. TaskOk(tasks')
    BY <2>2, <2>3, TaskScreenOk
  <2> QED
    BY <2>1, <2>4
<1>4. CASE TasksRefresh \/ \E s \in Students : TaskCalled(s)
  <2>1. tasks # None /\ tasks' = TaskLoad(tasks, tasks.filter)
    BY <1>2, <1>4 DEF TasksRefresh, TaskCalled, TasksSeen
  <2> QED
    BY <1>1, <2>1, TaskAgain
<1>5. CASE \E r \in IF tasks = None THEN {} ELSE tasks.reqs : TaskTaken(r) \/ TaskShown(r) \/ TaskFails(r)
  BY <1>1, <1>5, TaskTakenOk, TaskShownOk, TaskFailsOk
<1>6. CASE TasksMore
  <2>1. tasks # None
    BY <1>2, <1>6 DEF TasksMore, TasksSeen
  <2> QED
    BY <1>1, <1>6, <2>1, TasksMoreOk
<1>7. CASE ToastGone \/ GoPending \/ GoTasks
  BY <1>1, <1>7 DEF ToastGone, GoPending, GoTasks
<1> QED
  BY <1>3, <1>4, <1>5, <1>6, <1>7 DEF TasksNext

\* The steps of the tasks.
LEMMA TasksLists ==
  ASSUME Before, TasksNext
  PROVE  ListsInv'
<1>1. /\ IF tasks = None THEN tasks' = None ELSE TaskOk(tasks')
      /\ tasks # None => tasks' # None
  BY TasksOk, SomeList DEF TaskOk
<1>2. CASE GoPending
  <2>1. page' = "pending" /\ PhoneListOpens /\ UNCHANGED <<saved, undo, rec>> /\ page = "tasks"
    BY <1>2 DEF GoPending, server
  <2>2. Free' = Free
    BY <2>1 DEF Free
  <2>3. ListOk(list', Free')
    <3> DEFINE F == Free'
    <3> HIDE DEF F
    <3>1. ListOk(list', F)
      BY <2>1, PhoneOpensTrue DEF Before, ListsInv
    <3> QED
      BY <3>1 DEF F
  <2> QED
    BY <1>1, <2>1, <2>3, SomeList DEF Before, ListsInv, ListOk
<1>3. CASE GoTasks
  <2>1. page' = "tasks" /\ list' = None /\ UNCHANGED <<saved, undo>> /\ page = "pending"
    BY <1>3 DEF GoTasks
  <2> QED
    BY <1>1, <2>1 DEF Before, ListsInv
<1>4. CASE \E s \in Students : TaskCalled(s)
  <2>1. page = "tasks" /\ UNCHANGED <<page, list, saved>>
    BY <1>4 DEF TaskCalled, TasksSeen, groupVars, lists
  <2>2. list = None
    BY <2>1, ListThere DEF OnList
  <2> QED
    BY <1>1, <2>1, <2>2 DEF Before, ListsInv
<1>5. CASE ~GoPending /\ ~GoTasks /\ ~\E s \in Students : TaskCalled(s)
  <2>1. UNCHANGED <<page, rec, list, saved>> /\ (undo' # None => undo # None)
    BY <1>5 DEF TasksNext, TasksChoose, TasksTimer, TasksRefresh, TasksShowAll, TasksMore, ToastGone,
      TaskTaken, TaskShown, TaskFails, groupVars, lists
  <2>2. Free' = Free
    BY <2>1 DEF Free
  <2> QED
    BY <1>1, <2>1, <2>2 DEF Before, ListsInv
<1> QED
  BY <1>2, <1>3, <1>4, <1>5
-----------------------------------------------------------------------------
(* The student's page, for the lists.                                      *)

LEMMA OpenLists ==
  ASSUME Before, NEW s \in Students, OpenStudent(s)
  PROVE  ListsInv'
<1>1. page' = "student" /\ list' = None /\ tasks' = None
  BY DEF OpenStudent
<1>2. saved' # None => SavedOk(saved')
  <2>1. CASE UNCHANGED saved
    BY <2>1 DEF Before, ListsInv, SavedOk
  <2>2. CASE PhoneSees /\ saved' = [filter |-> filter, rows |-> list.rows, total |-> list.total]
    <3>1. ListOk(list, Free)
      BY <2>2, ListHere DEF PhoneSees, OnList
    <3>2. list.rows \in Seq(Students)
      BY <3>1 DEF ListOk, ListTrue, RowsTrue
    <3> QED
      BY <2>2, <3>2 DEF SavedOk
  <2> QED
    BY <2>1, <2>2 DEF OpenStudent
<1> QED
  BY <1>1, <1>2 DEF ListsInv

\* The steps on a student's page touch no list.
LEMMA PageLists ==
  ASSUME Before, stud # None,
         \/ DetailTaken \/ DetailFails \/ DetailRetry \/ \E a \in stud.reqs : DetailShown(a)
         \/ \E op \in Ops : StudentSend(op) \/ WorkflowSaved(op) \/ DetailSaved(op) \/ JobFails(op)
  PROVE  ListsInv'
<1>1. UNCHANGED <<page, list, tasks, saved>> /\ page = "student"
  BY DEF Before, DetailInv, Places, DetailTaken, DetailFails, DetailRetry, DetailShown, StudentSend,
    WorkflowSaved, DetailSaved, JobFails, studVars, lists
<1>2. list = None
  BY <1>1, ListThere DEF OnList
<1> QED
  BY <1>1, <1>2 DEF Before, ListsInv

\* The page is left for a list that starts anew, or for one that was put aside.
LEMMA LeaveLists ==
  ASSUME Before, LeaveStudent
  PROVE  ListsInv'
<1>1. /\ page = "student" /\ page' = stud.from /\ tasks' = TasksOpen /\ UNCHANGED saved
      /\ IF stud.from = "pending" THEN PhoneListOpens ELSE UNCHANGED list
  BY DEF LeaveStudent
<1>2. stud.from \in {"tasks", "pending"} /\ list = None
  BY <1>1, ListThere DEF Before, DetailInv, Places, DetailWhole, OnList
<1>3. TaskOk(tasks') /\ tasks' # None
  BY <1>1, TasksOpenTrue, SomeList DEF TaskOk
<1>4. IF stud.from = "pending" THEN ListOk(list', Free') ELSE list' = None
  <2> DEFINE F == Free'
  <2> HIDE DEF F
  <2>1. stud.from = "pending" => ListOk(list', F)
    BY <1>1, PhoneOpensTrue DEF Before, ListsInv
  <2> QED
    BY <1>1, <1>2, <2>1 DEF F
<1>5. page' = "pending" => list' # None
  BY <1>1, <1>4, SomeList DEF ListOk
<1> QED
  BY <1>1, <1>2, <1>3, <1>4, <1>5 DEF Before, ListsInv

\* What the undo does to the table, away from the student's page.
LEMMA UndoBack ==
  ASSUME Before, Undo, page # "student"
  PROVE  SameGroups(rec, rec')
<1>1. rec' = [rec EXCEPT ![undo.student].result = "new"]
  BY DEF Undo
<1> QED
  BY <1>1, ResultFrame DEF Before, DetailInv

\* Without a change of groups the same students are free.
LEMMA SameFree == ASSUME SameGroups(rec, rec') PROVE Free' = Free
BY DEF SameGroups, Free

\* The last outcome is taken back: the tasks are loaded again.
LEMMA UndoLists ==
  ASSUME Before, Undo
  PROVE  ListsInv'
<1>1. UNCHANGED <<page, list, saved>> /\ undo # None /\ undo' = None
  BY DEF Undo, lists
<1>2. list # None => ListOk(list', Free')
  <2> SUFFICES ASSUME list # None PROVE ListOk(list', Free')
    OBVIOUS
  <2>1. page # "student"
    BY ListThere DEF OnList
  <2>2. Free' = Free
    BY <2>1, UndoBack, SameFree
  <2> QED
    BY <1>1, <2>2 DEF Before, ListsInv
<1>3. IF page \in {"tasks", "pending"} THEN TaskOk(tasks') ELSE tasks' = tasks
  <2>1. page \in {"tasks", "pending", "student"}
    BY <1>1 DEF Before, ListsInv
  <2>2. CASE page = "student"
    BY <2>2 DEF Undo
  <2>3. CASE page \in {"tasks", "pending"}
    <3>1. TaskOk(tasks)
      BY <2>3 DEF Before, ListsInv
    <3>2. tasks' = tasks \/ tasks' = TaskLoad(tasks, undo.filter)
      BY <2>3 DEF Undo
    <3> QED
      BY <2>3, <3>1, <3>2, TaskAgain
  <2> QED
    BY <2>1, <2>2, <2>3
<1>4. TaskOk(tasks') => tasks' # None
  BY SomeList DEF TaskOk
<1> QED
  BY <1>1, <1>2, <1>3, <1>4 DEF Before, ListsInv

\* Every other step of a student's page.
LEMMA ElsewhereLists ==
  ASSUME Before, NEW s \in Students, ElsewhereHandles(s)
  PROVE  ListsInv' /\ SameGroups(rec, rec')
<1>1. /\ rec' = [rec EXCEPT ![s].result = IF rec[s].result = "new" THEN "spoke" ELSE "new"]
      /\ UNCHANGED <<page, list, saved, tasks, undo>>
  BY DEF ElsewhereHandles, lists, Before, DetailInv, Table, RecordFields, Fields
<1>2. SameGroups(rec, rec')
  <2> DEFINE v == IF rec[s].result = "new" THEN "spoke" ELSE "new"
  <2>1. Table(rec) /\ rec' = [rec EXCEPT ![s].result = v]
    BY <1>1 DEF Before, DetailInv
  <2> HIDE DEF v
  <2> QED
    BY <2>1, ResultFrame
<1>3. Free' = Free
  BY <1>2, SameFree
<1> QED
  BY <1>1, <1>2, <1>3 DEF Before, ListsInv

\* Every step keeps the lists true.
LEMMA NextLists ==
  ASSUME Before, [Next]_phoneVars
  PROVE  ListsInv'
<1>1. CASE GroupsNext /\ UNCHANGED <<tasks, undo, stud>>
  BY <1>1, GroupsLists
<1>2. CASE TasksNext
  BY <1>2, TasksLists
<1>3. CASE StudentNext
  <2>1. CASE \E s \in Students : OpenStudent(s)
    BY <2>1, OpenLists
  <2>2. CASE LeaveStudent
    BY <2>2, LeaveLists
  <2>3. CASE Undo
    BY <2>3, UndoLists
  <2>4. CASE PageStep
    <3>1. stud # None
      <4>1. DetailRetry => stud # None
        BY DEF DetailRetry
      <4>2. \A op : StudentSend(op) \/ WorkflowSaved(op) \/ DetailSaved(op) \/ JobFails(op) => stud # None
        BY DEF StudentSend, DetailSeen, WorkflowSaved, DetailSaved, JobFails
      <4> QED
        BY <2>4, <4>1, <4>2 DEF PageStep, DetailTaken, DetailFails
    <3> QED
      BY <2>4, <3>1, PageLists DEF PageStep
  <2> QED
    BY <1>3, <2>1, <2>2, <2>3, <2>4, StayCases, Zenon
<1>4. CASE \E s \in Students : ElsewhereHandles(s)
  BY <1>4, ElsewhereLists
<1>5. CASE UNCHANGED phoneVars
  <2>1. UNCHANGED <<page, rec, list, saved, tasks, undo>>
    BY <1>5 DEF phoneVars, server, lists
  <2> QED
    BY <2>1, SameFree DEF Before, ListsInv, SameGroups
<1> QED
  BY <1>1, <1>2, <1>3, <1>4, <1>5 DEF Next
-----------------------------------------------------------------------------
(* The bar, step by step.                                                  *)

\* No student leaves a group that stays.
Stands == \A s \in Students, g \in Groups : InOrGone(s, g) => InOrGone(s, g)'

\* A step that leaves the bar alone.
Carried == bulk' = bulk /\ (OnList => page' = page /\ Stands) /\ DOMAIN existing' = Groups

\* No group changes.
LEMMA StandsSame == ASSUME SameGroups(rec, rec'), UNCHANGED existing PROVE Stands
BY DEF SameGroups, Stands, InOrGone

\* A batch joins.
LEMMA StandsJoin ==
  ASSUME Table(rec), NEW g, NEW ids, Join(g, ids), UNCHANGED existing
  PROVE  Stands /\ \A s \in ids \cap Students : g \in rec'[s].groups
<1>1. /\ rec' = [s \in Students |-> IF s \in ids THEN [rec[s] EXCEPT !.groups = @ \cup {g}] ELSE rec[s]]
      /\ \A s \in Students : "groups" \in DOMAIN rec[s]
  BY DEF Join, Table, RecordFields
<1>2. \A s \in Students : rec[s].groups \subseteq rec'[s].groups /\ (s \in ids => g \in rec'[s].groups)
  BY <1>1
<1> QED
  BY <1>2 DEF Stands, InOrGone

\* A group is deleted.
LEMMA StandsDeleted ==
  ASSUME Table(rec), DOMAIN existing = Groups, NEW g, Deleted(g)
  PROVE  Stands /\ DOMAIN existing' = Groups
<1>1. /\ rec' = [s \in Students |-> [rec[s] EXCEPT !.groups = @ \ {g}]]
      /\ existing' = [existing EXCEPT ![g] = "archived"]
      /\ \A s \in Students : "groups" \in DOMAIN rec[s]
  BY DEF Deleted, Table, RecordFields
<1>2. \A s \in Students : rec'[s].groups = rec[s].groups \ {g}
  BY <1>1
<1>3. \A h \in Groups : existing'[h] = IF h = g THEN "archived" ELSE existing[h]
  BY <1>1
<1> QED
  BY <1>1, <1>2, <1>3 DEF Stands, InOrGone

\* A group is created: it was none before, an archived one stays archived.
LEMMA StandsCreated ==
  ASSUME DOMAIN existing = Groups, NEW g, Created(g)
  PROVE  Stands /\ DOMAIN existing' = Groups
<1>1. UNCHANGED rec /\ existing' = [existing EXCEPT ![g] = "kept"] /\ existing[g] = "none"
  BY DEF Created
<1>2. \A h \in Groups : existing[h] = "archived" => existing'[h] = "archived"
  BY <1>1
<1> QED
  BY <1>1, <1>2 DEF Stands, InOrGone

\* A step that leaves the bar alone keeps it.
LEMMA CarriedBar == ASSUME Before, Carried PROVE BarInv'
<1>1. DOMAIN existing' = Groups /\ bulk' = bulk /\ BarInv
  BY DEF Carried, Before
<1>2. CASE bulk # None /\ bulk.shown
  <2>1. page' = page /\ Stands /\ OnList
    BY <1>1, <1>2 DEF Carried, BarInv
  <2>2. \A s \in bulk.all \ bulk.left : InOrGone(s, bulk.group)'
    BY <1>1, <1>2, <2>1 DEF BarInv, Stands, InOrGone
  <2> QED
    BY <1>1, <1>2, <2>1, <2>2 DEF BarInv, OnList, InOrGone
<1>3. CASE bulk = None \/ ~bulk.shown
  BY <1>1, <1>3 DEF BarInv
<1> QED
  BY <1>2, <1>3

\* Nothing is written.
LEMMA StandsStill == ASSUME UNCHANGED <<rec, existing>> PROVE Stands
BY DEF Stands, InOrGone

\* The steps of the groups that are not the bar's.
LEMMA GroupsCarried ==
  ASSUME Before,
         \/ \E i \in 1 .. 3 : HookTaken(i) \/ HookShown(i) \/ HookFails(i)
         \/ \E g \in Groups : FilterCreate(g) \/ FilterRename(g) \/ FilterDelete(g)
         \/ EditorTaken \/ EditorLoaded \/ ToggleSaved \/ ToggleFails
         \/ \E g \in Groups : Toggle(g) \/ CreateAndInclude(g)
         \/ PhoneListStep \/ DeskListStep \/ (list # None /\ \E r \in list.reqs : ListTaken(r))
  PROVE  Carried
<1>0. DOMAIN existing = Groups /\ Table(rec)
  BY DEF Before, BarInv, DetailInv
<1>1. CASE \E i \in 1 .. 3 : HookTaken(i) \/ HookShown(i) \/ HookFails(i)
  <2>1. UNCHANGED <<rec, existing, page, bulk>>
    BY <1>1 DEF HookTaken, HookShown, HookFails, Around
  <2> QED
    BY <1>0, <2>1, StandsStill DEF Carried
<1>2. CASE \E g \in Groups : FilterCreate(g) \/ FilterRename(g) \/ FilterDelete(g)
  <2>1. PICK g \in Groups : FilterCreate(g) \/ FilterRename(g) \/ FilterDelete(g)
    BY <1>2
  <2>2. UNCHANGED <<page, bulk>> /\ (Created(g) \/ Deleted(g) \/ UNCHANGED <<rec, existing>>)
    BY <2>1 DEF FilterCreate, FilterRename, FilterDelete, Around
  <2>3. Stands /\ DOMAIN existing' = Groups
    BY <1>0, <2>2, StandsCreated, StandsDeleted, StandsStill
  <2> QED
    BY <2>2, <2>3 DEF Carried
<1>3. CASE \/ EditorTaken \/ EditorLoaded \/ ToggleSaved \/ ToggleFails
           \/ \E g \in Groups : Toggle(g) \/ CreateAndInclude(g)
  <2>1. editor # None /\ UNCHANGED bulk /\ (UNCHANGED existing \/ \E g : Created(g))
    BY <1>3 DEF EditorTaken, EditorLoaded, ToggleSaved, ToggleFails, Toggle, CreateAndInclude, EditorFree, server
  <2>2. ~OnList
    BY <2>1 DEF Before, DetailInv, Places, OnList
  <2>3. DOMAIN existing' = Groups
    BY <1>0, <2>1, StandsCreated
  <2> QED
    BY <2>1, <2>2, <2>3 DEF Carried
<1>4. CASE PhoneListStep \/ DeskListStep \/ (list # None /\ \E r \in list.reqs : ListTaken(r))
  <2>1. Frame /\ UNCHANGED <<rec, existing, bulk, editor>>
    BY <1>0, <1>4, ListFrame
  <2> QED
    BY <1>0, <2>1, StandsStill DEF Carried, Frame
<1> QED
  BY <1>1, <1>2, <1>3, <1>4

\* The steps of the tasks and of a student's page that keep the bar.
LEMMA PagesCarried ==
  ASSUME Before,
         \/ TasksNext /\ ~GoTasks
         \/ StudentNext /\ ~\E s \in Students : OpenStudent(s)
         \/ \E s \in Students : ElsewhereHandles(s)
         \/ UNCHANGED phoneVars
  PROVE  Carried
<1>0. DOMAIN existing = Groups /\ Table(rec)
  BY DEF Before, BarInv, DetailInv
<1>1. CASE TasksNext /\ ~GoTasks
  <2>1. UNCHANGED <<bulk, existing>>
    BY <1>1 DEF TasksNext, TasksChoose, TasksTimer, TasksRefresh, TasksShowAll, TasksMore, ToastGone,
      TaskTaken, TaskShown, TaskFails, TaskCalled, GoPending, groupVars, server
  <2>2. UNCHANGED <<page, rec>> \/ page = "tasks"
    BY <1>1 DEF TasksNext, TasksChoose, TasksTimer, TasksRefresh, TasksShowAll, TasksMore, ToastGone,
      TaskTaken, TaskShown, TaskFails, TaskCalled, TasksSeen, GoPending, server
  <2> QED
    BY <1>0, <2>1, <2>2, StandsStill DEF Carried, OnList
<1>2. CASE StudentNext /\ ~\E s \in Students : OpenStudent(s)
  <2>1. CASE LeaveStudent
    <3>1. page = "student" /\ UNCHANGED <<bulk, existing>>
      BY <2>1 DEF LeaveStudent
    <3> QED
      BY <1>0, <3>1 DEF Carried, OnList
  <2>2. CASE Undo
    <3>1. UNCHANGED <<bulk, existing, page>>
      BY <2>2 DEF Undo
    <3>2. OnList => Stands
      BY <2>2, <3>1, UndoBack, StandsSame DEF OnList
    <3> QED
      BY <1>0, <3>1, <3>2 DEF Carried
  <2>3. CASE PageStep
    <3>1. UNCHANGED <<bulk, existing>> /\ stud # None
      BY <2>3 DEF PageStep, DetailTaken, DetailFails, DetailRetry, DetailShown, StudentSend, DetailSeen,
        WorkflowSaved, DetailSaved, JobFails, studVars, server
    <3>2. ~OnList
      BY <3>1 DEF Before, DetailInv, Places, OnList
    <3> QED
      BY <1>0, <3>1, <3>2 DEF Carried
  <2> QED
    BY <1>2, <2>1, <2>2, <2>3, StayCases, Zenon
<1>3. CASE \E s \in Students : ElsewhereHandles(s)
  <2>1. UNCHANGED <<page, bulk, existing>>
    BY <1>3 DEF ElsewhereHandles
  <2>2. SameGroups(rec, rec')
    BY <1>3, ElsewhereLists
  <2> QED
    BY <1>0, <2>1, <2>2, StandsSame DEF Carried
<1>4. CASE UNCHANGED phoneVars
  BY <1>0, <1>4, StandsStill DEF Carried, phoneVars, server
<1> QED
  BY <1>1, <1>2, <1>3, <1>4

\* A bar that starts has everybody still to send.
LEMMA StartedBar ==
  ASSUME Before, NEW g \in Groups, BulkStart(g) \/ BulkCreate(g)
  PROVE  BarInv' /\ bulk = None
<1>1. /\ bulk = None /\ OnList /\ UNCHANGED page /\ bulk' = Started(g)
      /\ DOMAIN existing' = Groups
  <2>1. DOMAIN existing = Groups
    BY DEF Before, BarInv
  <2> QED
    BY <2>1, StandsCreated DEF BulkStart, BulkCreate, BarFree, server
<1>2. list.picked \subseteq Students
  BY <1>1, ListHere DEF ListOk
<1>3. /\ BarFields \subseteq DOMAIN bulk' /\ bulk'.group = g /\ bulk'.left = list.picked /\ bulk'.all = list.picked
  BY <1>1 DEF Started, BarFields
<1> QED
  BY <1>1, <1>2, <1>3 DEF BarInv, OnList

\* A batch was saved, and others are to follow.
LEMMA SavedBar ==
  ASSUME Before, BatchSaved
  PROVE  BarInv' /\ bulk' # None
<1>1. PICK ids \in Batches \ {bulk.left} :
        /\ bulk # None /\ Join(bulk.group, ids) /\ bulk' = [bulk EXCEPT !.left = @ \ ids]
        /\ UNCHANGED <<page, existing>>
  BY DEF BatchSaved
<1>2. BarFields \subseteq DOMAIN bulk /\ bulk.all \subseteq Students /\ bulk.group \in Groups /\ bulk.left \subseteq bulk.all
  BY <1>1 DEF Before, BarInv
<1>3. /\ BarFields \subseteq DOMAIN bulk' /\ bulk'.left = bulk.left \ ids
      /\ bulk'.group = bulk.group /\ bulk'.all = bulk.all /\ bulk'.shown = bulk.shown
  BY <1>1, <1>2 DEF BarFields
<1>4. Stands /\ \A s \in ids \cap Students : bulk.group \in rec'[s].groups
  BY <1>1, StandsJoin DEF Before, DetailInv
<1>5. bulk.shown => \A s \in bulk.all \ bulk.left : InOrGone(s, bulk.group)'
  BY <1>1, <1>2, <1>4 DEF Before, BarInv, Stands, InOrGone
<1>6. bulk.shown => \A s \in bulk'.all \ bulk'.left : InOrGone(s, bulk.group)'
  BY <1>2, <1>3, <1>4, <1>5 DEF InOrGone
<1>7. bulk' # None
  BY <1>3 DEF BarFields, None
<1> QED
  BY <1>1, <1>2, <1>3, <1>6, <1>7 DEF Before, BarInv, OnList, InOrGone

\* The page goes: the bar goes on, and nobody sees it.
LEMMA GoneBar ==
  ASSUME Before, bulk' = Unmounted(bulk), UNCHANGED existing
  PROVE  BarInv' /\ (bulk # None => bulk' # None)
<1>1. CASE bulk = None
  BY <1>1 DEF Unmounted, Before, BarInv
<1>2. CASE bulk # None
  <2>1. BarFields \subseteq DOMAIN bulk /\ bulk' = [bulk EXCEPT !.shown = FALSE]
    BY <1>2 DEF Before, BarInv, Unmounted
  <2>2. /\ BarFields \subseteq DOMAIN bulk' /\ bulk'.left = bulk.left /\ bulk'.group = bulk.group
        /\ bulk'.all = bulk.all /\ bulk'.shown = FALSE
    BY <2>1 DEF BarFields
  <2>3. bulk' # None
    BY <2>2 DEF BarFields, None
  <2> QED
    BY <1>2, <2>2, <2>3 DEF Before, BarInv
<1> QED
  BY <1>1, <1>2

\* What a step may do to the bar.
LEMMA BarCases ==
  ASSUME Before, [Next]_phoneVars
  PROVE  \/ Carried
         \/ \E g \in Groups : BulkStart(g) \/ BulkCreate(g)
         \/ BatchSaved \/ BatchFails \/ BatchesDone
         \/ bulk' = Unmounted(bulk) /\ UNCHANGED existing
<1>1. CASE GroupsNext
  BY <1>1, GroupsCases, GroupsCarried
<1>2. CASE TasksNext
  <2>1. GoTasks => bulk' = Unmounted(bulk) /\ UNCHANGED existing
    BY DEF GoTasks, server
  <2> QED
    BY <1>2, <2>1, PagesCarried
<1>3. CASE StudentNext
  <2>1. (\E s \in Students : OpenStudent(s)) => bulk' = Unmounted(bulk) /\ UNCHANGED existing
    BY DEF OpenStudent, server
  <2> QED
    BY <1>3, <2>1, PagesCarried
<1>4. CASE (\E s \in Students : ElsewhereHandles(s)) \/ UNCHANGED phoneVars
  BY <1>4, PagesCarried
<1> QED
  BY <1>1, <1>2, <1>3, <1>4 DEF Next

\* Every step keeps the bar.
LEMMA NextBar == ASSUME Before, [Next]_phoneVars PROVE BarInv'
<1>1. CASE BatchFails \/ BatchesDone
  BY <1>1 DEF BatchFails, BatchesDone, Stopped, Before, BarInv
<1> QED
  BY <1>1, BarCases, CarriedBar, StartedBar, SavedBar, GoneBar

\* The bar's end.
LEMMA EndMeansAll ==
  ASSUME Before, [Next]_phoneVars,
         bulk # None, bulk' = None, bulk.shown, list'.picked = {}, list.picked # {}
  PROVE  \A s \in bulk.all : bulk.group \in rec'[s].groups
<1>1. BatchFails \/ BatchesDone
  BY BarCases, StartedBar, SavedBar, GoneBar DEF Carried
<1>2. ~BatchFails
  <2> SUFFICES ASSUME BatchFails PROVE FALSE
    OBVIOUS
  <2>1. ListOk(list, Free)
    BY ListHere DEF Before, BarInv
  <2>2. list' # list
    OBVIOUS
  <2>3. PICK ids : Join(bulk.group, ids) /\ list' = Unheard(list, ids)
    BY <2>2 DEF BatchFails
  <2>4. Free \ ids \subseteq Free
    OBVIOUS
  <2>5. Unheard(list, ids).picked = list.picked
    BY <2>1, <2>4, UnheardOk
  <2> QED
    BY <2>3, <2>5
<1>3. Join(bulk.group, bulk.left) /\ UNCHANGED existing
  BY <1>1, <1>2 DEF BatchesDone
<1>4. Stands /\ \A s \in bulk.left \cap Students : bulk.group \in rec'[s].groups
  BY <1>3, StandsJoin DEF Before, DetailInv
<1>5. existing'[bulk.group] = "kept"
  BY <1>3 DEF Join, Existing
<1>6. ASSUME NEW s \in bulk.all PROVE bulk.group \in rec'[s].groups
  <2>1. PICK g \in Groups : g = bulk.group
    BY DEF Before, BarInv
  <2>2. s \in Students
    BY DEF Before, BarInv
  <2>3. CASE s \in bulk.left
    BY <1>4, <2>2, <2>3
  <2>4. CASE s \notin bulk.left
    <3>1. InOrGone(s, g)
      BY <2>1, <2>4 DEF Before, BarInv
    <3>2. InOrGone(s, g)'
      BY <1>4, <2>2, <3>1 DEF Stands
    <3> QED
      BY <1>5, <2>1, <3>2 DEF InOrGone
  <2> QED
    BY <2>3, <2>4
<1> QED
  BY <1>6
-----------------------------------------------------------------------------
\* At the start no page, no bar and no list of a group is open.
LEMMA InitBefore == ASSUME Init PROVE Before
<1>1. DetailInv
  BY InitDetail
<1>2. ListOk(DeskListOpens, Free)
  <2> DEFINE m == [Emptied EXCEPT !.timer = TRUE]
             F == Free
  <2> HIDE DEF F
  <2>1. ListOk(Emptied, F)
    BY EmptiedTrue
  <2>2. DOMAIN m = DOMAIN Emptied /\ m.picked = {} /\ \A x \in PageFields : m[x] = Emptied[x]
    BY DEF Emptied, PageFields
  <2>3. DeskListOpens = m
    BY DEF DeskListOpens
  <2> HIDE DEF m
  <2>4. ListOk(m, F)
    BY <2>1, <2>2, ScreenOk
  <2> QED
    BY <2>3, <2>4 DEF F
<1>3. TaskOk(TasksOpen) /\ TasksOpen # None /\ DeskListOpens # None
  BY <1>2, TasksOpenTrue, SomeList DEF TaskOk, ListOk
<1>4. ListsInv
  BY <1>2, <1>3 DEF Init, ListsInv
<1>5. BarInv
  BY DEF Init, BarInv
<1> QED
  BY <1>1, <1>4, <1>5 DEF Before

\* The invariant is inductive.
LEMMA NextBefore == ASSUME Before, [Next]_phoneVars PROVE Before'
BY NextDetail, NextLists, NextBar DEF Before

\* Under the filter for students without a group no row loaded for it has one,
\* unless the list was never told (handleBulkApplied, personal-groups-changed).
THEOREM UngroupedShowsTruth == Spec => []UngroupedIsTrue
<1>1. Init => Before
  BY InitBefore
<1>2. Before /\ [Next]_phoneVars => Before'
  BY NextBefore
<1>3. Before => UngroupedIsTrue
  <2> SUFFICES ASSUME Before, list # None, list.of = "ungrouped", NEW s \in ToSet(list.rows), s \notin list.doubt
               PROVE  rec[s].groups = {}
    BY DEF UngroupedIsTrue
  <2>1. list.rows \in Seq(list.doubt \cup Free)
    BY DEF Before, ListsInv, ListOk, ListTrue, RowsTrue
  <2> DEFINE A == list.doubt \cup Free
  <2>2. \A q \in Seq(A) : ToSet(q) \subseteq A
    <3> HIDE DEF A
    <3> QED
      BY LenProperties, ElementOfSeq DEF ToSet
  <2>3. s \in Free
    BY <2>1, <2>2
  <2> QED
    BY <2>3 DEF Free
<1> QED
  BY <1>1, <1>2, <1>3, PTL DEF Spec

\* No page leaves a student out between it and the one before, and the button
\* for more is there while students are missing (loadMore, Taken).
THEOREM PagesSkipNobody == Spec => []NothingSkipped
<1>1. Init => Before
  BY InitBefore
<1>2. Before /\ [Next]_phoneVars => Before'
  BY NextBefore
<1>3. ASSUME NEW l, NEW free, RowsTrue(l, free) PROVE Contiguous(l)
  <2> SUFFICES ASSUME l.steady PROVE IsPrefix(l.rows, l.seen) /\ (Len(l.rows) < l.total) = (Len(l.rows) < Len(l.seen))
    BY DEF Contiguous
  <2> DEFINE q == l.rows
             w == l.seen
             n == Len(q)
  <2>1. q \in Seq(Students) /\ w \in Seq(Students) /\ Begins(q, w) /\ l.total = Len(w)
    BY <1>3 DEF RowsTrue
  <2> HIDE DEF q, w
  <2>2. n \in Nat /\ Len(w) \in Nat /\ n <= Len(w) /\ \A i \in 1 .. n : q[i] = w[i]
    BY <2>1, LenProperties DEF Begins
  <2> HIDE DEF n
  <2>3. SubSeq(q, 1, n) = SubSeq(w, 1, n)
    BY <2>2 DEF SubSeq
  <2>4. IsPrefix(q, w)
    BY <2>2, <2>3 DEF IsPrefix, n
  <2> QED
    BY <2>1, <2>4 DEF q, w
<1>4. Before => NothingSkipped
  BY <1>3 DEF Before, ListsInv, ListOk, TaskOk, ListTrue, NothingSkipped
<1> QED
  BY <1>1, <1>2, <1>4, PTL DEF Spec

\* The bar ends its selection only when every student picked is in the group
\* (applyToGroup, PersonalGroups.jsx).
THEOREM BarEndsWithAll == Spec => BarMeansAll
<1>1. Init => Before
  BY InitBefore
<1>2. Before /\ [Next]_phoneVars => Before'
  BY NextBefore
<1>3. Before /\ [Next]_phoneVars =>
        [bulk # None /\ bulk' = None /\ bulk.shown /\ list'.picked = {} /\ list.picked # {} /\ clicks' = clicks
           => \A s \in bulk.all : bulk.group \in rec'[s].groups]_phoneVars
  BY EndMeansAll
<1> QED
  BY <1>1, <1>2, <1>3, PTL DEF Spec, BarMeansAll
=============================================================================
