------------------------------ MODULE ReclaimDesk ------------------------------
(***************************************************************************)
(* The desk of leads given up (pages/admin/InvalidStudentReclaim.jsx) and  *)
(* the record of operations it links to (pages/admin/AuditLogs.jsx): leads *)
(* are taken back into the pool by school or as ticked, after a preview    *)
(* and a question, or deleted; and a batch taken back is rolled back.      *)
(***************************************************************************)
EXTENDS Console

CONSTANTS Given,       \* leads that were given up
          SchoolOf(_), \* the school of each
          Holders      \* the callers who hold them

\* The page opens with one lead that is given up and one that was.
ASSUME GivenAssumption == {1, 3} \subseteq Given

\* Why a lead was given up: one reason is for good.
Reasons == {"plain", "final"}

GivenUp(w) == {s \in Given : w.lead[s].status = "invalid"}

Params(v) == [reason |-> v.reason, q |-> v.q]

Matching(w, p) ==
  {s \in GivenUp(w) : p.reason \in {"any", w.lead[s].why} /\ p.q \in {"any", SchoolOf(s)}}

\* GET /admin/invalid-school-groups and /admin/invalid-students
Groups(w, p) == {SchoolOf(s) : s \in Matching(w, p)}
RowsOf(w, of) == [s \in {t \in Matching(w, of.params) : SchoolOf(t) = of.school} |-> w.lead[s].why]

SendGiven(v, kind, of) == [v EXCEPT !.reqs = Ask(@, kind, of)]

\* Loads remember the filters of their click, and whether they end an action.
FetchSchoolGroups(v, p, ends) == SendGiven([v EXCEPT !.loading = TRUE], "groups", [params |-> p, ends |-> ends])

FetchSchoolStudents(v, g, p, ends) ==
  SendGiven([v EXCEPT !.listing = TRUE], "rows", [school |-> g, params |-> p, ends |-> ends])

NoRows == [s \in {} |-> "plain"]
Folded(v) == [v EXCEPT !.unfolded = None, !.rows = NoRows, !.picked = {}]

\* What a click is about, before there is a preview of it; the search is not
\* part of it.
About(v, what, g, ids) ==
  [what |-> what, school |-> g, ids |-> ids, reason |-> v.reason, unfolded |-> v.unfolded,
   params |-> Params(v), token |-> None]

\* Leads deleted meanwhile are passed over.
Named(w, of) ==
  IF of.what = "school"
  THEN {s \in GivenUp(w) : SchoolOf(s) = of.school /\ of.reason \in {"any", w.lead[s].why}}
  ELSE {s \in of.ids : w.lead[s].status # "gone"}

Token(w, of) == [s \in Named(w, of) |-> w.lead[s]]

\* Two leads are given up; a third was taken back, and perhaps given out and
\* worked since.  The page has loaded, or has a school unfolded with its leads
\* ticked, and the question about them asked, or is the record of operations
\* with that batch previewed.
ReclaimOpens ==
  \E a \in Holders, why \in Reasons, third \in {"pool", "worked"}, off \in {{}, Holders} :
    /\ world = [lead |-> [s \in Given |->
                  [status |-> IF s = 3 THEN third ELSE "invalid", why |-> IF s = 2 THEN why ELSE "plain",
                   owner |-> IF s = 1 \/ (third = "worked" /\ s = 3) THEN a ELSE None, at |-> 0]],
                batches |-> <<[s \in {3} |-> [status |-> "invalid", why |-> "plain", owner |-> a, at |-> 0]]>>,
                off |-> off]
    /\ LET opened == [at |-> "reclaim", reason |-> "any", q |-> "any", loading |-> FALSE,
                      groups |-> Groups(world, [reason |-> "any", q |-> "any"]), unfolded |-> None,
                      rows |-> NoRows, listing |-> FALSE, picked |-> {}, school |-> None, action |-> "none",
                      asking |-> None, logs |-> {}, reading |-> FALSE, plan |-> None, rolling |-> FALSE,
                      reqs |-> {}]
       IN  \/ view = opened
           \/ LET ticked == [opened EXCEPT !.unfolded = SchoolOf(1), !.picked = {1},
                            !.rows = RowsOf(world, [school |-> SchoolOf(1), params |-> Params(opened)])]
                  about == About(ticked, "batch", None, {1})
              IN  \/ view = ticked
                  \/ view = [ticked EXCEPT !.asking = [about EXCEPT !.token = Token(world, about)]]
           \/ view = [opened EXCEPT !.at = "audit", !.logs = {1},
                        !.plan = [batch |-> 1, able |-> IF third = "pool" THEN {3} ELSE {}]]

----------------------------------------------------------------------------
(* Filters, schools and ticks.                                             *)

AtReclaim == view.at = "reclaim" /\ view.asking = None

\* Another filter folds what is unfolded and loads the schools.
Filtered(v) == FetchSchoolGroups(Folded(v), Params(v), FALSE)

SetInvalidReason(r) == Click /\ AtReclaim /\ r # view.reason /\ view' = Filtered([view EXCEPT !.reason = r])

\* A search typed and started, or cleared.
ApplySearch(q) == Click /\ AtReclaim /\ q # view.q /\ view' = Filtered([view EXCEPT !.q = q])

RefreshGroups == Click /\ AtReclaim /\ view' = FetchSchoolGroups(view, Params(view), FALSE)

GroupsTaken(r) == r.kind = "groups" /\ Answered(r, Groups(world, r.of.params)) /\ UNCHANGED world

\* The load that ends an action frees its buttons.
Freed(v, ends) == IF ends THEN [v EXCEPT !.action = "none"] ELSE v

GroupsShown(r) ==
  /\ Came(r, "groups")
  /\ view' = Freed([Without(view, r) EXCEPT !.groups = r.answer[1], !.loading = FALSE], r.of.ends)

GroupsFail(r) ==
  Failed(r, "groups") /\ view' = Freed([Without(view, r) EXCEPT !.loading = FALSE], r.of.ends)

GroupShown(g) == AtReclaim /\ ~view.loading /\ g \in view.groups

\* The rows of the school before stay until the new ones come.
ToggleSchool(g) ==
  /\ Click /\ GroupShown(g)
  /\ view' = IF view.unfolded = g THEN Folded(view)
             ELSE FetchSchoolStudents([view EXCEPT !.unfolded = g], g, Params(view), FALSE)

GivenTaken(r) == r.kind = "rows" /\ Answered(r, RowsOf(world, r.of)) /\ UNCHANGED world

\* The load of the rows that ends an action is followed by one of the schools.
AfterRows(v, of) == IF of.ends THEN FetchSchoolGroups(v, of.params, TRUE) ELSE v

\* Every answer is shown, and takes the ticks away.
RowsPut(v, rows) == [v EXCEPT !.rows = rows, !.picked = {}, !.listing = FALSE]

GivenShown(r) ==
  Came(r, "rows") /\ view' = AfterRows(RowsPut(Without(view, r), r.answer[1]), r.of)

GivenFail(r) ==
  Failed(r, "rows") /\ view' = AfterRows([Without(view, r) EXCEPT !.listing = FALSE], r.of)

\* A lead given up for good can be neither ticked nor taken back.
Reclaimable == {s \in DOMAIN view.rows : view.rows[s] = "plain"}
RowsOpen == GroupShown(view.unfolded) /\ ~view.listing /\ view.rows # NoRows

ToggleStudent(s) == Click /\ RowsOpen /\ s \in Reclaimable /\ view' = [view EXCEPT !.picked = Flip(@, s)]

ToggleStudents ==
  /\ Click /\ RowsOpen /\ Reclaimable # {}
  /\ view' = [view EXCEPT !.picked = IF Reclaimable \subseteq @ THEN {} ELSE Reclaimable]

----------------------------------------------------------------------------
(* Preview, question, action.                                              *)

HandleReclaimSchool(g) ==
  /\ Click /\ GroupShown(g) /\ view.reason # "final" /\ view.school # g
  /\ ~(view.unfolded = g /\ view.rows # NoRows /\ Reclaimable = {})
  /\ view' = SendGiven(view, "preview", About(view, "school", g, {}))

HandleBatchReclaim ==
  /\ Click /\ RowsOpen /\ view.picked # {} /\ view.action = "none"
  /\ view' = SendGiven(view, "preview", About(view, "batch", None, view.picked))

\* Deleting asks without a preview.
HandleBatchDelete ==
  /\ Click /\ RowsOpen /\ view.picked # {} /\ view.action = "none"
  /\ view' = [view EXCEPT !.asking = About(view, "delete", None, view.picked)]

Previewable(w, of) ==
  Named(w, of) # {} /\ \A s \in Named(w, of) : w.lead[s].status = "invalid" /\ w.lead[s].why = "plain"

PreviewsTaken(r) ==
  /\ r.kind = "preview" /\ UNCHANGED world
  /\ Answered(r, IF Previewable(world, r.of) THEN Token(world, r.of) ELSE None)

\* The question comes when the preview does, over whatever is open, in the
\* place of another one.
PreviewAsks(r) ==
  /\ Came(r, "preview") /\ r.answer # <<None>>
  /\ view' = [Without(view, r) EXCEPT !.asking = [r.of EXCEPT !.token = r.answer[1]]]

PreviewRefused(r) == Failed(r, "preview") /\ view' = Without(view, r)

\* The preview of a roll-back lies over the question.
Asked == view.asking # None /\ view.plan = None

ConfirmReclaim ==
  /\ Click /\ Asked
  /\ LET of == view.asking
         v == SendGiven([view EXCEPT !.asking = None], "reclaim", of)
     IN  view' = CASE of.what = "school" -> [v EXCEPT !.school = of.school]
                   [] OTHER -> [v EXCEPT !.action = of.what]

CancelReclaim == Click /\ Asked /\ view' = [view EXCEPT !.asking = None]

\* Nothing is taken from who is leaving, nor given to them.
Moves(w, to) ==
  \A s \in DOMAIN to : to[s] # w.lead[s].owner => {to[s], w.lead[s].owner} \cap w.off = {}

Touched(w, lead) ==
  [w EXCEPT !.lead = [s \in Given |-> IF s \in DOMAIN lead THEN [lead[s] EXCEPT !.at = w.lead[s].at + 1] ELSE @[s]]]

InPool == [status |-> "pool", why |-> "plain", owner |-> None, at |-> 0]

Nobody(set) == [s \in set |-> None]

\* Mutant: the preview is not compared.
UnchangedNot(w, of) == TRUE

\* The leads are those of the preview, in the state they were in.
UnchangedSince(w, of) == of.token = Token(w, of)

TakenBack(w, set) ==
  [Touched(w, [s \in set |-> InPool]) EXCEPT !.batches = Append(@, [s \in set |-> w.lead[s]])]

Deleted == [InPool EXCEPT !.status = "gone"]

\* POST /admin/invalid-students/reclaim, /reclaim-by-school and /invalid-students/delete
ReclaimTaken(r) ==
  /\ r.kind = "reclaim"
  /\ LET named == Named(world, r.of)
     IN  IF r.of.what # "delete"
         THEN IF Previewable(world, r.of) /\ UnchangedSince(world, r.of) /\ Moves(world, Nobody(named))
              THEN Answered(r, "ok") /\ world' = TakenBack(world, named)
              ELSE Answered(r, "refused") /\ UNCHANGED world
         ELSE IF named # {} /\ named \subseteq GivenUp(world)
              THEN Answered(r, "ok") /\ world' = Touched(world, [s \in named |-> Deleted])
              ELSE Answered(r, "refused") /\ UNCHANGED world

\* A school taken back is folded; else the school unfolded at the click is
\* loaded again, then the schools.
ReclaimDone(r) ==
  /\ Came(r, "reclaim") /\ r.answer = <<"ok">>
  /\ LET v == Without(view, r)
     IN  view' = IF r.of.what = "school"
                 THEN FetchSchoolGroups([Folded(v) EXCEPT !.school = None], r.of.params, FALSE)
                 ELSE FetchSchoolStudents([v EXCEPT !.picked = {}], r.of.unfolded, r.of.params, TRUE)

ReclaimFails(r) ==
  /\ Failed(r, "reclaim")
  /\ view' = IF r.of.what = "school" THEN [Without(view, r) EXCEPT !.school = None]
             ELSE [Without(view, r) EXCEPT !.action = "none"]

----------------------------------------------------------------------------
(* The record of operations.  Handlers of the page left go on: their       *)
(* questions are asked here.                                               *)

FetchLogs(v) == SendGiven([v EXCEPT !.reading = TRUE], "logs", None)

GoToAudit == Click /\ AtReclaim /\ view' = FetchLogs([view EXCEPT !.at = "audit", !.logs = {}])

AtAudit == view.at = "audit" /\ view.asking = None /\ view.plan = None

RunSearch == Click /\ AtAudit /\ view' = FetchLogs(view)

LogsTaken(r) == r.kind = "logs" /\ Answered(r, DOMAIN world.batches) /\ UNCHANGED world

LogsShown(r) ==
  Came(r, "logs") /\ view' = [Without(view, r) EXCEPT !.logs = r.answer[1], !.reading = FALSE]

LogsFail(r) == Failed(r, "logs") /\ view' = [Without(view, r) EXCEPT !.reading = FALSE]

\* Mutant: a lead that somebody holds is put back as well.
RestorableHeld(w, b) == {s \in DOMAIN w.batches[b] : w.lead[s].status = "pool"}

\* A lead is put back when it is still as it was taken back.
Restorable(w, b) ==
  {s \in DOMAIN w.batches[b] : w.lead[s].status = "pool" /\ w.lead[s].owner = None}

OpenReclaimRollbackPreview(b) ==
  /\ Click /\ AtAudit /\ ~view.reading /\ b \in view.logs
  /\ view' = SendGiven([view EXCEPT !.rolling = TRUE], "plan", b)

PlanTaken(r) == r.kind = "plan" /\ Answered(r, Restorable(world, r.of)) /\ UNCHANGED world

\* The plan that comes last is the one shown.
PlanShown(r) ==
  /\ Came(r, "plan")
  /\ view' = [Without(view, r) EXCEPT !.plan = [batch |-> r.of, able |-> r.answer[1]], !.rolling = FALSE]

CloseRollback == Click /\ view.plan # None /\ view' = [view EXCEPT !.plan = None]

ConfirmRollback ==
  /\ Click /\ view.plan # None /\ ~view.rolling /\ view.plan.able # {}
  /\ view' = SendGiven([view EXCEPT !.rolling = TRUE], "rollback", view.plan.batch)

\* POST /admin/reclaim-rollbacks/<batch>: what can be put back by now, all of it
\* or, when one of the holders is leaving, nothing.
RollbackTaken(r) ==
  /\ r.kind = "rollback"
  /\ LET able == Restorable(world, r.of)
         before == [s \in able |-> world.batches[r.of][s]]
     IN  IF Moves(world, [s \in able |-> before[s].owner])
         THEN Answered(r, "ok") /\ world' = Touched(world, before)
         ELSE Answered(r, "refused") /\ UNCHANGED world

RollbackDone(r) ==
  /\ Came(r, "rollback") /\ r.answer = <<"ok">>
  /\ view' = FetchLogs([Without(view, r) EXCEPT !.plan = None, !.rolling = FALSE])

RollbackFails(r) ==
  (Failed(r, "plan") \/ Failed(r, "rollback")) /\ view' = [Without(view, r) EXCEPT !.rolling = FALSE]

----------------------------------------------------------------------------
\* A lead of the pool is given out, and is given up again.
OthersGiveOut(s, a) ==
  /\ Elsewhere /\ world.lead[s].status = "pool" /\ world.lead[s].owner = None /\ a \notin world.off
  /\ world' = [world EXCEPT !.lead[s].owner = a, !.lead[s].at = @ + 1] /\ UNCHANGED view

OthersGiveUp(s, why) ==
  /\ Elsewhere /\ world.lead[s].status \in {"pool", "worked"}
  /\ world' = [world EXCEPT !.lead[s].status = "invalid", !.lead[s].why = why, !.lead[s].at = @ + 1]
  /\ UNCHANGED view

OthersReclaim(s) ==
  /\ Elsewhere /\ s \in GivenUp(world) /\ world.lead[s].why = "plain" /\ Moves(world, Nobody({s}))
  /\ world' = TakenBack(world, {s}) /\ UNCHANGED view

ReclaimNext ==
  \/ \E w \in Reasons \cup {"any"} : SetInvalidReason(w)
  \/ \E g \in {SchoolOf(s) : s \in Given} : ToggleSchool(g) \/ HandleReclaimSchool(g)
  \/ \E g \in {SchoolOf(s) : s \in Given} \cup {"any"} : ApplySearch(g)
  \/ \E s \in Given :
       \/ ToggleStudent(s) \/ OthersReclaim(s)
       \/ \E a \in Holders : OthersGiveOut(s, a)
       \/ \E w \in Reasons : OthersGiveUp(s, w)
  \/ \E b \in view.logs : OpenReclaimRollbackPreview(b)
  \/ RefreshGroups \/ ToggleStudents \/ HandleBatchReclaim \/ HandleBatchDelete \/ ConfirmReclaim
  \/ CancelReclaim \/ GoToAudit \/ RunSearch \/ CloseRollback \/ ConfirmRollback
  \/ \E r \in view.reqs :
       \/ GroupsTaken(r) \/ GroupsShown(r) \/ GroupsFail(r) \/ GivenTaken(r) \/ GivenShown(r) \/ GivenFail(r)
       \/ PreviewsTaken(r) \/ PreviewAsks(r) \/ PreviewRefused(r)
       \/ ReclaimTaken(r) \/ ReclaimDone(r) \/ ReclaimFails(r)
       \/ LogsTaken(r) \/ LogsShown(r) \/ LogsFail(r)
       \/ PlanTaken(r) \/ PlanShown(r) \/ RollbackTaken(r) \/ RollbackDone(r) \/ RollbackFails(r)

=============================================================================
