------------------------------- MODULE VisitsDesk -------------------------------
(***************************************************************************)
(* The desks of visits (pages/admin/HomeVisitManage.jsx and                *)
(* CampusVisitManage.jsx): two pages of one shape.  Each visit has a form  *)
(* for its result and one for an enrollment, filled when the visit is      *)
(* first seen and kept whatever is loaded; a home visit also leads to a    *)
(* visit of the campus.                                                    *)
(***************************************************************************)
EXTENDS Console

CONSTANT Visits  \* the visits of one student

VisitKinds == {"home", "campus"}

\* Only a visit of the campus has a status that says enrolled.
VisitStatuses(kind) == {"open", "done"} \cup (IF kind = "campus" THEN {"enrolled"} ELSE {})
VisitResults == {"none", "considering", "enrolled"}

\* GET /admissions/home-visits and /campus-visits; a row says whether the record
\* came of this visit.
VisitRows(w) ==
  [v \in Visits |-> w.visit[v] @@ [registered |-> w.record # None /\ w.record.of = v]]

SendVisit(v, kind, of) == [v EXCEPT !.reqs = Ask(@, kind, of)]

\* A load; it may end an action.
LoadVisits(v, ends) == SendVisit([v EXCEPT !.loading = TRUE], "visits", ends)

NewForm(row) == [status |-> row.status, result |-> row.result, sum |-> "blank"]

\* The forms of visits seen before stay.
FormsOf(forms, rows) == [v \in Visits |-> IF forms[v] = None THEN NewForm(rows[v]) ELSE forms[v]]

\* One visit is over, the others are open; the page has loaded, or loads.
VisitsOpens ==
  \E kind \in VisitKinds, over \in Visits, loaded \in BOOLEAN :
    /\ world = [visit |-> [v \in Visits |-> [status |-> IF v = over THEN "done" ELSE "open", result |-> "none"]],
                record |-> None, booked |-> FALSE]
    /\ LET unseen == [v \in Visits |-> None]
           blank == [kind |-> kind, rows |-> unseen, forms |-> unseen, loading |-> FALSE, filter |-> "all",
                     saving |-> None, reqs |-> {}]
       IN  view = IF loaded THEN [blank EXCEPT !.rows = VisitRows(world), !.forms = FormsOf(unseen, VisitRows(world))]
                  ELSE LoadVisits(blank, FALSE)

VisitsShown ==
  IF view.loading THEN {}
  ELSE {v \in Visits : view.rows[v] # None /\ view.filter \in {"all", view.rows[v].status}}

FilterVisits(f) == Click /\ f # view.filter /\ view' = [view EXCEPT !.filter = f]

RefreshVisits == Click /\ ~view.loading /\ view' = LoadVisits(view, FALSE)

UpdateResultForm(v, status, result) ==
  /\ Click /\ v \in VisitsShown
  /\ LET form == [view.forms[v] EXCEPT !.status = status, !.result = result]
     IN  form # view.forms[v] /\ view' = [view EXCEPT !.forms[v] = form]

UpdateEnrollmentForm(v) ==
  /\ Click /\ v \in VisitsShown /\ ~view.rows[v].registered
  /\ view' = [view EXCEPT !.forms[v].sum = "typed"]

\* One button is off while its request is under way: the one clicked last.
StartVisit(v, what, of) ==
  /\ Click /\ view.saving # <<what, v>>
  /\ view' = SendVisit([view EXCEPT !.saving = <<what, v>>], what, of @@ [visit |-> v])

\* The whole form goes; a result that is not filled in does not.
SaveVisit(v) ==
  v \in VisitsShown /\ StartVisit(v, "save", [status |-> view.forms[v].status, result |-> view.forms[v].result])

ScheduleCampusVisit(v) ==
  v \in VisitsShown /\ view.kind = "home" /\ StartVisit(v, "schedule", [from |-> "home"])

CreateEnrollment(v) ==
  v \in VisitsShown /\ ~view.rows[v].registered /\ StartVisit(v, "enroll", [sum |-> view.forms[v].sum])

VisitsTaken(r) == r.kind = "visits" /\ Answered(r, VisitRows(world)) /\ UNCHANGED world

VisitFreed(v, ends) == IF ends THEN [v EXCEPT !.saving = None] ELSE v

VisitsCome(r) ==
  /\ Came(r, "visits")
  /\ view' = VisitFreed([Without(view, r) EXCEPT !.rows = r.answer[1], !.forms = FormsOf(@, r.answer[1]),
                                                 !.loading = FALSE], r.of)

VisitsFail(r) == Failed(r, "visits") /\ view' = VisitFreed([Without(view, r) EXCEPT !.loading = FALSE], r.of)

\* Mutant: a visit that says enrolled makes a record of its own.
RecordedAgain(w, v) == [w EXCEPT !.record = [of |-> v, sum |-> "blank"]]

\* A visit that says enrolled makes a record, unless there is one.
Recorded(w, v) == IF w.record # None THEN w ELSE [w EXCEPT !.record = [of |-> v, sum |-> "blank"]]

\* PATCH /admissions/home-visits/<id> and /campus-visits/<id>
VisitPut(w, of) ==
  LET put == [w EXCEPT !.visit[of.visit] =
                [status |-> of.status, result |-> IF of.result = "none" THEN @.result ELSE of.result]]
      now == put.visit[of.visit]
  IN  IF "enrolled" \in {now.status, now.result} THEN Recorded(put, of.visit) ELSE put

VisitTaken(r) == r.kind = "save" /\ Answered(r, "ok") /\ world' = VisitPut(world, r.of)

\* Not while the student has a visit of the campus before them.
ScheduleTaken(r) ==
  /\ r.kind = "schedule" /\ Answered(r, IF world.booked THEN "refused" ELSE "ok")
  /\ world' = [world EXCEPT !.booked = TRUE]

\* A second record is refused.
EnrollTaken(r) ==
  /\ r.kind = "enroll" /\ Answered(r, IF world.record # None THEN "refused" ELSE "ok")
  /\ world' = IF world.record # None THEN world
              ELSE [world EXCEPT !.record = [of |-> r.of.visit, sum |-> r.of.sum]]

Acts == {"save", "schedule", "enroll"}

VisitSaved(r) ==
  (\E what \in Acts : Came(r, what)) /\ r.answer = <<"ok">> /\ view' = LoadVisits(Without(view, r), TRUE)

\* Whichever button was off by then.
VisitRefused(r) == (\E what \in Acts : Failed(r, what)) /\ view' = [Without(view, r) EXCEPT !.saving = None]

OthersFinish(v) ==
  /\ Elsewhere /\ world.visit[v].status = "open"
  /\ world' = [world EXCEPT !.visit[v].status = "done"] /\ UNCHANGED view

OthersRecord ==
  /\ Elsewhere /\ world.record = None
  /\ world' = [world EXCEPT !.record = [of |-> None, sum |-> "typed"]] /\ UNCHANGED view

VisitsNext ==
  \/ \E f \in {"all", "open", "done"} : FilterVisits(f)
  \/ \E v \in Visits :
       \/ \E s \in VisitStatuses(view.kind), t \in VisitResults : UpdateResultForm(v, s, t)
       \/ UpdateEnrollmentForm(v) \/ SaveVisit(v) \/ ScheduleCampusVisit(v) \/ CreateEnrollment(v) \/ OthersFinish(v)
  \/ RefreshVisits \/ OthersRecord
  \/ \E r \in view.reqs :
       \/ VisitsTaken(r) \/ VisitsCome(r) \/ VisitsFail(r) \/ VisitTaken(r) \/ ScheduleTaken(r)
       \/ EnrollTaken(r) \/ VisitSaved(r) \/ VisitRefused(r)

=============================================================================
