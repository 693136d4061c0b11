---------------------------- MODULE SettlementDesk ----------------------------
(***************************************************************************)
(* The desk of enrollments (pages/admin/EnrollmentSettlement.jsx with      *)
(* PendingEnrollmentReports.jsx): what the callers report is confirmed or  *)
(* refused, and each record is settled and attributed through a form of    *)
(* its own, which is filled once and then kept whatever is loaded.         *)
(***************************************************************************)
EXTENDS Console

CONSTANTS Enrolling,  \* students who enroll
          Sellers     \* the employees a record may be attributed to

Fresh(a) == [status |-> "unsettled", paid |-> "nothing", agent |-> a]
Paid == {"nothing", "part", "due"}

HasRecord(w, s) == w.record[s] # None
Records(w) == [s \in {t \in Enrolling : HasRecord(w, t)} |-> w.record[s]]
PendingReports(w) == {s \in Enrolling : w.report[s] = "pending"}

SendBill(v, kind, of) == [v EXCEPT !.reqs = Ask(@, kind, of)]

\* A load of the records; it may end a save.
Load(v, ends) == SendBill([v EXCEPT !.loading = TRUE], "records", ends)

\* A form is filled when its record is first seen.
Filled(form, row) ==
  IF form # None THEN form
  ELSE [status |-> row.status, paid |-> row.paid, reason |-> FALSE, agent |-> row.agent, why |-> FALSE]

Forms(forms, rows) ==
  [s \in Enrolling |-> IF s \in DOMAIN rows THEN Filled(forms[s], rows[s]) ELSE forms[s]]

\* Some students have reported, some are enrolled; the page has loaded.
SettlementOpens ==
  /\ \E a \in Sellers : \E got \in [Enrolling -> {"record", "pending"}] :
       world = [record |-> [s \in Enrolling |-> IF got[s] = "record" THEN Fresh(a) ELSE None],
                report |-> [s \in Enrolling |-> IF got[s] = "record" THEN "none" ELSE "pending"]]
  /\ view = [rows |-> Records(world), forms |-> Forms([s \in Enrolling |-> None], Records(world)),
             loading |-> FALSE, filter |-> "all", saving |-> None, batching |-> FALSE,
             reports |-> PendingReports(world), confirming |-> None, rejecting |-> None,
             submitting |-> FALSE, reqs |-> {}]

----------------------------------------------------------------------------
(* The records.                                                            *)

AtBills == view.confirming = None

RowsShown ==
  IF view.loading THEN {}
  ELSE {s \in DOMAIN view.rows : view.filter \in {"all", view.rows[s].status}}

FilterBills(f) == Click /\ AtBills /\ f # view.filter /\ view' = [view EXCEPT !.filter = f]

RefreshBills == Click /\ AtBills /\ ~view.loading /\ view' = Load(view, FALSE)

Typed(s, form) == view' = [view EXCEPT !.forms[s] = form]

TypeStatus(s, to) ==
  Click /\ AtBills /\ s \in RowsShown /\ to # view.forms[s].status /\ Typed(s, [view.forms[s] EXCEPT !.status = to])

\* An amount, with the reason for it; the reason stays in the form.
TypePaid(s, sum) ==
  /\ Click /\ AtBills /\ s \in RowsShown /\ sum # view.forms[s].paid
  /\ Typed(s, [view.forms[s] EXCEPT !.paid = sum, !.reason = TRUE])

\* The agent the service recommends, with the reason for it.
ApplyRecommendation(s, a) ==
  /\ Click /\ AtBills /\ s \in RowsShown /\ a # view.rows[s].agent
  /\ Typed(s, [view.forms[s] EXCEPT !.agent = a, !.why = TRUE])

\* The status always goes; amounts and the agent when they differ from the row.
SaveSettlement(s) ==
  /\ Click /\ AtBills /\ s \in RowsShown /\ view.saving # s
  /\ LET form == view.forms[s]
         row == view.rows[s]
     IN  view' = SendBill([view EXCEPT !.saving = s], "save",
                   [of |-> s, status |-> form.status, reason |-> form.reason, why |-> form.why,
                    paid |-> IF form.paid # row.paid THEN form.paid ELSE None,
                    agent |-> IF form.agent # row.agent THEN form.agent ELSE None])

RecordsTaken(r) == r.kind = "records" /\ Answered(r, Records(world)) /\ UNCHANGED world

Saved(v, r) == IF r.of THEN [v EXCEPT !.saving = None] ELSE v

\* Whichever record is being saved by then.
RecordsShown(r) ==
  /\ Came(r, "records")
  /\ view' = Saved([Without(view, r) EXCEPT !.rows = r.answer[1], !.forms = Forms(@, r.answer[1]),
                                            !.loading = FALSE], r)

RecordsFail(r) ==
  Failed(r, "records") /\ view' = Saved([Without(view, r) EXCEPT !.loading = FALSE], r)

\* Mutant: the amounts of a settled record are like others.
AmountsOpenAlways(rec) == TRUE

AmountsOpen(rec) == rec.status # "settled"

\* Settling pays what is due, unless an amount was given or paid before.
Settle(rec, q) ==
  LET given == IF q.paid = None THEN rec ELSE [rec EXCEPT !.paid = q.paid]
      placed == IF q.agent = None THEN given ELSE [given EXCEPT !.agent = q.agent]
      put == [placed EXCEPT !.status = q.status]
  IN  IF q.status = "settled" /\ q.paid = None /\ put.paid = "nothing" THEN [put EXCEPT !.paid = "due"] ELSE put

\* PATCH /admissions/enrollments/<id>
BillTaken(r) ==
  /\ r.kind = "save"
  /\ LET rec == world.record[r.of.of]
     IN  IF \/ r.of.paid # None /\ ~(AmountsOpen(rec) /\ r.of.reason)
            \/ r.of.agent # None /\ ~r.of.why
         THEN Answered(r, "refused") /\ UNCHANGED world
         ELSE Answered(r, "ok") /\ world' = [world EXCEPT !.record[r.of.of] = Settle(rec, r.of)]

BillSaved(r) == Came(r, "save") /\ r.answer = <<"ok">> /\ view' = Load(Without(view, r), TRUE)

BillRefused(r) == Failed(r, "save") /\ view' = [Without(view, r) EXCEPT !.saving = None]

\* A file of the records as the service has them.
GenerateSettlementBatch ==
  Click /\ AtBills /\ ~view.batching /\ view' = SendBill([view EXCEPT !.batching = TRUE], "file", None)

FileDone(r) == Failed(r, "file") /\ view' = [Without(view, r) EXCEPT !.batching = FALSE]

----------------------------------------------------------------------------
(* The reports of the callers.                                             *)

LoadReports(v, confirmed) == SendBill(v, "reports", confirmed)

StartConfirm(s) == Click /\ AtBills /\ s \in view.reports /\ view' = [view EXCEPT !.confirming = s]

\* Also while it is on its way: only the buttons are off.
CloseConfirm == Click /\ ~AtBills /\ view.reports # {} /\ view' = [view EXCEPT !.confirming = None]

SubmitConfirm ==
  /\ Click /\ ~AtBills /\ view.reports # {} /\ ~view.submitting
  /\ view' = SendBill([view EXCEPT !.submitting = TRUE], "confirm", view.confirming)

StartReject(s) ==
  Click /\ AtBills /\ s \in view.reports /\ s # view.rejecting /\ view' = [view EXCEPT !.rejecting = s]

CancelReject ==
  Click /\ AtBills /\ view.rejecting \in view.reports /\ view' = [view EXCEPT !.rejecting = None]

SubmitReject ==
  /\ Click /\ AtBills /\ view.rejecting \in view.reports /\ ~view.submitting
  /\ view' = SendBill([view EXCEPT !.submitting = TRUE], "reject", view.rejecting)

\* A record, by any path, closes the report that waits.
Enrolled(w, s, a) ==
  [w EXCEPT !.record[s] = Fresh(a), !.report[s] = IF @ = "pending" THEN "confirmed" ELSE @]

\* A report that is no longer pending is refused, and so is a second record.
ConfirmTaken(r) ==
  /\ r.kind = "confirm"
  /\ IF world.report[r.of] # "pending" \/ HasRecord(world, r.of)
     THEN Answered(r, "refused") /\ UNCHANGED world
     ELSE Answered(r, "ok") /\ \E a \in Sellers : world' = Enrolled(world, r.of, a)

RejectTaken(r) ==
  /\ r.kind = "reject"
  /\ IF world.report[r.of] # "pending" THEN Answered(r, "refused") /\ UNCHANGED world
     ELSE Answered(r, "ok") /\ world' = [world EXCEPT !.report[r.of] = "rejected"]

\* The dialog closes, whose ever it is by now.
ConfirmDone(r) ==
  /\ Came(r, "confirm") /\ r.answer = <<"ok">>
  /\ view' = LoadReports([Without(view, r) EXCEPT !.confirming = None], TRUE)

RejectDone(r) ==
  /\ Came(r, "reject") /\ r.answer = <<"ok">>
  /\ view' = LoadReports([Without(view, r) EXCEPT !.rejecting = None], FALSE)

AnswerLost(r) ==
  /\ Failed(r, "confirm") \/ Failed(r, "reject")
  /\ view' = [Without(view, r) EXCEPT !.submitting = FALSE]

ReportsTaken(r) == r.kind = "reports" /\ Answered(r, PendingReports(world)) /\ UNCHANGED world

\* After a confirmation the records follow, also when the reports did not come.
Followed(v, r) ==
  LET done == [v EXCEPT !.submitting = FALSE]
  IN  IF r.of THEN Load(done, FALSE) ELSE done

ReportsShown(r) ==
  Came(r, "reports") /\ view' = Followed([Without(view, r) EXCEPT !.reports = r.answer[1]], r)

ReportsFail(r) == Failed(r, "reports") /\ view' = Followed(Without(view, r), r)

----------------------------------------------------------------------------
\* A caller reports an enrollment, which is refused once there is a record.
OthersReport(s) ==
  /\ Elsewhere /\ ~HasRecord(world, s) /\ world.report[s] # "pending"
  /\ world' = [world EXCEPT !.report[s] = "pending"] /\ UNCHANGED view

OthersRegister(s, a) ==
  Elsewhere /\ ~HasRecord(world, s) /\ world' = Enrolled(world, s, a) /\ UNCHANGED view

OthersSettle(s) ==
  /\ Elsewhere /\ HasRecord(world, s) /\ AmountsOpen(world.record[s])
  /\ world' = [world EXCEPT !.record[s].status = "settled", !.record[s].paid = IF @ = "nothing" THEN "due" ELSE @]
  /\ UNCHANGED view

SettlementNext ==
  \/ \E f \in {"all", "settled", "unsettled"} : FilterBills(f)
  \/ \E s \in Enrolling :
       \/ SaveSettlement(s) \/ StartConfirm(s) \/ StartReject(s) \/ OthersReport(s) \/ OthersSettle(s)
       \/ \E to \in {"settled", "unsettled"} : TypeStatus(s, to)
       \/ \E sum \in Paid : TypePaid(s, sum)
       \/ \E a \in Sellers : ApplyRecommendation(s, a) \/ OthersRegister(s, a)
  \/ RefreshBills \/ GenerateSettlementBatch \/ CloseConfirm \/ SubmitConfirm \/ CancelReject \/ SubmitReject
  \/ \E r \in view.reqs :
       \/ RecordsTaken(r) \/ RecordsShown(r) \/ RecordsFail(r)
       \/ BillTaken(r) \/ BillSaved(r) \/ BillRefused(r) \/ FileDone(r)
       \/ ConfirmTaken(r) \/ RejectTaken(r) \/ ConfirmDone(r) \/ RejectDone(r) \/ AnswerLost(r)
       \/ ReportsTaken(r) \/ ReportsShown(r) \/ ReportsFail(r)

=============================================================================
