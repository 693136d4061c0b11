---------------------------- MODULE AdminConsole ----------------------------
(***************************************************************************)
(* A tab of the administrators' console: one of the desks, with what the   *)
(* service holds of its business, and the properties of the desks.         *)
(***************************************************************************)
EXTENDS HandoverDesk, AgentsDesk, LeadsDesk, SettlementDesk, ReclaimDesk, VisitsDesk

consoleVars == <<page, world, view, clicks, elsewhere>>

Init ==
  /\ clicks = 0 /\ elsewhere = 0
  /\ \/ page = "handover" /\ HandoverOpens
     \/ page = "agents" /\ AgentsOpens
     \/ page = "leads" /\ LeadsOpens
     \/ page = "settlement" /\ SettlementOpens
     \/ page = "reclaim" /\ ReclaimOpens
     \/ page = "visits" /\ VisitsOpens

Next ==
  \/ page = "handover" /\ HandoverNext
  \/ page = "agents" /\ AgentsNext
  \/ page = "leads" /\ LeadsNext
  \/ page = "settlement" /\ SettlementNext
  \/ page = "reclaim" /\ ReclaimNext
  \/ page = "visits" /\ VisitsNext

Spec == Init /\ [][Next]_consoleVars

\* A transfer moves exactly the students its preview counted, whoever else
\* transfers meanwhile and however often it is tried (expected_version).
MovesWhatWasCounted ==
  [][page = "handover" => \A t \in world'.transfers \ world.transfers : t.moved = view.dialog.counted]_consoleVars

\* An employee is suspended or resumed only as the administrator saw the
\* account when deciding: not when others changed it while the question was
\* asked, though the list may know by then (expected_version).
SuspendsWhatWasSeen ==
  [][page = "agents" => \A r \in view.reqs :
       r.kind = "toggle" /\ r.answer = <<>> /\ (\E q \in view'.reqs : q = [r EXCEPT !.answer = <<"ok">>])
         => world.acc[r.of.agent].version = r.of.seen]_consoleVars

\* Starting a handover again after no answer came never fails for having been
\* done already: it leads to the batch (startHandoverRequestRef).  The page has
\* lost track of the employees in blurred: a start was cut short by a proxy, or
\* two starts of one employee were under way at a time.
StartAgainFindsBatch ==
  [][page = "agents" => \A r \in view.reqs :
       r.kind = "start" /\ (\E q \in view'.reqs : q = [r EXCEPT !.answer = <<"conflict">>])
         => r.of.agent \in view.blurred \/ \A t \in world.started : t.agent # r.of.agent]_consoleVars

\* Leads change hands by this tab only as the question it asked said: not by
\* what is ticked when it is answered (handleAssign).
AssignsWhatWasNamed ==
  [][page = "leads" => \A r \in view'.reqs \ view.reqs :
       r.kind = "change" /\ r.of.what = "assign" /\ r.answer = <<>> => r.of = view.asking]_consoleVars

\* What a settled record was paid stays, as long as it is settled: the forms of
\* this and of other tabs hold older amounts and send them with every save
\* (admissions_enrollments.py:318).
SettledStaysPaid ==
  [][page = "settlement" => \A s \in Enrolling :
       LET now == world.record[s]
           then == world'.record[s]
       IN  now # None /\ now.status = "settled" /\ then.status = "settled" /\ now.paid # "nothing"
             => then.paid = now.paid]_consoleVars

\* What is taken back are the leads of the preview, all of them and no others,
\* as they were when it was shown (reclaim_preview_token).
TakesWhatWasPreviewed ==
  [][page = "reclaim" => \A r \in view.reqs :
       r.kind = "reclaim" /\ r.of.what # "delete" /\ r.answer = <<>>
         /\ (\E q \in view'.reqs : q = [r EXCEPT !.answer = <<"ok">>])
         => r.of.token = [s \in {t \in Given : world'.lead[t] # world.lead[t]} |-> world.lead[s]]]_consoleVars

\* No lead leaves the caller who works on it: neither when it is taken back or
\* deleted, nor when a batch of the past is rolled back (_rollback_skip_reason).
WorkStaysWithHolder ==
  [][page = "reclaim" => \A s \in Given :
       world.lead[s].owner # None /\ world'.lead[s].owner # world.lead[s].owner
         => world.lead[s].status = "invalid"]_consoleVars

\* A record is made once: neither a form of a visit that says enrolled, nor
\* registering again after a lost answer, replaces the record there is, with
\* what it says was paid (_create_enrollment_record, allow_existing).
FirstRecordStands ==
  [][page = "visits" /\ world.record # None => world'.record = world.record]_consoleVars

\* Who gets the students is the employee the dialog names when the administrator
\* confirms (TransferPreviewDialog's targetAgent).  The code breaks this: the
\* request keeps the employee of the click on the preview, the dialog names the
\* one chosen on the page by now, and that choice stays open meanwhile.
NamedTargetGets ==
  [][page = "handover" /\ view.sending = None /\ view'.sending # None => view.dialog.request.target = Target]_consoleVars
=============================================================================
