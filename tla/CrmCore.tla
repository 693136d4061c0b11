------------------------------- MODULE CrmCore -------------------------------
(***************************************************************************)
(* The CRM's domain state and the API handlers that change it, one action  *)
(* per handler, each a committed transaction: students and who follows     *)
(* them, the follow-up, visit and enrollment rows, the work items that     *)
(* mirror them, the employment of each user and the offboarding handover   *)
(* batches.  A handler that raises changes nothing, so its refusals are    *)
(* the guards here.  Guards that only ask for some permitted actor rest on *)
(* AnActiveAdminRemains: an administrator may do whatever an agent may.    *)
(***************************************************************************)
EXTENDS WorkItems, FiniteSets, Integers

ASSUME StudentsAssumption == IsFiniteSet(Student)

VARIABLES
  student,     \* Student -> StudentRow, the students table
  rows,        \* WorkKey -> Row, the source rows; lead and help keys have none
  items,       \* WorkKey -> Item, the work_items table
  employment,  \* User -> EmploymentStatus, the agent_employment table
  batch        \* User -> Batch, the handover batch of a leaving user

vars == <<student, rows, items, employment, batch>>

Batch == [status : {"none", "pending", "in_progress", "completed"},
          total : Nat, remaining : Nat, transferred : Nat,
          pending : SUBSET Student, moved : SUBSET Student]
NoBatch == [status |-> "none", total |-> 0, remaining |-> 0, transferred |-> 0,
            pending |-> {}, moved |-> {}]
Running(b) == b.status \in {"pending", "in_progress"}

\* The tables hold rows of their columns' types, whatever handlers ran.
TypeOK == /\ student \in [Student -> StudentRow]
          /\ rows \in [WorkKey -> Row]
          /\ items \in [WorkKey -> Item]
          /\ employment \in [User -> EmploymentStatus]
          /\ batch \in [User -> Batch]

Init == /\ student = [s \in Student |-> NoStudent]
        /\ rows = [k \in WorkKey |-> NoRow]
        /\ items = [k \in WorkKey |-> NoItem]
        /\ employment = [u \in User |-> "active"]
        /\ batch = [u \in User |-> NoBatch]

Keys(kinds) == {k \in WorkKey : KindOf[k] \in kinds}
Visits      == Keys(VisitKinds)
FollowUps   == Keys({"scheduled_follow_up"})
Settlements == Keys({"enrollment_settlement"})

Present(s) == student[s].status # "absent"
RowPresent(k) == rows[k].phase # "absent"
ActiveAdmins == {a \in Admin : employment[a] = "active"}
\* Mutant: counts suspended administrators too.
SpareAdminIfAnyLeft(u) == u \in Admin => Cardinality({a \in Admin : employment[a] # "offboarded"}) > 1
SpareAdmin(u) == u \in Admin => Cardinality(ActiveAdmins) > 1
WithStatus(s, status) == [student EXCEPT ![s].status = status]

\* A student given back to be followed anew (its progress is reset with it).
\* Mutant: forgets the help flag.
ResetKeepingHelp(st) == [st EXCEPT !.status = "following"]
Reset(st) == [st EXCEPT !.status = "following", !.help = FALSE]

\* The tail of every handler: sync_students_work_items of the students S, after the
\* handler left the students as st, the source rows as rws and the items as its.
\* Mutant: synchronises the students as they were read.
CommitStale(st, S, rws, its) ==
  /\ SyncAllowed(student, employment, S)
  /\ student' = st
  /\ rows' = CloseRows(rws, st, S)
  /\ items' = SyncStudents(its, student, employment, S)
  /\ UNCHANGED <<employment, batch>>
Commit(st, S, rws, its) ==
  /\ SyncAllowed(st, employment, S)
  /\ student' = st
  /\ rows' = CloseRows(rws, st, S)
  /\ items' = SyncStudents(its, st, employment, S)
  /\ UNCHANGED <<employment, batch>>

\* sync_source_work_item of row k, then the tail.
\* Mutant: the source row synchronised after the students.
CommitRowLast(st, k, rws, its, creator) ==
  /\ SourceAllowed(its, rws, k, st, employment, creator)
  /\ student' = st
  /\ rows' = CloseRows(rws, st, {StudentOf[k]})
  /\ items' = SyncSource(SyncStudents(its, st, employment, {StudentOf[k]}),
                         rws, k, st, employment, creator)
  /\ UNCHANGED <<employment, batch>>
CommitRow(st, k, rws, its, creator) ==
  /\ SourceAllowed(its, rws, k, st, employment, creator)
  /\ Commit(st, {StudentOf[k]}, rws, SyncSource(its, rws, k, st, employment, creator))

(* assignment_service.apply_assignment_changes: t maps students to targets. *)
Changed(t) == {s \in DOMAIN t : student[s].agent # t[s]}
Owning(st, t) ==
  [s \in Student |-> IF s \in DOMAIN t THEN [st[s] EXCEPT !.agent = t[s]] ELSE st[s]]
TargetsActive(t) ==
  \A s \in DOMAIN t : t[s] # None => t[s] \in Agent /\ employment[t[s]] = "active"
\* Mutant: no handover guard.
AnyOwner(t) == TRUE
NotInHandover(t) ==
  \A s \in Changed(t) : student[s].agent # None
                          => employment[student[s].agent] # "handover_pending"

\* Without a handover batch, on students already edited to st: only the students
\* whose owner changes are synchronised.
ApplyAssignment(st, t) ==
  LET S   == Changed(t)
      st2 == Owning(st, t)
      its == SyncStudents(items, st2, employment, S)
  IN /\ TargetsActive(t)
     /\ NotInHandover(t)
     /\ SyncAllowed(st2, employment, S)
     /\ FollowAllowed(its, st2, employment, S)
     /\ student' = st2
     /\ rows' = CloseRows(rows, st2, S)
     /\ items' = FollowAssignment(its, st2, employment, S)
     /\ UNCHANGED batch

-----------------------------------------------------------------------------
(* Students. *)
CreateStudent(s, status, help, a) ==
  LET st == [student EXCEPT ![s] = [status |-> status, agent |-> None, help |-> help]] IN
  /\ ~Present(s)
  /\ status \in {"following", "invalid"}
  /\ IF a = None THEN Commit(st, {s}, rows, items)
     ELSE ApplyAssignment(st, [x \in {s} |-> a]) /\ UNCHANGED employment

\* Mutant: an edit may enroll.
KeepsEnrollmentOnly(s, status) == student[s].status = "enrolled" => status = "enrolled"
KeepsEnrollment(s, status) == student[s].status = "enrolled" <=> status = "enrolled"

\* update_student: an edit neither enrolls nor undoes an enrollment.
UpdateStudent(s, status, help, a) ==
  LET st == [student EXCEPT ![s].status = status, ![s].help = help] IN
  /\ Present(s)
  /\ status # "absent"
  /\ KeepsEnrollment(s, status)
  /\ IF a = student[s].agent THEN Commit(st, {s}, rows, items)
     ELSE ApplyAssignment(st, [x \in {s} |-> a]) /\ UNCHANGED employment

ToggleHelp(s) ==
  /\ Present(s)
  /\ Commit([student EXCEPT ![s].help = ~@], {s}, rows, items)

InvalidateEnrollment(s) ==
  /\ student[s].status = "enrolled"
  /\ Commit(WithStatus(s, "invalid"), {s}, rows, items)

\* delete_students_cascade; the counters of a batch keep counting the student.
DeleteStudent(s) ==
  /\ Present(s)
  /\ student' = [student EXCEPT ![s] = NoStudent]
  /\ rows' = [k \in WorkKey |-> IF StudentOf[k] = s THEN NoRow ELSE rows[k]]
  /\ items' = [k \in WorkKey |-> IF StudentOf[k] = s THEN NoItem ELSE items[k]]
  /\ batch' = [u \in User |-> [batch[u] EXCEPT !.pending = @ \ {s}, !.moved = @ \ {s}]]
  /\ UNCHANGED employment

\* /students/assign: terminal students must be restored first.
AssignStudents(S, a) ==
  /\ S # {}
  /\ \A s \in S : Following(student[s])
  /\ ApplyAssignment(student, [s \in S |-> a])
  /\ UNCHANGED employment

\* /stale-reassign: recycle all, or give each a target (manual or by load).
StaleReassign(t) ==
  /\ DOMAIN t # {}
  /\ \A s \in DOMAIN t : Present(s)
  /\ (\A s \in DOMAIN t : t[s] = None) \/ (\A s \in DOMAIN t : t[s] # None)
  /\ ApplyAssignment(student, t)
  /\ UNCHANGED employment

\* invalid_lead_service._reclaim: to one agent or to the pool.
ReclaimInvalid(S, a) ==
  LET st == [s \in Student |->
               IF s \in S THEN Reset(student[s]) ELSE student[s]]
  IN /\ S # {}
     /\ \A s \in S : student[s].status = "invalid"
     /\ ApplyAssignment(st, [s \in S |-> a])
     /\ UNCHANGED employment

-----------------------------------------------------------------------------
(* Follow-ups and visits. *)
OpenCampusVisit(s) ==
  \E k \in Keys({"campus_visit"}) : StudentOf[k] = s /\ rows[k].phase = "planned"

\* Who the code records as creator: the administrator that files the task for an
\* unassigned student, or the creator of the home visit a campus visit comes from.
MayCreate(k, u) ==
  \/ u \in ActiveAdmins
  \/ /\ KindOf[k] = "campus_visit"
     /\ \E h \in Keys({"home_visit"}) : StudentOf[h] = StudentOf[k] /\ RowPresent(h)

CreateTask(k, u) ==
  LET rws == [rows EXCEPT ![k].phase = "planned"] IN
  /\ Present(StudentOf[k])
  /\ ~RowPresent(k)
  /\ KindOf[k] = "campus_visit" => ~OpenCampusVisit(StudentOf[k])
  /\ MayCreate(k, u)
  /\ CommitRow(student, k, rws, items, u)

UpdateFollowUp(k, phase) ==
  /\ RowPresent(k)
  /\ phase \in {"planned", "closed"}
  /\ CommitRow(student, k, [rows EXCEPT ![k].phase = phase], items, None)

DeleteFollowUp(k) ==
  /\ RowPresent(k)
  /\ Commit(student, {StudentOf[k]}, [rows EXCEPT ![k] = NoRow],
            [items EXCEPT ![k] = Cancel(@)])

\* An agent's edit of a visit of its student: dates and wording only.
RescheduleVisit(k) ==
  /\ rows[k].phase = "planned"
  /\ student[StudentOf[k]].agent # None
  /\ employment[student[StudentOf[k]].agent] = "active"
  /\ CommitRow(student, k, rows, items, None)

-----------------------------------------------------------------------------
(* Enrollment: at most one record per student, whose key is a settlement key. *)
Records(s) == {e \in Settlements : StudentOf[e] = s /\ RowPresent(e)}
MayRecord(s, e) == StudentOf[e] = s /\ Records(s) \subseteq {e}

\* The visits a new record names: the campus visit, the home visit or both.
Nameable(s, N) ==
  /\ \A k \in N : StudentOf[k] = s /\ RowPresent(k)
  /\ \A k, l \in N : KindOf[k] = KindOf[l] => k = l

\* _resolve_enrollment_attribution: an agent, or whoever created the home visit.
MayAttribute(N, u) == u \in Agent \/ {KindOf[k] : k \in N} = {"home_visit"}

\* The source rows with a record e: the existing one, or a new one naming N.
Recorded(rws, e, N) ==
  IF rws[e].phase # "absent" THEN rws
  ELSE [k \in WorkKey |-> IF k = e THEN [NoRow EXCEPT !.phase = "planned"]
                          ELSE IF k \in N THEN [rws[k] EXCEPT !.named = TRUE]
                          ELSE rws[k]]

\* create_enrollment and confirm_report make the record; set_enroll_info enrolls the
\* student again when it is already there (allow_existing).
Enroll(e, N, u) ==
  LET s == StudentOf[e] IN
  /\ Present(s)
  /\ MayRecord(s, e)
  /\ Nameable(s, N)
  /\ MayAttribute(N, u)
  /\ CommitRow(WithStatus(s, "enrolled"), e, Recorded(rows, e, N), items, u)

UpdateEnrollment(e, phase) ==
  /\ RowPresent(e)
  /\ phase \in {"planned", "closed"}
  /\ CommitRow(student, e, [rows EXCEPT ![e].phase = phase], items, None)

\* What an administrator may leave on a visit.  A won home visit is never held with
\* a next step, as its result is not one that asks for it.
VisitOutcome(k, phase, won) ==
  /\ phase \in {"planned", "held", "closed"}
  /\ KindOf[k] = "home_visit" => ~(won /\ phase = "held")

\* An administrator's edit of a visit that enrolls nobody.
UpdateVisit(k, phase) ==
  /\ RowPresent(k)
  /\ VisitOutcome(k, phase, FALSE)
  /\ CommitRow(student, k, [rows EXCEPT ![k].phase = phase, ![k].won = FALSE],
               items, None)

\* An edit that leaves the result won, or a campus visit enrolled on site: record e
\* is created or found, the student enrolled and synchronised, then the visit.
UpdateVisitEnrolled(k, phase, won, e, N, u) ==
  LET s    == StudentOf[k]
      st   == WithStatus(s, "enrolled")
      rws  == Recorded([rows EXCEPT ![k].phase = phase, ![k].won = won], e, N)
      rws2 == CloseRows(rws, st, {s})
      its  == SyncStudents(SyncSource(items, rws, e, st, employment, u),
                           st, employment, {s})
  IN /\ RowPresent(k)
     /\ VisitOutcome(k, phase, won)
     /\ won \/ (KindOf[k] = "campus_visit" /\ phase = "closed")
     /\ MayRecord(s, e)
     /\ Nameable(s, N) /\ k \in N
     /\ \A l \in N \ {k} : KindOf[k] = "campus_visit"
     /\ MayAttribute(N, u)
     /\ SourceAllowed(items, rws, e, st, employment, u)
     /\ CommitRow(st, k, rws2, its, None)

-----------------------------------------------------------------------------
(* Employment.  Admin stands for super administrators, which both counts see. *)
\* Mutant: only the items of students the user follows.
RestatusFollowed(u, from, to) ==
  [k \in WorkKey |->
    IF /\ items[k].owner = u /\ items[k].status = from
       /\ student[StudentOf[k]].agent = u
    THEN [items[k] EXCEPT !.status = to] ELSE items[k]]
Restatus(u, from, to) ==
  [k \in WorkKey |->
    IF items[k].owner = u /\ items[k].status = from
    THEN [items[k] EXCEPT !.status = to] ELSE items[k]]

Suspend(u) ==
  /\ employment[u] = "active"
  /\ SpareAdmin(u)
  /\ employment' = [employment EXCEPT ![u] = "suspended"]
  /\ items' = Restatus(u, "open", "blocked_suspension")
  /\ UNCHANGED <<student, rows, batch>>

Resume(u) ==
  /\ employment[u] = "suspended"
  /\ employment' = [employment EXCEPT ![u] = "active"]
  /\ items' = Restatus(u, "blocked_suspension", "open")
  /\ UNCHANGED <<student, rows, batch>>

Assigned(u) == {s \in Student : student[s].agent = u}
\* Mutant: terminal students stay with the user.
UnassignFollowing(S) == [s \in {x \in S : Following(student[x])} |-> None]
Unassign(S) == [s \in S |-> None]

\* delete_user: its students go back to the pool, and the user straight through
\* handover_pending to offboarded, whatever batch is running.
DeleteUser(u) ==
  LET S  == Assigned(u)
      st == [s \in Student |->
               IF s \in S /\ Following(student[s]) THEN Reset(student[s])
               ELSE student[s]]
  IN /\ employment[u] # "offboarded"
     /\ SpareAdmin(u)
     /\ ApplyAssignment(st, Unassign(S))
     /\ employment' = [employment EXCEPT ![u] = "offboarded"]

-----------------------------------------------------------------------------
(* Offboarding by handover. *)

Started(P) == [NoBatch EXCEPT !.status = IF P = {} THEN "completed" ELSE "pending",
                              !.total = Cardinality(P),
                              !.remaining = Cardinality(P),
                              !.pending = P]

\* start_handover: students still followed stay with u, pending, their items blocked;
\* terminal ones are unassigned, and keep the items only sync_assignment_source moves.
StartHandover(u) ==
  LET P    == {s \in Assigned(u) : Following(student[s])}
      T    == Assigned(u) \ P
      st   == Owning(student, Unassign(T))
      its  == SyncStudents(items, st, employment, T)
  IN /\ employment[u] \in {"active", "suspended"}
     /\ ~Running(batch[u])
     /\ employment[u] = "active" => SpareAdmin(u)
     /\ student' = st
     /\ rows' = CloseRows(rows, st, T)
     /\ items' = MoveItems(its, P, {"open", "blocked_suspension"}, "blocked_handover", u)
     /\ batch' = [batch EXCEPT ![u] = Started(P)]
     /\ employment' = [employment EXCEPT ![u] =
                         IF P = {} THEN "offboarded" ELSE "handover_pending"]

\* Mutant: a target that is not active.
MayReceiveAnyhow(u, b) == b \in Agent \ {u}
MayReceive(u, b) == b \in Agent \ {u} /\ employment[b] = "active"

\* Mutant: counts against the total.
LeftOfTotal(b, S) == b.total - Cardinality(S)
Left(b, S) == Cardinality(b.pending) - Cardinality(S)

Transferred(b, S) ==
  [status      |-> IF Left(b, S) = 0 THEN "completed" ELSE "in_progress",
   total       |-> b.total,
   remaining   |-> Left(b, S),
   transferred |-> b.transferred + Cardinality(S),
   pending     |-> b.pending \ S,
   moved       |-> b.moved \cup S]

\* execute_transfer of the eligible students S, all still pending, to agent b.
ExecuteTransfer(u, b, S) ==
  LET st   == Owning(student, [s \in S |-> b])
      its  == SyncStudents(items, st, employment, S)
  IN /\ Running(batch[u])
     /\ MayReceive(u, b)
     /\ S # {} /\ S \subseteq batch[u].pending
     /\ student' = st
     /\ rows' = CloseRows(rows, st, S)
     /\ items' = MoveItems(its, S, {"blocked_handover"}, "open", b)
     /\ batch' = [batch EXCEPT ![u] = Transferred(@, S)]
     /\ employment' = [employment EXCEPT ![u] = IF Left(batch[u], S) = 0 THEN "offboarded" ELSE @]

-----------------------------------------------------------------------------
StudentStep ==
  \/ \E s \in Student, status \in {"following", "invalid"}, help \in BOOLEAN,
        a \in Agent \cup {None} : CreateStudent(s, status, help, a)
  \/ \E s \in Student, status \in StudentStatus, help \in BOOLEAN,
        a \in Agent \cup {None} : UpdateStudent(s, status, help, a)
  \/ \E s \in Student :
        ToggleHelp(s) \/ InvalidateEnrollment(s) \/ DeleteStudent(s)
  \/ \E S \in SUBSET Student, a \in Agent : AssignStudents(S, a)
  \/ \E S \in SUBSET Student : \E t \in [S -> Agent \cup {None}] : StaleReassign(t)
  \/ \E S \in SUBSET Student, a \in Agent \cup {None} : ReclaimInvalid(S, a)

TaskStep ==
  \/ \E k \in Keys(TaskKinds), u \in User : CreateTask(k, u)
  \/ \E k \in FollowUps : DeleteFollowUp(k) \/ \E phase \in Phase : UpdateFollowUp(k, phase)
  \/ \E k \in Visits : RescheduleVisit(k) \/ \E phase \in Phase : UpdateVisit(k, phase)
  \/ \E e \in Settlements, phase \in Phase : UpdateEnrollment(e, phase)
  \/ \E e \in Settlements, N \in SUBSET Visits, u \in User : Enroll(e, N, u)
  \/ \E k \in Visits, e \in Settlements, phase \in Phase, won \in BOOLEAN,
        N \in SUBSET Visits, u \in User : UpdateVisitEnrolled(k, phase, won, e, N, u)

UserStep ==
  \/ \E u \in User : Suspend(u) \/ Resume(u) \/ DeleteUser(u) \/ StartHandover(u)
  \/ \E u \in User, b \in Agent, S \in SUBSET Student : ExecuteTransfer(u, b, S)

Next == StudentStep \/ TaskStep \/ UserStep
Spec == Init /\ [][Next]_vars

-----------------------------------------------------------------------------
(* What the handlers keep true together. *)

\* An active item of a student that somebody follows belongs to that user, in the
\* status of that user's employment, however suspensions, handovers, transfers and
\* edits of the student or its tasks interleave (work_item_service and its callers).
AssignedWorkFollowsAgent ==
  \A k \in WorkKey : Active(items[k]) /\ student[StudentOf[k]].agent # None
                       => items[k] = Owed(employment, student[StudentOf[k]].agent)

\* An active item always has an owner to fall back on, as sync_assignment_source needs,
\* and while its owner stays with the company its status is that of the owner, also
\* when nobody follows the student any more.
ActiveWorkHasOwner ==
  \A k \in WorkKey : Active(items[k]) =>
     /\ items[k].owner # None
     /\ employment[items[k].owner] \in {"active", "suspended"}
          => items[k] = Owed(employment, items[k].owner)

\* A help request is active exactly while its student asks for help, is not terminal
\* and is followed, whichever handler changed one of the three.
OwnInStep(k) == LET st == student[StudentOf[k]] IN
                Active(items[k]) <=> OwnWanted(k, st) /\ st.agent # None
HelpIffAsked == \A k \in Keys({"help_request"}) : OwnInStep(k)

\* The one step that may lose a lead contact is _reclaim of an invalid student to the
\* agent it already has, for whom apply_assignment_changes sees no change; nothing
\* else lets the lead and the student drift apart.
LeadLostOnlyByReclaim ==
  [][\A k \in Keys({"lead_contact"}) :
       OwnInStep(k) /\ ~OwnInStep(k)' =>
          LET s == StudentOf[k] IN
          /\ student[s].status = "invalid" /\ Following(student'[s])
          /\ student'[s].agent = student[s].agent]_vars

\* Nothing is left to follow up once a student is terminal: no active task item, and
\* no visit still planned but the ones that enrolled the student
\* (_close_terminal_students_tasks).
TerminalHasNoTask ==
  \A k \in Keys(TaskKinds) : Terminal(student[StudentOf[k]]) =>
     /\ ~Active(items[k])
     /\ rows[k].phase = "planned" => rows[k].won \/ rows[k].named

\* An active task or settlement item has an open source row; an open settlement and a
\* planned task that enrolled nobody have an active item, for a student not terminal.
SourceMirrored ==
  \A k \in WorkKey : KindOf[k] \notin OwnKinds =>
     /\ Active(items[k]) => SourceOpen(rows[k])
     /\ \/ SourceOpen(rows[k]) /\ KindOf[k] = "enrollment_settlement"
        \/ /\ rows[k].phase = "planned" /\ ~rows[k].won /\ ~rows[k].named
           /\ Following(student[StudentOf[k]])
        => Active(items[k])

\* A student is enrolled only with an enrollment record ("so it cannot create an
\* enrolled student without settlement data", students_enrollment.py), whatever edits,
\* invalidations, reclaims and visit results precede it.
EnrolledHasRecord ==
  \A s \in Student : student[s].status = "enrolled" => Records(s) # {}

\* The students pending in a batch are exactly the ones the leaving user still follows:
\* none is reassigned, or given to that user, outside the handover.
PendingAreTheLeavers ==
  \A u \in User : batch[u].pending =
     IF employment[u] = "handover_pending" THEN Assigned(u) ELSE {}

\* Nobody is followed by a user who has left, and only agents follow students.
OffboardedFollowNobody ==
  \A s \in Student : LET a == student[s].agent IN
     a # None => a \in Agent /\ employment[a] # "offboarded"

\* The counters of a batch never undercount the students it still has to move, a
\* completed batch has none left, and a running one that has none only lost them to
\* deletion (remaining_items stays above zero).
BatchAccounts ==
  \A u \in User : LET b == batch[u] IN
     /\ b.remaining + b.transferred <= b.total
     /\ Cardinality(b.pending) <= b.remaining
     /\ Cardinality(b.moved) <= b.transferred
     /\ b.status = "completed" => b.remaining = 0
     /\ Running(b) => b.remaining > 0 /\ employment[u] \in {"handover_pending", "offboarded"}

\* A student leaves a batch only by deletion or into the hands of another active agent,
\* still in the status it had.
NoPendingStudentDropped ==
  [][\A u \in User : \A s \in batch[u].pending \ batch[u]'.pending :
       \/ student'[s] = NoStudent
       \/ /\ s \in batch[u]'.moved
          /\ student'[s].agent \in Agent \ {u}
          /\ employment'[student'[s].agent] = "active"
          /\ student'[s].status = student[s].status]_vars

\* However administrators suspend, delete and offboard each other, one stays active.
AnActiveAdminRemains == Admin # {} => ActiveAdmins # {}
=============================================================================
