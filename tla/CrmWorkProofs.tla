----------------------------- MODULE CrmWorkProofs -----------------------------
(***************************************************************************)
(* The work items in step with what they are about, for any users,         *)
(* students and work keys: owners, leads and help requests, the items of   *)
(* source rows, and the records of the enrolled.  The items of rows are    *)
(* inductive only together: an edit makes an invalid student followed      *)
(* again without opening its tasks again, which is right because           *)
(* TerminalHasNoTask left none planned, and a new student has none because *)
(* a student outside the table has no rows.                                *)
(***************************************************************************)
EXTENDS CrmCoreProofs

USE UsersAssumption, KeysAssumption

-----------------------------------------------------------------------------
(* Owners. *)

\* An active item has an owner, whose employment it follows while the owner is at work.
HasOwner(it, emp) ==
  Active(it) => /\ it.owner # None
                /\ emp[it.owner] \in {"active", "suspended"} => it = Owed(emp, it.owner)

\* Every item has an owner.
AllOwned(its, emp) == \A k \in WorkKey : HasOwner(its[k], emp)

\* What is owed to a user has that user as owner; what is not active needs none.
LEMMA OwedHasOwner ==
  ASSUME NEW emp, NEW u, u # None
  PROVE  HasOwner(Owed(emp, u), emp)
BY DEF HasOwner, Owed

\* Synchronising students leaves every item with an owner.
LEMMA SyncStudentsOwned ==
  ASSUME NEW its, NEW st, NEW emp, NEW S, AllOwned(its, emp)
  PROVE  AllOwned(SyncStudents(its, st, emp, S), emp)
<1> SUFFICES ASSUME NEW k \in WorkKey
             PROVE  HasOwner(SyncStudents(its, st, emp, S)[k], emp)
  BY DEF AllOwned
<1> DEFINE row == st[StudentOf[k]]
           new == SyncOwn(its[k], OwnWanted(k, row), row.agent, emp)
<1>1. HasOwner(its[k], emp) /\ HasOwner(Cancelled, emp)
  BY DEF AllOwned, HasOwner, Cancelled, Active, ActiveStatus
<1>2. HasOwner(new, emp)
  <2>1. ASSUME NEW o
        PROVE  HasOwner([status |-> "completed", owner |-> o], emp)
    BY DEF HasOwner, Active, ActiveStatus
  <2>. QED
    BY <1>1, <2>1, OwedHasOwner DEF SyncOwn
<1>. QED
  BY <1>1, <1>2 DEF SyncStudents

\* So does synchronising a source row, which is refused when nobody can own its item.
LEMMA SyncSourceOwned ==
  ASSUME NEW its \in [WorkKey -> Item], NEW rws, NEW k \in WorkKey, NEW st, NEW emp,
         NEW creator, AllOwned(its, emp), SourceAllowed(its, rws, k, st, emp, creator)
  PROVE  AllOwned(SyncSource(its, rws, k, st, emp, creator), emp)
<1>1. ASSUME NEW o
      PROVE  HasOwner([status |-> "completed", owner |-> o], emp)
  BY DEF HasOwner, Active, ActiveStatus
<1>. QED
  BY <1>1, OwedHasOwner DEF AllOwned, SyncSource, SourceAllowed, CanOwn

\* And so does following an assignment.
LEMMA FollowAssignmentOwned ==
  ASSUME NEW its, NEW st, NEW emp, NEW S, AllOwned(its, emp), FollowAllowed(its, st, emp, S)
  PROVE  AllOwned(FollowAssignment(its, st, emp, S), emp)
BY OwedHasOwner DEF AllOwned, FollowAssignment, FollowAllowed, CanOwn

\* The shared tails of the handlers.
LEMMA CommitOwned ==
  ASSUME NEW st, NEW S, NEW rws, NEW its, AllOwned(its, employment), Commit(st, S, rws, its)
  PROVE  AllOwned(items', employment) /\ UNCHANGED employment
BY SyncStudentsOwned DEF Commit

\* With a source row synchronised first.
LEMMA CommitRowOwned ==
  ASSUME NEW st, NEW k \in WorkKey, NEW rws, NEW its \in [WorkKey -> Item], NEW creator,
         AllOwned(its, employment), CommitRow(st, k, rws, its, creator)
  PROVE  AllOwned(items', employment) /\ UNCHANGED employment
BY SyncSourceOwned, CommitOwned DEF CommitRow

\* And of an assignment.
LEMMA AssignmentOwned ==
  ASSUME NEW st, NEW t, AllOwned(items, employment), ApplyAssignment(st, t)
  PROVE  AllOwned(items', employment)
BY SyncStudentsOwned, FollowAssignmentOwned DEF ApplyAssignment

\* The handlers on students and on tasks leave employment alone.
LEMMA StudentStepOwned ==
  ASSUME TypeOK, AllOwned(items, employment), StudentStep
  PROVE  AllOwned(items', employment) /\ UNCHANGED employment
<1>1. ASSUME NEW s, NEW status, NEW help, NEW a,
             CreateStudent(s, status, help, a) \/ UpdateStudent(s, status, help, a)
      PROVE  AllOwned(items', employment) /\ UNCHANGED employment
  <2>1. \/ \E st : Commit(st, {s}, rows, items)
        \/ \E st, t : ApplyAssignment(st, t) /\ UNCHANGED employment
    BY <1>1 DEF CreateStudent, UpdateStudent
  <2>. QED
    BY <2>1, CommitOwned, AssignmentOwned
<1>2. ASSUME NEW s, ToggleHelp(s) \/ InvalidateEnrollment(s)
      PROVE  AllOwned(items', employment) /\ UNCHANGED employment
  BY <1>2, CommitOwned DEF ToggleHelp, InvalidateEnrollment
<1>3. ASSUME NEW s \in Student, DeleteStudent(s)
      PROVE  AllOwned(items', employment) /\ UNCHANGED employment
  BY <1>3 DEF DeleteStudent, AllOwned, HasOwner, NoItem, Active, ActiveStatus
<1>4. ASSUME NEW S, NEW a, AssignStudents(S, a) \/ ReclaimInvalid(S, a)
      PROVE  AllOwned(items', employment) /\ UNCHANGED employment
  BY <1>4, AssignmentOwned DEF AssignStudents, ReclaimInvalid
<1>5. ASSUME NEW t, StaleReassign(t)
      PROVE  AllOwned(items', employment) /\ UNCHANGED employment
  BY <1>5, AssignmentOwned DEF StaleReassign
<1>. QED
  BY <1>1, <1>2, <1>3, <1>4, <1>5 DEF StudentStep

\* So do the handlers on tasks and records, which only use the tails.
LEMMA TaskStepOwned ==
  ASSUME TypeOK, AllOwned(items, employment), TaskStep
  PROVE  AllOwned(items', employment) /\ UNCHANGED employment
<1>0. items \in [WorkKey -> Item]
  BY DEF TypeOK
<1>1. ASSUME NEW k \in Keys(TaskKinds), NEW u \in User, CreateTask(k, u)
      PROVE  AllOwned(items', employment) /\ UNCHANGED employment
  BY <1>0, <1>1, CommitRowOwned DEF CreateTask, Keys
<1>2. ASSUME NEW k \in FollowUps, DeleteFollowUp(k)
      PROVE  AllOwned(items', employment) /\ UNCHANGED employment
  <2>1. AllOwned([items EXCEPT ![k] = Cancel(@)], employment)
    BY <1>0 DEF AllOwned, HasOwner, Cancel, Cancelled, Active, ActiveStatus
  <2>. QED
    BY <1>2, <2>1, CommitOwned DEF DeleteFollowUp
<1>3. ASSUME NEW k \in FollowUps, NEW phase \in Phase, UpdateFollowUp(k, phase)
      PROVE  AllOwned(items', employment) /\ UNCHANGED employment
  BY <1>0, <1>3, CommitRowOwned DEF UpdateFollowUp, FollowUps, Keys
<1>4. ASSUME NEW k \in Visits,
             RescheduleVisit(k) \/ \E phase \in Phase : UpdateVisit(k, phase)
      PROVE  AllOwned(items', employment) /\ UNCHANGED employment
  BY <1>0, <1>4, CommitRowOwned DEF RescheduleVisit, UpdateVisit, Visits, Keys
<1>5. ASSUME NEW e \in Settlements, NEW phase \in Phase, UpdateEnrollment(e, phase)
      PROVE  AllOwned(items', employment) /\ UNCHANGED employment
  BY <1>0, <1>5, CommitRowOwned DEF UpdateEnrollment, Settlements, Keys
<1>6. ASSUME NEW e \in Settlements, NEW N \in SUBSET Visits, NEW u \in User,
             Enroll(e, N, u)
      PROVE  AllOwned(items', employment) /\ UNCHANGED employment
  BY <1>0, <1>6, CommitRowOwned DEF Enroll, Settlements, Keys
<1>7. ASSUME NEW k \in Visits, NEW e \in Settlements, NEW phase \in Phase,
             NEW won \in BOOLEAN, NEW N \in SUBSET Visits, NEW u \in User,
             UpdateVisitEnrolled(k, phase, won, e, N, u)
      PROVE  AllOwned(items', employment) /\ UNCHANGED employment
  <2> DEFINE s    == StudentOf[k]
             st   == WithStatus(s, "enrolled")
             rws  == Recorded([rows EXCEPT ![k].phase = phase, ![k].won = won], e, N)
             src  == SyncSource(items, rws, e, st, employment, u)
             its  == SyncStudents(src, st, employment, {s})
  <2>1. k \in WorkKey /\ e \in WorkKey /\ s \in Student /\ u \in User \cup {None}
    BY DEF Visits, Settlements, Keys
  <2>2. /\ CommitRow(st, k, CloseRows(rws, st, {s}), its, None)
        /\ SourceAllowed(items, rws, e, st, employment, u)
    BY <1>7 DEF UpdateVisitEnrolled
  <2>3. st \in [Student -> StudentRow]
    BY <2>1, EnrollingEdits
  <2>4. rws \in [WorkKey -> Row]
    <3>1. [rows EXCEPT ![k].phase = phase, ![k].won = won] \in [WorkKey -> Row]
      BY DEF TypeOK, Row
    <3>. QED
      BY <3>1, RecordedType
  <2> HIDE DEF st, rws
  <2>5. src \in [WorkKey -> Item] /\ AllOwned(src, employment)
    BY <1>0, <2>1, <2>2, <2>3, <2>4, SyncSourceType, SyncSourceOwned DEF TypeOK
  <2>6. its \in [WorkKey -> Item] /\ AllOwned(its, employment)
    BY <2>3, <2>5, SyncStudentsType, SyncStudentsOwned DEF TypeOK
  <2> HIDE DEF its
  <2>. QED
    BY <2>1, <2>2, <2>6, CommitRowOwned
<1>. QED
  BY <1>1, <1>2, <1>3, <1>4, <1>5, <1>6, <1>7 DEF TaskStep

\* Suspending and resuming a user moves its items to the status of its employment.
LEMMA RestatusOwned ==
  ASSUME TypeOK, AllOwned(items, employment), NEW u \in User, Suspend(u) \/ Resume(u)
  PROVE  AllOwned(items', employment')
<1> SUFFICES ASSUME NEW k \in WorkKey
             PROVE  HasOwner(items'[k], employment')
  BY DEF AllOwned
<1>0. items[k] \in Item /\ employment \in [User -> EmploymentStatus] /\ u # None
  BY DEF TypeOK, User
<1>1. PICK from \in {"open", "blocked_suspension"}, to \in {"open", "blocked_suspension"},
           new \in {"active", "suspended"} :
        /\ employment[u] \in {"active", "suspended"}
        /\ WorkStatus(employment[u]) = from /\ WorkStatus(new) = to
        /\ employment' = [employment EXCEPT ![u] = new]
        /\ items' = Restatus(u, from, to)
  BY DEF Suspend, Resume, WorkStatus
<1>2. HasOwner(items[k], employment)
  BY DEF AllOwned
<1>3. CASE items[k].owner = u
  <2>1. Active(items[k]) => items[k] = Owed(employment, u)
    BY <1>1, <1>2, <1>3 DEF HasOwner
  <2>2. CASE Active(items[k])
    <3>1. items'[k] = Owed(employment', u)
      BY <1>0, <1>1, <2>1, <2>2 DEF Restatus, Owed
    <3>. QED
      BY <1>0, <3>1, OwedHasOwner
  <2>3. CASE ~Active(items[k])
    BY <1>1, <2>3 DEF Restatus, HasOwner, Active, ActiveStatus
  <2>. QED
    BY <2>2, <2>3
<1>4. CASE items[k].owner # u
  <2>1. items'[k] = items[k]
    BY <1>1, <1>4 DEF Restatus
  <2>2. items[k].owner # None => employment'[items[k].owner] = employment[items[k].owner]
    BY <1>0, <1>1, <1>4 DEF Item
  <2>. QED
    BY <1>2, <2>1, <2>2 DEF HasOwner, Owed
<1>. QED
  BY <1>3, <1>4

\* A user that leaves work makes no item wrong; the other owners are not concerned.
LEMMA LeavingOwned ==
  ASSUME NEW its \in [WorkKey -> Item], NEW emp \in [User -> EmploymentStatus],
         AllOwned(its, emp), NEW u \in User, NEW e, e \notin {"active", "suspended"}
  PROVE  AllOwned(its, [emp EXCEPT ![u] = e])
<1> DEFINE emp2 == [emp EXCEPT ![u] = e]
<1> SUFFICES ASSUME NEW k \in WorkKey
             PROVE  HasOwner(its[k], emp2)
  BY DEF AllOwned
<1>1. HasOwner(its[k], emp) /\ its[k].owner \in User \cup {None}
  BY DEF AllOwned, Item
<1>2. CASE its[k].owner = u
  <2>1. emp2[u] = e
    OBVIOUS
  <2>. QED
    BY <1>1, <1>2, <2>1 DEF HasOwner
<1>3. CASE its[k].owner # u
  <2>1. its[k].owner # None => emp2[its[k].owner] = emp[its[k].owner]
    BY <1>1, <1>3
  <2>. QED
    BY <1>1, <2>1 DEF HasOwner, Owed
<1>. QED
  BY <1>2, <1>3

\* The steps of the handover and the deletion of a user.
LEMMA UserStepOwned ==
  ASSUME TypeOK, TypeOK', HandoverInv, AllOwned(items, employment), UserStep
  PROVE  AllOwned(items', employment')
<1>0. /\ student \in [Student -> StudentRow] /\ items \in [WorkKey -> Item]
      /\ employment \in [User -> EmploymentStatus] /\ items' \in [WorkKey -> Item]
  BY DEF TypeOK
<1>1. ASSUME NEW u \in User, DeleteUser(u)
      PROVE  AllOwned(items', employment')
  <2>1. /\ AllOwned(items', employment)
        /\ employment' = [employment EXCEPT ![u] = "offboarded"]
    BY <1>1, AssignmentOwned DEF DeleteUser
  <2>. QED
    BY <1>0, <2>1, LeavingOwned
<1>2. ASSUME NEW u \in User, StartHandover(u)
      PROVE  AllOwned(items', employment')
  <2> DEFINE P   == {s \in Assigned(u) : Following(student[s])}
             T   == Assigned(u) \ P
             st  == Owning(student, Unassign(T))
             its == SyncStudents(items, st, employment, T)
             e   == IF P = {} THEN "offboarded" ELSE "handover_pending"
  <2>1. /\ items' = MoveItems(its, P, {"open", "blocked_suspension"}, "blocked_handover", u)
        /\ employment' = [employment EXCEPT ![u] = e]
    BY <1>2 DEF StartHandover
  <2>2. its \in [WorkKey -> Item]
    <3>1. st \in [Student -> StudentRow]
      BY <1>0, OwningType DEF Unassign
    <3>. QED
      BY <1>0, <3>1, SyncStudentsType
  <2>3. AllOwned(its, employment)
    BY SyncStudentsOwned
  <2> HIDE DEF its
  <2>4. AllOwned(its, employment')
    BY <1>0, <2>1, <2>2, <2>3, LeavingOwned
  <2>5. HasOwner([status |-> "blocked_handover", owner |-> u], employment')
    BY <1>0, <2>1 DEF HasOwner, User
  <2>. QED
    BY <2>1, <2>4, <2>5 DEF AllOwned, MoveItems
<1>3. ASSUME NEW u \in User, NEW b \in Agent, NEW S \in SUBSET Student,
             ExecuteTransfer(u, b, S)
      PROVE  AllOwned(items', employment')
  <2> DEFINE st  == Owning(student, [s \in S |-> b])
             its == SyncStudents(items, st, employment, S)
             e   == IF Left(batch[u], S) = 0 THEN "offboarded" ELSE employment[u]
  <2>1. /\ items' = MoveItems(its, S, {"blocked_handover"}, "open", b)
        /\ employment' = [employment EXCEPT ![u] = e]
    BY <1>3 DEF ExecuteTransfer
  <2>2. its \in [WorkKey -> Item]
    <3>1. st \in [Student -> StudentRow]
      BY <1>0, OwningType
    <3>. QED
      BY <1>0, <3>1, SyncStudentsType
  <2>3. AllOwned(its, employment)
    BY SyncStudentsOwned
  <2>4. employment[u] = "handover_pending" /\ employment[b] = "active" /\ b # u
    BY <1>3, TransferFacts
  <2> HIDE DEF its
  <2>5. AllOwned(its, employment')
    BY <1>0, <2>1, <2>2, <2>3, <2>4, LeavingOwned
  <2>6. HasOwner([status |-> "open", owner |-> b], employment')
    <3>1. employment'[b] = "active"
      BY <1>0, <2>1, <2>4 DEF User
    <3>. QED
      BY <3>1 DEF HasOwner, Owed, WorkStatus, User
  <2>. QED
    BY <2>1, <2>5, <2>6 DEF AllOwned, MoveItems
<1>. QED
  BY <1>1, <1>2, <1>3, RestatusOwned DEF UserStep

\* Active work always has an owner to fall back on, and while the owner is at work the
\* item says what the owner's employment says, also when nobody follows the student.
THEOREM WorkHasOwner == Spec => []ActiveWorkHasOwner
<1>1. ActiveWorkHasOwner <=> AllOwned(items, employment)
  BY DEF ActiveWorkHasOwner, AllOwned, HasOwner
<1>2. Init => ActiveWorkHasOwner
  BY DEF Init, ActiveWorkHasOwner, NoItem, Active, ActiveStatus
<1>3. ASSUME TypeOK, TypeOK', HandoverInv, ActiveWorkHasOwner, [Next]_vars
      PROVE  ActiveWorkHasOwner'
  <2>1. AllOwned(items', employment')
    <3>1. CASE UNCHANGED vars
      BY <1>1, <1>3, <3>1 DEF vars
    <3>. QED
      BY <1>1, <1>3, <3>1, StudentStepOwned, TaskStepOwned, UserStepOwned DEF Next
  <2>. QED
    BY <2>1 DEF ActiveWorkHasOwner, AllOwned, HasOwner
<1>. QED
  BY <1>2, <1>3, TypeCorrect, HandoverInvariant, PTL DEF Spec
-----------------------------------------------------------------------------
(* Leads and help requests. *)

\* One lead or help item is active exactly when its student wants it; OwnInStep is this
\* for the tables as they are.
InOwn(its, st, k) ==
  Active(its[k]) <=> OwnWanted(k, st[StudentOf[k]]) /\ st[StudentOf[k]].agent # None

\* OwnInStep speaks of the tables of the state and of the next one.
LEMMA OwnIsInOwn ==
  ASSUME NEW k
  PROVE  /\ OwnInStep(k) <=> InOwn(items, student, k)
         /\ OwnInStep(k)' <=> InOwn(items', student', k)
BY DEF OwnInStep, InOwn, OwnWanted

\* Synchronising a student puts its lead and its help request in step, whatever they were.
LEMMA SyncStudentsInOwn ==
  ASSUME NEW its, NEW st, NEW emp, NEW S, NEW k \in Keys(OwnKinds),
         StudentOf[k] \in S \/ InOwn(its, st, k)
  PROVE  InOwn(SyncStudents(its, st, emp, S), st, k)
<1> DEFINE row == st[StudentOf[k]]
           new == SyncOwn(its[k], OwnWanted(k, row), row.agent, emp)
<1>1. Active(new) <=> OwnWanted(k, row) /\ row.agent # None
  <2>1. ASSUME NEW u
        PROVE  Active(Owed(emp, u))
    BY DEF Owed, WorkStatus, Active, ActiveStatus
  <2>2. OwnWanted(k, row) \in BOOLEAN
    BY DEF OwnWanted, Following
  <2>. QED
    BY <2>1, <2>2 DEF SyncOwn, Active, ActiveStatus, Cancelled
<1>. QED
  BY <1>1 DEF SyncStudents, InOwn, Keys

\* Handlers that end in Commit put the students they name in step and leave the others.
LEMMA CommitInOwn ==
  ASSUME NEW st, NEW S, NEW rws, NEW its, Commit(st, S, rws, its), NEW k \in Keys(OwnKinds),
         StudentOf[k] \in S \/ InOwn(its, st, k)
  PROVE  OwnInStep(k)'
BY SyncStudentsInOwn, OwnIsInOwn DEF Commit

\* So do those about one source row, which is not the key of a lead or a help request.
LEMMA CommitRowInOwn ==
  ASSUME NEW st, NEW j \in WorkKey, NEW rws, NEW its, NEW creator,
         CommitRow(st, j, rws, its, creator), NEW k \in Keys(OwnKinds), KindOf[j] \notin OwnKinds,
         StudentOf[k] = StudentOf[j] \/ InOwn(its, st, k), its \in [WorkKey -> Item]
  PROVE  OwnInStep(k)'
<1> DEFINE src == SyncSource(its, rws, j, st, employment, creator)
<1>1. src[k] = its[k]
  BY DEF SyncSource, Keys
<1>2. Commit(st, {StudentOf[j]}, rws, src)
  BY DEF CommitRow
<1>3. StudentOf[k] \in {StudentOf[j]} \/ InOwn(src, st, k)
  BY <1>1 DEF InOwn
<1> HIDE DEF src
<1>. QED
  BY <1>2, <1>3, CommitInOwn

\* An assignment puts the students whose agent changes in step and leaves the items of
\* the others, and the others themselves but for the edit that came with it.
LEMMA AssignmentInOwn ==
  ASSUME NEW st \in [Student -> StudentRow], NEW t, ApplyAssignment(st, t),
         NEW k \in Keys(OwnKinds), SameAgents(st)
  PROVE  \/ OwnInStep(k)'
         \/ items'[k] = items[k] /\ student'[StudentOf[k]] = st[StudentOf[k]]
<1> DEFINE S   == Changed(t)
           st2 == Owning(st, t)
           its == SyncStudents(items, st2, employment, S)
<1>0. k \in WorkKey /\ KindOf[k] \in OwnKinds /\ StudentOf[k] \in Student
  BY DEF Keys
<1>1. student' = st2 /\ items' = FollowAssignment(its, st2, employment, S)
  BY DEF ApplyAssignment
<1>2. items'[k] = its[k]
  BY <1>0, <1>1 DEF FollowAssignment, Follows
<1>3. CASE StudentOf[k] \in S
  <2>1. InOwn(its, st2, k)
    BY <1>3, SyncStudentsInOwn
  <2>. QED
    BY <1>1, <1>2, <2>1, OwnIsInOwn DEF InOwn
<1>4. CASE StudentOf[k] \notin S
  <2>1. its[k] = items[k]
    BY <1>0, <1>4 DEF SyncStudents
  <2>2. st2[StudentOf[k]] = st[StudentOf[k]]
    BY <1>0, <1>4 DEF Owning, Changed, SameAgents, StudentRow
  <2>. QED
    BY <1>1, <1>2, <2>1, <2>2
<1>. QED
  BY <1>3, <1>4

\* What a reclaim of an invalid student to the agent it has does to its lead.
LostByReclaim(k) ==
  LET s == StudentOf[k] IN
  /\ student[s].status = "invalid" /\ Following(student'[s]) /\ ~student'[s].help
  /\ student'[s].agent = student[s].agent
  /\ items'[k] = items[k]

\* The handlers on students.
LEMMA StudentStepInOwn ==
  ASSUME TypeOK, HandoverInv, StudentStep, NEW k \in Keys(OwnKinds), OwnInStep(k)
  PROVE  OwnInStep(k)' \/ LostByReclaim(k)
<1>0. /\ student \in [Student -> StudentRow] /\ StudentOf[k] \in Student
      /\ InOwn(items, student, k) /\ SameAgents(student)
  BY OwnIsInOwn DEF TypeOK, Keys, SameAgents
<1>1. ASSUME NEW s \in Student, NEW st \in [Student -> StudentRow],
             \A x \in Student \ {s} : st[x] = student[x], SameAgents(st),
             NEW t, DOMAIN t = {s}, t[s] # st[s].agent,
             ApplyAssignment(st, t)
      PROVE  OwnInStep(k)'
  <2>1. CASE StudentOf[k] = s
    <3>1. s \in Changed(t)
      BY <1>1 DEF Changed, SameAgents
    <3>2. InOwn(SyncStudents(items, Owning(st, t), employment, Changed(t)), Owning(st, t), k)
      BY <2>1, <3>1, SyncStudentsInOwn
    <3>3. /\ student' = Owning(st, t)
          /\ items'[k] = SyncStudents(items, Owning(st, t), employment, Changed(t))[k]
      BY <1>1 DEF ApplyAssignment, FollowAssignment, Follows, Keys
    <3>. QED
      BY <3>2, <3>3, OwnIsInOwn DEF InOwn
  <2>2. CASE StudentOf[k] # s
    <3>1. st[StudentOf[k]] = student[StudentOf[k]]
      BY <1>0, <1>1, <2>2
    <3>2. OwnInStep(k)' \/ (items'[k] = items[k] /\ student'[StudentOf[k]] = st[StudentOf[k]])
      BY <1>1, AssignmentInOwn
    <3>. QED
      BY <1>0, <3>1, <3>2, OwnIsInOwn DEF InOwn
  <2>. QED
    BY <2>1, <2>2
<1>2. ASSUME NEW s \in Student, NEW st,
             \A x \in Student \ {s} : st[x] = student[x], Commit(st, {s}, rows, items)
      PROVE  OwnInStep(k)'
  <2>1. StudentOf[k] \in {s} \/ InOwn(items, st, k)
    BY <1>0, <1>2 DEF InOwn
  <2>. QED
    BY <1>2, <2>1, CommitInOwn
<1>3. ASSUME NEW s \in Student, NEW status \in {"following", "invalid"},
             NEW help \in BOOLEAN, NEW a \in Agent \cup {None},
             CreateStudent(s, status, help, a)
      PROVE  OwnInStep(k)'
  <2> DEFINE st == [student EXCEPT ![s] = [status |-> status, agent |-> None, help |-> help]]
  <2>1. student[s].agent = None
    BY <1>3 DEF CreateStudent, Present, HandoverInv, AbsentUnassigned
  <2>2. /\ st \in [Student -> StudentRow] /\ SameAgents(st) /\ st[s].agent = None
        /\ \A x \in Student \ {s} : st[x] = student[x]
    BY <1>0, <2>1 DEF StudentRow, StudentStatus, SameAgents
  <2>3. \/ Commit(st, {s}, rows, items)
        \/ a # None /\ ApplyAssignment(st, [x \in {s} |-> a])
    BY <1>3 DEF CreateStudent
  <2> HIDE DEF st
  <2>. QED
    BY <1>1, <1>2, <2>2, <2>3
<1>4. ASSUME NEW s \in Student, NEW status \in StudentStatus, NEW help \in BOOLEAN,
             NEW a \in Agent \cup {None}, UpdateStudent(s, status, help, a)
      PROVE  OwnInStep(k)'
  <2> DEFINE st == [student EXCEPT ![s].status = status, ![s].help = help]
  <2>1. /\ st \in [Student -> StudentRow] /\ SameAgents(st) /\ st[s].agent = student[s].agent
        /\ \A x \in Student \ {s} : st[x] = student[x]
    BY <1>0 DEF StudentRow, SameAgents
  <2>2. \/ Commit(st, {s}, rows, items)
        \/ a # student[s].agent /\ ApplyAssignment(st, [x \in {s} |-> a])
    BY <1>4 DEF UpdateStudent
  <2> HIDE DEF st
  <2>. QED
    BY <1>1, <1>2, <2>1, <2>2
<1>5. ASSUME NEW s \in Student, ToggleHelp(s) \/ InvalidateEnrollment(s)
      PROVE  OwnInStep(k)'
  <2>1. PICK st : /\ \A x \in Student \ {s} : st[x] = student[x]
                  /\ Commit(st, {s}, rows, items)
    BY <1>0, <1>5 DEF ToggleHelp, InvalidateEnrollment, WithStatus
  <2>. QED
    BY <1>2, <2>1
<1>6. ASSUME NEW s \in Student, DeleteStudent(s)
      PROVE  OwnInStep(k)'
  <2>1. CASE StudentOf[k] = s
    <3>1. ~Active(items'[k]) /\ student'[StudentOf[k]].agent = None
      BY <1>0, <1>6, <2>1 DEF DeleteStudent, NoItem, NoStudent, Active, ActiveStatus, Keys
    <3>. QED
      BY <3>1, OwnIsInOwn DEF InOwn
  <2>2. CASE StudentOf[k] # s
    <3>1. items'[k] = items[k] /\ student'[StudentOf[k]] = student[StudentOf[k]]
      BY <1>0, <1>6, <2>2 DEF DeleteStudent, Keys
    <3>. QED
      BY <1>0, <3>1, OwnIsInOwn DEF InOwn
  <2>. QED
    BY <2>1, <2>2
<1>7. ASSUME NEW t, ApplyAssignment(student, t)
      PROVE  OwnInStep(k)'
  <2>1. OwnInStep(k)' \/ (items'[k] = items[k] /\ student'[StudentOf[k]] = student[StudentOf[k]])
    BY <1>0, <1>7, AssignmentInOwn
  <2>. QED
    BY <1>0, <2>1, OwnIsInOwn DEF InOwn
<1>8. ASSUME NEW S, NEW a, AssignStudents(S, a)
      PROVE  OwnInStep(k)'
  BY <1>7, <1>8 DEF AssignStudents
<1>9. ASSUME NEW t, StaleReassign(t)
      PROVE  OwnInStep(k)'
  BY <1>7, <1>9 DEF StaleReassign
<1>10. ASSUME NEW S \in SUBSET Student, NEW a \in Agent \cup {None}, ReclaimInvalid(S, a)
       PROVE  OwnInStep(k)' \/ LostByReclaim(k)
  <2> DEFINE st == [s \in Student |-> IF s \in S THEN Reset(student[s]) ELSE student[s]]
             x  == StudentOf[k]
  <2>1. ASSUME NEW s \in Student
        PROVE  /\ Reset(student[s]) \in StudentRow
               /\ Reset(student[s]).agent = student[s].agent
               /\ Following(Reset(student[s])) /\ ~Reset(student[s]).help
    BY <1>0 DEF Reset, StudentRow, StudentStatus, Following
  <2>2. st \in [Student -> StudentRow] /\ SameAgents(st)
    BY <1>0, <2>1 DEF SameAgents
  <2>3. ApplyAssignment(st, [s \in S |-> a]) /\ \A s \in S : student[s].status = "invalid"
    BY <1>10 DEF ReclaimInvalid
  <2>4. x \in S => /\ st[x].agent = student[x].agent /\ Following(st[x]) /\ ~st[x].help
                   /\ student[x].status = "invalid"
    BY <1>0, <2>1, <2>3
  <2>5. x \notin S => st[x] = student[x]
    BY <1>0
  <2> HIDE DEF st
  <2>6. OwnInStep(k)' \/ (items'[k] = items[k] /\ student'[x] = st[x])
    BY <2>2, <2>3, AssignmentInOwn
  <2>7. CASE items'[k] = items[k] /\ student'[x] = st[x]
    BY <1>0, <2>4, <2>5, <2>7, OwnIsInOwn DEF InOwn, LostByReclaim
  <2>. QED
    BY <2>6, <2>7
<1>. QED
  BY <1>3, <1>4, <1>5, <1>6, <1>8, <1>9, <1>10 DEF StudentStep

\* The handlers on follow-ups, visits and enrollments never touch another student's items.
LEMMA TaskStepInOwn ==
  ASSUME TypeOK, TaskStep, NEW k \in Keys(OwnKinds), OwnInStep(k)
  PROVE  OwnInStep(k)'
<1>0. /\ student \in [Student -> StudentRow] /\ items \in [WorkKey -> Item]
      /\ InOwn(items, student, k) /\ k \in WorkKey /\ StudentOf[k] \in Student
  BY OwnIsInOwn DEF TypeOK, Keys
<1>1. /\ Keys(TaskKinds) \subseteq WorkKey /\ FollowUps \subseteq WorkKey
      /\ Visits \subseteq WorkKey /\ Settlements \subseteq WorkKey
      /\ \A j \in Keys(TaskKinds) \cup FollowUps \cup Visits \cup Settlements :
           KindOf[j] \notin OwnKinds
  BY DEF Keys, FollowUps, Visits, Settlements, TaskKinds, VisitKinds, OwnKinds
<1>2. ASSUME NEW j \in Keys(TaskKinds), NEW u \in User, CreateTask(j, u)
      PROVE  OwnInStep(k)'
  BY <1>0, <1>1, <1>2, CommitRowInOwn DEF CreateTask
<1>3. ASSUME NEW j \in FollowUps, DeleteFollowUp(j)
      PROVE  OwnInStep(k)'
  <2>1. InOwn([items EXCEPT ![j] = Cancel(@)], student, k)
    BY <1>0, <1>1 DEF InOwn, Keys
  <2>. QED
    BY <1>3, <2>1, CommitInOwn DEF DeleteFollowUp
<1>4. ASSUME NEW j \in FollowUps, NEW phase \in Phase, UpdateFollowUp(j, phase)
      PROVE  OwnInStep(k)'
  BY <1>0, <1>1, <1>4, CommitRowInOwn DEF UpdateFollowUp
<1>5. ASSUME NEW j \in Visits,
             RescheduleVisit(j) \/ \E phase \in Phase : UpdateVisit(j, phase)
      PROVE  OwnInStep(k)'
  BY <1>0, <1>1, <1>5, CommitRowInOwn DEF RescheduleVisit, UpdateVisit
<1>6. ASSUME NEW e \in Settlements, NEW phase \in Phase, UpdateEnrollment(e, phase)
      PROVE  OwnInStep(k)'
  BY <1>0, <1>1, <1>6, CommitRowInOwn DEF UpdateEnrollment
<1>7. ASSUME NEW e \in Settlements, NEW N \in SUBSET Visits, NEW u \in User,
             Enroll(e, N, u)
      PROVE  OwnInStep(k)'
  <2> DEFINE st == WithStatus(StudentOf[e], "enrolled")
  <2>1. StudentOf[k] = StudentOf[e] \/ InOwn(items, st, k)
    BY <1>0 DEF InOwn, WithStatus
  <2>2. CommitRow(st, e, Recorded(rows, e, N), items, u)
    BY <1>7 DEF Enroll
  <2> HIDE DEF st
  <2>. QED
    BY <1>0, <1>1, <2>1, <2>2, CommitRowInOwn
<1>8. ASSUME NEW j \in Visits, NEW e \in Settlements, NEW phase \in Phase,
             NEW won \in BOOLEAN, NEW N \in SUBSET Visits, NEW u \in User,
             UpdateVisitEnrolled(j, phase, won, e, N, u)
      PROVE  OwnInStep(k)'
  <2> DEFINE s    == StudentOf[j]
             st   == WithStatus(s, "enrolled")
             rws  == Recorded([rows EXCEPT ![j].phase = phase, ![j].won = won], e, N)
             src  == SyncSource(items, rws, e, st, employment, u)
             its  == SyncStudents(src, st, employment, {s})
  <2>1. /\ CommitRow(st, j, CloseRows(rws, st, {s}), its, None)
        /\ SourceAllowed(items, rws, e, st, employment, u)
    BY <1>8 DEF UpdateVisitEnrolled
  <2>2. s \in Student /\ e \in WorkKey /\ u \in User \cup {None} /\ st \in [Student -> StudentRow]
    BY <1>1, EnrollingEdits
  <2>3. rws \in [WorkKey -> Row]
    <3>1. [rows EXCEPT ![j].phase = phase, ![j].won = won] \in [WorkKey -> Row]
      BY DEF TypeOK, Row
    <3>. QED
      BY <3>1, RecordedType
  <2>4. StudentOf[k] = s \/ st[StudentOf[k]] = student[StudentOf[k]]
    BY <1>0 DEF WithStatus
  <2> HIDE DEF st, rws
  <2>5. src \in [WorkKey -> Item]
    BY <1>0, <2>1, <2>2, <2>3, SyncSourceType DEF TypeOK
  <2>6. src[k] = items[k]
    BY <1>0, <1>1 DEF SyncSource, Keys
  <2>7. its \in [WorkKey -> Item]
    BY <2>2, <2>5, SyncStudentsType DEF TypeOK
  <2>8. StudentOf[k] = s \/ InOwn(its, st, k)
    BY <1>0, <2>4, <2>6 DEF SyncStudents, InOwn
  <2> HIDE DEF its
  <2>. QED
    BY <1>1, <2>1, <2>7, <2>8, CommitRowInOwn
<1>. QED
  BY <1>2, <1>3, <1>4, <1>5, <1>6, <1>7, <1>8 DEF TaskStep

\* Steps on users: what moves or restates an item keeps it active.
LEMMA UserStepInOwn ==
  ASSUME TypeOK, HandoverInv, UserStep, NEW k \in Keys(OwnKinds), OwnInStep(k)
  PROVE  OwnInStep(k)'
<1>0. /\ student \in [Student -> StudentRow] /\ items \in [WorkKey -> Item]
      /\ InOwn(items, student, k) /\ k \in WorkKey /\ StudentOf[k] \in Student
  BY OwnIsInOwn DEF TypeOK, Keys
<1>1. ASSUME NEW u \in User, Suspend(u) \/ Resume(u)
      PROVE  OwnInStep(k)'
  <2>1. student' = student /\ (Active(items'[k]) <=> Active(items[k]))
    BY <1>0, <1>1 DEF Suspend, Resume, Restatus, Active, ActiveStatus, Item
  <2>. QED
    BY <1>0, <2>1, OwnIsInOwn DEF InOwn
<1>2. ASSUME NEW u \in User, DeleteUser(u)
      PROVE  OwnInStep(k)'
  <2> DEFINE S  == Assigned(u)
             st == [s \in Student |->
                      IF s \in S /\ Following(student[s]) THEN Reset(student[s])
                      ELSE student[s]]
             x  == StudentOf[k]
             t  == Unassign(S)
  <2>1. ASSUME NEW s \in Student
        PROVE  Reset(student[s]) \in StudentRow /\ Reset(student[s]).agent = student[s].agent
    BY <1>0 DEF Reset, StudentRow, StudentStatus
  <2>2. st \in [Student -> StudentRow] /\ SameAgents(st)
    BY <1>0, <2>1 DEF SameAgents
  <2>3. ApplyAssignment(st, t)
    BY <1>2 DEF DeleteUser
  <2>4. x \notin S => st[x] = student[x]
    BY <1>0
  <2>5. x \in S => x \in Changed(t)
    BY DEF Changed, Unassign, Assigned, User
  <2>6. student' = Owning(st, t) /\ (x \in S => student'[x].agent # st[x].agent)
    BY <1>0, <2>2, <2>3, OwningAgents DEF ApplyAssignment, Unassign, Assigned, SameAgents, User
  <2> HIDE DEF st, t
  <2>7. OwnInStep(k)' \/ (items'[k] = items[k] /\ student'[x] = st[x])
    BY <2>2, <2>3, AssignmentInOwn
  <2>8. CASE items'[k] = items[k] /\ student'[x] = st[x]
    BY <1>0, <2>4, <2>6, <2>8, OwnIsInOwn DEF InOwn
  <2>. QED
    BY <2>7, <2>8
<1>3. ASSUME NEW T \in SUBSET Student, NEW t, DOMAIN t = T, NEW S, NEW From, NEW to, NEW u,
             student' = Owning(student, t), From \subseteq ActiveStatus, to \in ActiveStatus,
             items' = MoveItems(SyncStudents(items, Owning(student, t), employment, T),
                                S, From, to, u)
      PROVE  OwnInStep(k)'
  <2> DEFINE st  == Owning(student, t)
             its == SyncStudents(items, st, employment, T)
  <2>1. StudentOf[k] \in T \/ InOwn(items, st, k)
    BY <1>0, <1>3 DEF InOwn, Owning
  <2>2. InOwn(its, st, k)
    BY <2>1, SyncStudentsInOwn
  <2>3. Active(items'[k]) <=> Active(its[k])
    BY <1>0, <1>3 DEF MoveItems, Active
  <2>. QED
    BY <1>3, <2>2, <2>3, OwnIsInOwn DEF InOwn
<1>4. ASSUME NEW u \in User, StartHandover(u)
      PROVE  OwnInStep(k)'
  <2> DEFINE P == {s \in Assigned(u) : Following(student[s])}
             T == Assigned(u) \ P
  <2>1. T \in SUBSET Student /\ DOMAIN Unassign(T) = T
    BY DEF Assigned, Unassign
  <2>2. /\ student' = Owning(student, Unassign(T))
        /\ items' = MoveItems(SyncStudents(items, Owning(student, Unassign(T)), employment, T),
                              P, {"open", "blocked_suspension"}, "blocked_handover", u)
    BY <1>4 DEF StartHandover
  <2> HIDE DEF P, T
  <2>. QED
    BY <1>3, <2>1, <2>2 DEF ActiveStatus
<1>5. ASSUME NEW u \in User, NEW b \in Agent, NEW S \in SUBSET Student,
             ExecuteTransfer(u, b, S)
      PROVE  OwnInStep(k)'
  <2>1. /\ student' = Owning(student, [s \in S |-> b]) /\ DOMAIN [s \in S |-> b] = S
        /\ items' = MoveItems(SyncStudents(items, Owning(student, [s \in S |-> b]),
                                          employment, S),
                              S, {"blocked_handover"}, "open", b)
    BY <1>5 DEF ExecuteTransfer
  <2>. QED
    BY <1>3, <2>1 DEF ActiveStatus
<1>. QED
  BY <1>1, <1>2, <1>4, <1>5 DEF UserStep

\* No step puts a lead or a help request out of step but the one reclaim.
LEMMA StepInOwn ==
  ASSUME TypeOK, HandoverInv, [Next]_vars, NEW k \in Keys(OwnKinds), OwnInStep(k)
  PROVE  OwnInStep(k)' \/ LostByReclaim(k)
<1>1. CASE UNCHANGED vars
  BY <1>1, OwnIsInOwn DEF vars
<1>. QED
  BY <1>1, StudentStepInOwn, TaskStepInOwn, UserStepInOwn DEF Next

\* A help request is active exactly while its student asks for help, is not terminal and
\* is followed: the reclaim that loses a lead takes the help flag back.
THEOREM HelpInStep == Spec => []HelpIffAsked
<1>1. Init => HelpIffAsked
  BY DEF Init, HelpIffAsked, OwnInStep, OwnWanted, Keys, NoItem, NoStudent, Active,
         ActiveStatus, Following
<1>2. ASSUME TypeOK, HandoverInv, HelpIffAsked, [Next]_vars
      PROVE  HelpIffAsked'
  <2> SUFFICES ASSUME NEW k \in Keys({"help_request"})
               PROVE  OwnInStep(k)'
    BY DEF HelpIffAsked, Keys
  <2>1. k \in Keys(OwnKinds) /\ KindOf[k] = "help_request"
    BY DEF Keys, OwnKinds
  <2>2. OwnInStep(k)
    BY <1>2 DEF HelpIffAsked
  <2>3. CASE LostByReclaim(k)
    <3>1. ~OwnWanted(k, student[StudentOf[k]]) /\ ~OwnWanted(k, student'[StudentOf[k]])
      BY <2>1, <2>3 DEF LostByReclaim, OwnWanted, Following
    <3>. QED
      BY <2>2, <2>3, <3>1, OwnIsInOwn DEF InOwn, LostByReclaim
  <2>. QED
    BY <1>2, <2>1, <2>2, <2>3, StepInOwn
<1>. QED
  BY <1>1, <1>2, TypeCorrect, HandoverInvariant, PTL DEF Spec

\* The lead of a student is lost only by a reclaim to the agent the student already has.
THEOREM LeadLostByReclaim == Spec => LeadLostOnlyByReclaim
<1>1. ASSUME TypeOK, HandoverInv, [Next]_vars
      PROVE  [\A k \in Keys({"lead_contact"}) :
                OwnInStep(k) /\ ~OwnInStep(k)' =>
                   LET s == StudentOf[k] IN
                   /\ student[s].status = "invalid" /\ Following(student'[s])
                   /\ student'[s].agent = student[s].agent]_vars
  <2>1. \A k \in Keys({"lead_contact"}) : k \in Keys(OwnKinds)
    BY DEF Keys, OwnKinds
  <2>. QED
    BY <1>1, <2>1, StepInOwn DEF LostByReclaim
<1>. QED
  BY <1>1, TypeCorrect, HandoverInvariant, PTL DEF Spec, LeadLostOnlyByReclaim
-----------------------------------------------------------------------------
(* Source rows and their items. *)

\* A student that is not in the table has no source rows.
Bare(st, rws, k) == st[StudentOf[k]].status = "absent" => rws[k].phase = "absent"

\* TerminalHasNoTask and SourceMirrored, for one key and any tables.
NoTaskLeft(st, rws, its, k) ==
  KindOf[k] \in TaskKinds /\ Terminal(st[StudentOf[k]]) =>
     /\ ~Active(its[k])
     /\ rws[k].phase = "planned" => rws[k].won \/ rws[k].named
\* An item that mirrors a record is active as long as the record asks for it.
Mirrored(st, rws, its, k) ==
  KindOf[k] \notin OwnKinds =>
     /\ Active(its[k]) => SourceOpen(rws[k])
     /\ \/ SourceOpen(rws[k]) /\ KindOf[k] = "enrollment_settlement"
        \/ /\ rws[k].phase = "planned" /\ ~rws[k].won /\ ~rws[k].named
           /\ Following(st[StudentOf[k]])
        => Active(its[k])

\* What the tail of a handler finds, and what it leaves.
Ready(st, rws, its, k)   == Bare(st, rws, k) /\ Mirrored(st, rws, its, k)
\* An item that is ready and has no task left.
Settled(st, rws, its, k) == Ready(st, rws, its, k) /\ NoTaskLeft(st, rws, its, k)
AllReady(st, rws, its)   == \A k \in WorkKey : Ready(st, rws, its, k)
AllSettled(st, rws, its) == \A k \in WorkKey : Settled(st, rws, its, k)

\* Closing rows and synchronising items settles the students it is about, whatever
\* tasks they had when they became terminal, and leaves the others as they were.
LEMMA SyncSettles ==
  ASSUME NEW st, NEW rws \in [WorkKey -> Row], NEW its, NEW emp, NEW S, NEW k \in WorkKey,
         Ready(st, rws, its, k), StudentOf[k] \in S \/ Settled(st, rws, its, k)
  PROVE  Settled(st, CloseRows(rws, st, S), SyncStudents(its, st, emp, S), k)
<1> DEFINE row == st[StudentOf[k]]
           r   == rws[k]
           r2  == CloseRows(rws, st, S)[k]
           new == SyncStudents(its, st, emp, S)[k]
<1>0. r \in Row /\ ~(Terminal(row) /\ (Following(row) \/ row.status = "absent"))
  BY DEF Terminal, Following
<1>1. CASE StudentOf[k] \notin S
  BY <1>1 DEF CloseRows, SyncStudents, Settled, Ready, Bare, Mirrored, NoTaskLeft
<1>2. CASE StudentOf[k] \in S /\ KindOf[k] \in OwnKinds
  <2>1. KindOf[k] \notin TaskKinds /\ r2 = r
    BY <1>2 DEF CloseRows, TaskKinds, OwnKinds
  <2>. QED
    BY <1>2, <2>1 DEF Settled, Ready, Bare, Mirrored, NoTaskLeft
<1>3. CASE StudentOf[k] \in S /\ KindOf[k] \in TaskKinds
  <2>0. KindOf[k] \notin OwnKinds /\ KindOf[k] # "enrollment_settlement"
    BY <1>3 DEF TaskKinds, OwnKinds
  <2>1. new = IF Terminal(row) /\ Active(its[k]) THEN Cancelled ELSE its[k]
    BY <1>3, <2>0 DEF SyncStudents
  <2>2. r2 = IF Terminal(row) /\ r.phase = "planned" /\ ~r.won /\ ~r.named
             THEN [r EXCEPT !.phase = "closed"] ELSE r
    BY <1>3 DEF CloseRows
  <2>3. [r EXCEPT !.phase = "closed"].phase = "closed"
    BY <1>0 DEF Row
  <2>4. ~Active(Cancelled)
    BY DEF Cancelled, Active, ActiveStatus
  <2> HIDE DEF r2, new
  <2>5. NoTaskLeft(st, CloseRows(rws, st, S), SyncStudents(its, st, emp, S), k)
    BY <2>1, <2>2, <2>3, <2>4 DEF NoTaskLeft, r2, new
  <2>6. Mirrored(st, CloseRows(rws, st, S), SyncStudents(its, st, emp, S), k)
    BY <1>0, <2>0, <2>1, <2>2, <2>3, <2>4 DEF Ready, Mirrored, SourceOpen, r2, new
  <2>7. Bare(st, CloseRows(rws, st, S), k)
    BY <1>0, <2>2 DEF Ready, Bare, r2
  <2>. QED
    BY <2>5, <2>6, <2>7 DEF Settled, Ready
<1>4. CASE StudentOf[k] \in S /\ KindOf[k] \notin OwnKinds \cup TaskKinds
  <2>1. r2 = r /\ new = its[k]
    BY <1>4 DEF CloseRows, SyncStudents
  <2>. QED
    BY <1>4, <2>1 DEF Settled, Ready, Bare, Mirrored, NoTaskLeft
<1>. QED
  BY <1>1, <1>2, <1>3, <1>4

\* Synchronising a source row mirrors it.
LEMMA SyncSourceMirrors ==
  ASSUME NEW its \in [WorkKey -> Item], NEW rws, NEW j \in WorkKey, NEW st, NEW emp, NEW creator
  PROVE  /\ Mirrored(st, rws, SyncSource(its, rws, j, st, emp, creator), j)
         /\ \A k \in WorkKey \ {j} : SyncSource(its, rws, j, st, emp, creator)[k] = its[k]
<1>1. ASSUME NEW o
      PROVE  Active(Owed(emp, o)) /\ ~Active([status |-> "completed", owner |-> o])
  BY DEF Owed, WorkStatus, Active, ActiveStatus
<1>. QED
  BY <1>1 DEF SyncSource, Mirrored, SourceOpen

\* The tail of a handler on students, or on one source row.
LEMMA CommitSettles ==
  ASSUME NEW st, NEW S, NEW rws \in [WorkKey -> Row], NEW its, AllReady(st, rws, its),
         \A k \in WorkKey : StudentOf[k] \in S \/ NoTaskLeft(st, rws, its, k),
         Commit(st, S, rws, its)
  PROVE  AllSettled(student', rows', items')
BY SyncSettles DEF Commit, AllReady, AllSettled, Settled

\* With one source row synchronised first, which may have been out of step.
LEMMA CommitRowSettles ==
  ASSUME NEW st, NEW j \in WorkKey, NEW rws \in [WorkKey -> Row], NEW its \in [WorkKey -> Item],
         NEW creator, \A k \in WorkKey : Bare(st, rws, k),
         \A k \in WorkKey \ {j} : Mirrored(st, rws, its, k),
         \A k \in WorkKey : StudentOf[k] = StudentOf[j] \/ NoTaskLeft(st, rws, its, k),
         CommitRow(st, j, rws, its, creator)
  PROVE  AllSettled(student', rows', items')
<1> DEFINE src == SyncSource(its, rws, j, st, employment, creator)
<1>1. /\ Mirrored(st, rws, src, j)
      /\ \A k \in WorkKey \ {j} : src[k] = its[k]
  BY SyncSourceMirrors
<1>2. Commit(st, {StudentOf[j]}, rws, src)
  BY DEF CommitRow
<1> HIDE DEF src
<1>3. AllReady(st, rws, src)
  BY <1>1 DEF AllReady, Ready, Mirrored
<1>4. \A k \in WorkKey : StudentOf[k] \in {StudentOf[j]} \/ NoTaskLeft(st, rws, src, k)
  BY <1>1 DEF NoTaskLeft
<1>. QED
  BY <1>2, <1>3, <1>4, CommitSettles

\* Editing students keeps the tables ready unless it takes a student out of the table:
\* a student followed again has nothing planned that an item would be owed for.
LEMMA EditReady ==
  ASSUME AllSettled(student, rows, items), NEW st \in [Student -> StudentRow],
         student \in [Student -> StudentRow],
         \A s \in Student : st[s].status = "absent" => student[s].status = "absent",
         rows \in [WorkKey -> Row]
  PROVE  AllReady(st, rows, items)
<1> SUFFICES ASSUME NEW k \in WorkKey
             PROVE  Ready(st, rows, items, k)
  BY DEF AllReady
<1> DEFINE s == StudentOf[k]
<1>1. /\ s \in Student /\ student[s].status \in StudentStatus
      /\ Settled(student, rows, items, k)
  BY DEF AllSettled, StudentRow
<1>2. Bare(st, rows, k)
  BY <1>1 DEF Settled, Ready, Bare
<1>3. CASE rows[k].phase = "planned" /\ ~rows[k].won /\ ~rows[k].named
  <2>1. KindOf[k] \in TaskKinds => student[s].status = "following"
    BY <1>1, <1>3 DEF Settled, Ready, Bare, NoTaskLeft, Terminal, StudentStatus
  <2>2. KindOf[k] \in TaskKinds \cup OwnKinds \cup {"enrollment_settlement"}
    BY DEF Kinds
  <2>. QED
    BY <1>1, <1>2, <1>3, <2>1, <2>2 DEF Settled, Ready, Mirrored, Following, SourceOpen
<1>4. CASE ~(rows[k].phase = "planned" /\ ~rows[k].won /\ ~rows[k].named)
  BY <1>1, <1>2, <1>4 DEF Settled, Ready, Mirrored
<1>. QED
  BY <1>3, <1>4

\* An assignment, with edits that make nobody terminal but those whose agent changes.
LEMMA AssignmentSettles ==
  ASSUME TypeOK, AllSettled(student, rows, items), NEW st \in [Student -> StudentRow], NEW t,
         \A s \in Student : st[s].status = "absent" => student[s].status = "absent",
         \A s \in Student \ Changed(t) : Terminal(st[s]) => Terminal(student[s]),
         ApplyAssignment(st, t)
  PROVE  AllSettled(student', rows', items')
<1> DEFINE S   == Changed(t)
           st2 == Owning(st, t)
           its == SyncStudents(items, st2, employment, S)
<1>0. /\ student \in [Student -> StudentRow] /\ rows \in [WorkKey -> Row]
      /\ items \in [WorkKey -> Item] /\ st2 \in [Student -> StudentRow]
  BY OwningType DEF TypeOK, ApplyAssignment, TargetsActive
<1>1. \A s \in Student : st2[s].status = st[s].status
  BY OwningAgents
<1>2. AllReady(st2, rows, items)
  BY <1>0, <1>1, EditReady
<1>3. ASSUME NEW k \in WorkKey, StudentOf[k] \notin S
      PROVE  NoTaskLeft(st2, rows, items, k)
  <2>1. Terminal(st2[StudentOf[k]]) => Terminal(student[StudentOf[k]])
    BY <1>1, <1>3 DEF Terminal
  <2>. QED
    BY <2>1 DEF AllSettled, Settled, NoTaskLeft
<1>4. /\ student' = st2 /\ rows' = CloseRows(rows, st2, S)
      /\ items' = FollowAssignment(its, st2, employment, S)
  BY DEF ApplyAssignment
<1> HIDE DEF st2, S
<1>5. ASSUME NEW k \in WorkKey
      PROVE  Settled(st2, CloseRows(rows, st2, S), its, k)
  BY <1>0, <1>2, <1>3, SyncSettles DEF AllReady, Settled
<1>6. ASSUME NEW k \in WorkKey
      PROVE  Active(items'[k]) <=> Active(its[k])
  <2>1. ASSUME NEW u
        PROVE  Active(Owed(employment, u))
    BY DEF Owed, WorkStatus, Active, ActiveStatus
  <2>. QED
    BY <1>4, <2>1 DEF FollowAssignment, Follows
<1> HIDE DEF its
<1>. QED
  BY <1>4, <1>5, <1>6 DEF AllSettled, Settled, Ready, Mirrored, NoTaskLeft

\* The handlers on students.
LEMMA StudentStepSettles ==
  ASSUME TypeOK, HandoverInv, AllSettled(student, rows, items), StudentStep
  PROVE  AllSettled(student', rows', items')
<1>0. /\ student \in [Student -> StudentRow] /\ rows \in [WorkKey -> Row]
      /\ items \in [WorkKey -> Item] /\ StudentOf \in [WorkKey -> Student]
  BY DEF TypeOK
<1>1. ASSUME NEW s \in Student, NEW st \in [Student -> StudentRow],
             \A x \in Student \ {s} : st[x] = student[x], st[s].status # "absent",
             \/ Commit(st, {s}, rows, items)
             \/ \E t : s \in Changed(t) /\ ApplyAssignment(st, t)
      PROVE  AllSettled(student', rows', items')
  <2>1. \A x \in Student : st[x].status = "absent" => student[x].status = "absent"
    BY <1>1
  <2>2. CASE Commit(st, {s}, rows, items)
    <3>1. AllReady(st, rows, items)
      BY <1>0, <1>1, <2>1, EditReady
    <3>2. ASSUME NEW k \in WorkKey
          PROVE  StudentOf[k] \in {s} \/ NoTaskLeft(st, rows, items, k)
      BY <1>0, <1>1 DEF AllSettled, Settled, NoTaskLeft
    <3>. QED
      BY <1>0, <1>1, <2>2, <3>1, <3>2, CommitSettles
  <2>3. ASSUME NEW t, s \in Changed(t), ApplyAssignment(st, t)
        PROVE  AllSettled(student', rows', items')
    BY <1>1, <2>1, <2>3, AssignmentSettles
  <2>. QED
    BY <1>1, <2>2, <2>3
<1>2. ASSUME NEW s \in Student, NEW status \in {"following", "invalid"},
             NEW help \in BOOLEAN, NEW a \in Agent \cup {None},
             CreateStudent(s, status, help, a)
      PROVE  AllSettled(student', rows', items')
  <2> DEFINE st == [student EXCEPT ![s] = [status |-> status, agent |-> None, help |-> help]]
  <2>1. student[s].agent = None
    BY <1>2 DEF CreateStudent, Present, HandoverInv, AbsentUnassigned
  <2>2. /\ st \in [Student -> StudentRow] /\ st[s].status # "absent"
        /\ \A x \in Student \ {s} : st[x] = student[x]
    BY <1>0 DEF StudentRow, StudentStatus
  <2>3. a # None => s \in Changed([x \in {s} |-> a])
    BY <2>1 DEF Changed
  <2>4. \/ Commit(st, {s}, rows, items)
        \/ a # None /\ ApplyAssignment(st, [x \in {s} |-> a])
    BY <1>2 DEF CreateStudent
  <2> HIDE DEF st
  <2>. QED
    BY <1>1, <2>2, <2>3, <2>4
<1>3. ASSUME NEW s \in Student, NEW status \in StudentStatus, NEW help \in BOOLEAN,
             NEW a \in Agent \cup {None}, UpdateStudent(s, status, help, a)
      PROVE  AllSettled(student', rows', items')
  <2> DEFINE st == [student EXCEPT ![s].status = status, ![s].help = help]
  <2>1. /\ st \in [Student -> StudentRow] /\ st[s].status = status
        /\ \A x \in Student \ {s} : st[x] = student[x]
    BY <1>0 DEF StudentRow
  <2>2. status # "absent"
    BY <1>3 DEF UpdateStudent
  <2>3. a # student[s].agent => s \in Changed([x \in {s} |-> a])
    BY DEF Changed
  <2>4. \/ Commit(st, {s}, rows, items)
        \/ a # student[s].agent /\ ApplyAssignment(st, [x \in {s} |-> a])
    BY <1>3 DEF UpdateStudent
  <2> HIDE DEF st
  <2>. QED
    BY <1>1, <2>1, <2>2, <2>3, <2>4
<1>4. ASSUME NEW s \in Student, ToggleHelp(s)
      PROVE  AllSettled(student', rows', items')
  <2> DEFINE st == [student EXCEPT ![s].help = ~@]
  <2>1. /\ st \in [Student -> StudentRow] /\ st[s].status = student[s].status
        /\ \A x \in Student \ {s} : st[x] = student[x]
    BY <1>0 DEF StudentRow
  <2>2. Commit(st, {s}, rows, items) /\ student[s].status # "absent"
    BY <1>4 DEF ToggleHelp, Present
  <2> HIDE DEF st
  <2>. QED
    BY <1>1, <2>1, <2>2
<1>5. ASSUME NEW s \in Student, InvalidateEnrollment(s)
      PROVE  AllSettled(student', rows', items')
  <2> DEFINE st == WithStatus(s, "invalid")
  <2>1. /\ st \in [Student -> StudentRow] /\ st[s].status = "invalid"
        /\ \A x \in Student \ {s} : st[x] = student[x]
    BY <1>0 DEF StudentRow, StudentStatus, WithStatus
  <2>2. Commit(st, {s}, rows, items)
    BY <1>5 DEF InvalidateEnrollment
  <2> HIDE DEF st
  <2>. QED
    BY <1>1, <2>1, <2>2
<1>6. ASSUME NEW s \in Student, DeleteStudent(s)
      PROVE  AllSettled(student', rows', items')
  <2> SUFFICES ASSUME NEW k \in WorkKey
               PROVE  Settled(student', rows', items', k)
    BY DEF AllSettled
  <2>1. CASE StudentOf[k] = s
    <3>1. student'[StudentOf[k]] = NoStudent /\ rows'[k] = NoRow /\ items'[k] = NoItem
      BY <1>0, <1>6, <2>1 DEF DeleteStudent
    <3>. QED
      BY <3>1 DEF Settled, Ready, Bare, Mirrored, NoTaskLeft, NoStudent, NoRow, NoItem,
                  Active, ActiveStatus, SourceOpen, Terminal
  <2>2. CASE StudentOf[k] # s
    <3>1. /\ student'[StudentOf[k]] = student[StudentOf[k]]
          /\ rows'[k] = rows[k] /\ items'[k] = items[k]
      BY <1>0, <1>6, <2>2 DEF DeleteStudent
    <3>. QED
      BY <3>1 DEF AllSettled, Settled, Ready, Bare, Mirrored, NoTaskLeft
  <2>. QED
    BY <2>1, <2>2
<1>7. ASSUME NEW S, NEW a, AssignStudents(S, a)
      PROVE  AllSettled(student', rows', items')
  BY <1>0, <1>7, AssignmentSettles DEF AssignStudents
<1>8. ASSUME NEW t, StaleReassign(t)
      PROVE  AllSettled(student', rows', items')
  BY <1>0, <1>8, AssignmentSettles DEF StaleReassign
<1>9. ASSUME NEW S \in SUBSET Student, NEW a \in Agent \cup {None}, ReclaimInvalid(S, a)
      PROVE  AllSettled(student', rows', items')
  <2> DEFINE st == [s \in Student |-> IF s \in S THEN Reset(student[s]) ELSE student[s]]
  <2>1. ASSUME NEW s \in Student
        PROVE  Reset(student[s]) \in StudentRow /\ Reset(student[s]).status = "following"
    BY ZenonT(60), <1>0 DEF Reset, StudentRow, StudentStatus
  <2>2. /\ st \in [Student -> StudentRow]
        /\ \A s \in Student : st[s].status = "absent" => student[s].status = "absent"
        /\ \A s \in Student : Terminal(st[s]) => Terminal(student[s])
    BY <1>0, <2>1 DEF Terminal
  <2>3. ApplyAssignment(st, [s \in S |-> a])
    BY <1>9 DEF ReclaimInvalid
  <2> HIDE DEF st
  <2>. QED
    BY <2>2, <2>3, AssignmentSettles
<1>. QED
  BY <1>2, <1>3, <1>4, <1>5, <1>6, <1>7, <1>8, <1>9 DEF StudentStep

\* Recording the enrollment of a student, when rows K of that student changed too:
\* the other rows still have the items they are owed, and so have the other students.
LEMMA RecordingSettles ==
  ASSUME TypeOK, AllSettled(student, rows, items), NEW s \in Student,
         NEW e \in Settlements, StudentOf[e] = s, NEW N \in SUBSET Visits,
         \A k \in N : StudentOf[k] = s, NEW K, \A k \in K : StudentOf[k] = s,
         NEW rws \in [WorkKey -> Row], \A k \in WorkKey \ K : rws[k] = rows[k]
  PROVE  LET st == WithStatus(s, "enrolled")
             rec == Recorded(rws, e, N)
         IN \A k \in WorkKey :
              /\ Bare(st, rec, k)
              /\ k \in K \cup {e} \/ Mirrored(st, rec, items, k)
              /\ StudentOf[k] = s \/ NoTaskLeft(st, rec, items, k)
<1> DEFINE st == WithStatus(s, "enrolled")
           rec == Recorded(rws, e, N)
<1> SUFFICES ASSUME NEW k \in WorkKey
             PROVE  /\ Bare(st, rec, k)
                    /\ k \in K \cup {e} \/ Mirrored(st, rec, items, k)
                    /\ StudentOf[k] = s \/ NoTaskLeft(st, rec, items, k)
  OBVIOUS
<1>0. /\ student \in [Student -> StudentRow] /\ Settled(student, rows, items, k)
      /\ StudentOf[k] \in Student
  BY DEF TypeOK, AllSettled
<1>1. st[s].status = "enrolled" /\ (StudentOf[k] # s => st[StudentOf[k]] = student[StudentOf[k]])
  BY <1>0 DEF WithStatus, StudentRow
<1>2. /\ k \notin N \cup {e} => rec[k] = rws[k]
      /\ k \in N \ {e} => /\ rec[k].phase = rws[k].phase /\ rec[k].won = rws[k].won
                          /\ rec[k] = rws[k] \/ rec[k].named
  BY DEF Recorded, Row
<1>3. k \in N => KindOf[k] \notin OwnKinds \cup {"enrollment_settlement"}
  BY DEF Visits, Keys, VisitKinds, OwnKinds
<1> HIDE DEF st, rec
<1>4. CASE StudentOf[k] # s
  <2>1. rec[k] = rows[k]
    BY <1>2, <1>4
  <2>. QED
    BY <1>0, <1>1, <1>4, <2>1 DEF Settled, Ready, Bare, Mirrored, NoTaskLeft
<1>5. CASE StudentOf[k] = s
  <2>1. Bare(st, rec, k)
    BY <1>1, <1>5 DEF Bare
  <2>2. ASSUME k \notin K \cup {e}
        PROVE  Mirrored(st, rec, items, k)
    BY <1>0, <1>1, <1>2, <1>3, <1>5, <2>2 DEF Settled, Ready, Mirrored, SourceOpen, Following
  <2>. QED
    BY <1>5, <2>1, <2>2
<1>. QED
  BY <1>4, <1>5

\* The handlers on follow-ups, visits and enrollments.
LEMMA TaskStepSettles ==
  ASSUME TypeOK, AllSettled(student, rows, items), TaskStep
  PROVE  AllSettled(student', rows', items')
<1>0. /\ student \in [Student -> StudentRow] /\ rows \in [WorkKey -> Row]
      /\ items \in [WorkKey -> Item] /\ employment \in [User -> EmploymentStatus]
  BY DEF TypeOK
<1>1. ASSUME NEW j \in WorkKey, NEW rws \in [WorkKey -> Row],
             \A k \in WorkKey \ {j} : rws[k] = rows[k], Present(StudentOf[j]),
             NEW creator, CommitRow(student, j, rws, items, creator)
      PROVE  AllSettled(student', rows', items')
  <2>1. ASSUME NEW k \in WorkKey
        PROVE  /\ Bare(student, rws, k)
               /\ k = j \/ Mirrored(student, rws, items, k)
               /\ StudentOf[k] = StudentOf[j] \/ NoTaskLeft(student, rws, items, k)
    <3>1. CASE k = j
      BY <1>1, <3>1 DEF Bare, Present
    <3>2. CASE k # j
      BY <1>1, <3>2 DEF AllSettled, Settled, Ready, Bare, Mirrored, NoTaskLeft
    <3>. QED
      BY <3>1, <3>2
  <2>. QED
    BY <1>0, <1>1, <2>1, CommitRowSettles
<1>2. ASSUME NEW k \in WorkKey, RowPresent(k)
      PROVE  Present(StudentOf[k])
  BY <1>2 DEF RowPresent, Present, AllSettled, Settled, Ready, Bare
<1>3. ASSUME NEW k \in Keys(TaskKinds), NEW u \in User, CreateTask(k, u)
      PROVE  AllSettled(student', rows', items')
  <2> DEFINE rws == [rows EXCEPT ![k].phase = "planned"]
  <2>1. rws \in [WorkKey -> Row]
    BY <1>0, WithPhaseType DEF Phase, Keys
  <2>2. \A j \in WorkKey \ {k} : rws[j] = rows[j]
    OBVIOUS
  <2>3. Present(StudentOf[k]) /\ CommitRow(student, k, rws, items, u)
    BY <1>3 DEF CreateTask
  <2> HIDE DEF rws
  <2>. QED
    BY <1>1, <2>1, <2>2, <2>3 DEF Keys
<1>4. ASSUME NEW k \in WorkKey, NEW phase \in Phase, RowPresent(k),
             CommitRow(student, k, [rows EXCEPT ![k].phase = phase], items, None)
      PROVE  AllSettled(student', rows', items')
  <2> DEFINE rws == [rows EXCEPT ![k].phase = phase]
  <2>1. rws \in [WorkKey -> Row]
    BY <1>0, WithPhaseType
  <2>2. \A j \in WorkKey \ {k} : rws[j] = rows[j]
    OBVIOUS
  <2> HIDE DEF rws
  <2>. QED
    BY <1>1, <1>2, <1>4, <2>1, <2>2 DEF rws
<1>5. ASSUME NEW k \in FollowUps, NEW phase \in Phase, UpdateFollowUp(k, phase)
      PROVE  AllSettled(student', rows', items')
  BY <1>4, <1>5 DEF UpdateFollowUp, FollowUps, Keys
<1>6. ASSUME NEW e \in Settlements, NEW phase \in Phase, UpdateEnrollment(e, phase)
      PROVE  AllSettled(student', rows', items')
  BY <1>4, <1>6 DEF UpdateEnrollment, Settlements, Keys
<1>7. ASSUME NEW k \in FollowUps, DeleteFollowUp(k)
      PROVE  AllSettled(student', rows', items')
  <2> DEFINE rws == [rows EXCEPT ![k] = NoRow]
             its == [items EXCEPT ![k] = Cancel(@)]
  <2>1. k \in WorkKey /\ KindOf[k] = "scheduled_follow_up"
    BY DEF FollowUps, Keys
  <2>2. rws \in [WorkKey -> Row]
    BY <1>0 DEF NoRow, Row, Phase
  <2>3. rws[k].phase = "absent" /\ ~SourceOpen(rws[k]) /\ ~Active(its[k])
    BY <1>0, <2>1 DEF NoRow, SourceOpen, Cancel, Cancelled, Active, ActiveStatus
  <2>4. \A j \in WorkKey \ {k} : rws[j] = rows[j] /\ its[j] = items[j]
    BY <1>0
  <2>5. Commit(student, {StudentOf[k]}, rws, its)
    BY <1>7 DEF DeleteFollowUp
  <2> HIDE DEF rws, its
  <2>6. ASSUME NEW j \in WorkKey
        PROVE  Settled(student, rws, its, j)
    <3>1. CASE j = k
      BY <2>3, <3>1 DEF Settled, Ready, Bare, Mirrored, NoTaskLeft
    <3>2. CASE j # k
      BY <2>4, <3>2 DEF AllSettled, Settled, Ready, Bare, Mirrored, NoTaskLeft
    <3>. QED
      BY <3>1, <3>2
  <2>7. AllReady(student, rws, its) /\ \A j \in WorkKey : NoTaskLeft(student, rws, its, j)
    BY <2>6 DEF AllReady, Settled
  <2>. QED
    BY <2>2, <2>5, <2>7, CommitSettles
<1>8. ASSUME NEW k \in Visits, RescheduleVisit(k)
      PROVE  AllSettled(student', rows', items')
  <2>1. k \in WorkKey /\ RowPresent(k) /\ CommitRow(student, k, rows, items, None)
    BY <1>8 DEF RescheduleVisit, RowPresent, Visits, Keys
  <2>. QED
    BY <1>0, <1>1, <1>2, <2>1
<1>9. ASSUME NEW k \in Visits, NEW phase \in Phase, UpdateVisit(k, phase)
      PROVE  AllSettled(student', rows', items')
  <2> DEFINE rws == [rows EXCEPT ![k].phase = phase, ![k].won = FALSE]
  <2>1. rws \in [WorkKey -> Row]
    BY <1>0 DEF Row
  <2>2. \A j \in WorkKey \ {k} : rws[j] = rows[j]
    BY <1>0
  <2>3. k \in WorkKey /\ RowPresent(k) /\ CommitRow(student, k, rws, items, None)
    BY <1>9 DEF UpdateVisit, Visits, Keys
  <2> HIDE DEF rws
  <2>. QED
    BY <1>1, <1>2, <2>1, <2>2, <2>3
<1>10. ASSUME NEW e \in Settlements, NEW N \in SUBSET Visits, NEW u \in User,
              Enroll(e, N, u)
       PROVE  AllSettled(student', rows', items')
  <2> DEFINE s   == StudentOf[e]
             st  == WithStatus(s, "enrolled")
             rec == Recorded(rows, e, N)
  <2>1. s \in Student /\ e \in WorkKey /\ \A k \in N : StudentOf[k] = s
    BY <1>10 DEF Enroll, Nameable, Settlements, Keys
  <2>2. /\ \A k \in WorkKey : Bare(st, rec, k)
        /\ \A k \in WorkKey \ {e} : Mirrored(st, rec, items, k)
        /\ \A k \in WorkKey : StudentOf[k] = s \/ NoTaskLeft(st, rec, items, k)
    <3>1. \A k \in WorkKey :
              /\ Bare(st, rec, k)
              /\ k \in {} \cup {e} \/ Mirrored(st, rec, items, k)
              /\ StudentOf[k] = s \/ NoTaskLeft(st, rec, items, k)
      BY <1>0, <2>1, RecordingSettles
    <3>. QED
      BY <3>1
  <2>3. rec \in [WorkKey -> Row]
    BY <1>0, RecordedType
  <2>4. CommitRow(st, e, rec, items, u)
    BY <1>10 DEF Enroll
  <2> HIDE DEF st, rec
  <2>. QED
    BY <1>0, <2>1, <2>2, <2>3, <2>4, CommitRowSettles
<1>11. ASSUME NEW k \in Visits, NEW e \in Settlements, NEW phase \in Phase,
              NEW won \in BOOLEAN, NEW N \in SUBSET Visits, NEW u \in User,
              UpdateVisitEnrolled(k, phase, won, e, N, u)
       PROVE  AllSettled(student', rows', items')
  <2> DEFINE s    == StudentOf[k]
             st   == WithStatus(s, "enrolled")
             rws  == [rows EXCEPT ![k].phase = phase, ![k].won = won]
             rec  == Recorded(rws, e, N)
             src  == SyncSource(items, rec, e, st, employment, u)
             rws2 == CloseRows(rec, st, {s})
             its  == SyncStudents(src, st, employment, {s})
  <2>1. /\ s \in Student /\ k \in WorkKey /\ e \in WorkKey /\ StudentOf[e] = s /\ k # e
        /\ \A j \in N : StudentOf[j] = s
        /\ u \in User \cup {None}
    BY <1>11 DEF UpdateVisitEnrolled, Nameable, MayRecord, Settlements, Visits, Keys, VisitKinds
  <2>2. rws \in [WorkKey -> Row]
    BY <1>0 DEF Row
  <2>3. \A j \in WorkKey \ {k} : rws[j] = rows[j]
    BY <1>0
  <2>4. CommitRow(st, k, rws2, its, None) /\ SourceAllowed(items, rec, e, st, employment, u)
    BY <1>11 DEF UpdateVisitEnrolled
  <2>5. st \in [Student -> StudentRow]
    BY <2>1, EnrollingEdits
  <2> HIDE DEF rws
  <2>6. rec \in [WorkKey -> Row]
    BY <2>2, RecordedType
  <2>7. \A j \in WorkKey :
          /\ Bare(st, rec, j)
          /\ j \in {k} \cup {e} \/ Mirrored(st, rec, items, j)
          /\ StudentOf[j] = s \/ NoTaskLeft(st, rec, items, j)
    BY <2>1, <2>2, <2>3, RecordingSettles
  <2> HIDE DEF st, rec
  <2>8. src \in [WorkKey -> Item]
    BY <1>0, <2>1, <2>4, <2>5, <2>6, SyncSourceType
  <2>9. Mirrored(st, rec, src, e) /\ \A j \in WorkKey \ {e} : src[j] = items[j]
    BY <1>0, <2>1, SyncSourceMirrors
  <2> HIDE DEF src
  <2>10. rws2 \in [WorkKey -> Row] /\ its \in [WorkKey -> Item]
    BY <1>0, <2>5, <2>6, <2>8, CloseRowsType, SyncStudentsType
  <2>11. ASSUME NEW j \in WorkKey, j # k
         PROVE  Settled(st, rws2, its, j)
    <3>1. Mirrored(st, rec, src, j)
      BY <2>7, <2>9, <2>11 DEF Mirrored
    <3>2. StudentOf[j] = s \/ NoTaskLeft(st, rec, src, j)
      BY <2>1, <2>7, <2>9 DEF NoTaskLeft
    <3>. QED
      BY <2>6, <2>7, <3>1, <3>2, SyncSettles DEF Ready, Settled
  <2>12. Bare(st, rws2, k)
    BY <2>1, <1>0 DEF Bare, st, WithStatus, StudentRow
  <2> HIDE DEF rws2, its
  <2>13. /\ \A j \in WorkKey : Bare(st, rws2, j)
         /\ \A j \in WorkKey \ {k} : Mirrored(st, rws2, its, j)
         /\ \A j \in WorkKey : StudentOf[j] = StudentOf[k] \/ NoTaskLeft(st, rws2, its, j)
    BY <2>11, <2>12 DEF Settled, Ready
  <2>. QED
    BY <2>1, <2>4, <2>10, <2>13, CommitRowSettles
<1>. QED
  BY <1>3, <1>5, <1>6, <1>7, <1>8, <1>9, <1>10, <1>11 DEF TaskStep

\* The handlers on users: what moves or restates an item keeps it active.
LEMMA UserStepSettles ==
  ASSUME TypeOK, AllSettled(student, rows, items), UserStep
  PROVE  AllSettled(student', rows', items')
<1>0. /\ student \in [Student -> StudentRow] /\ rows \in [WorkKey -> Row]
      /\ items \in [WorkKey -> Item] /\ StudentOf \in [WorkKey -> Student]
  BY DEF TypeOK
<1>1. ASSUME NEW u \in User, Suspend(u) \/ Resume(u)
      PROVE  AllSettled(student', rows', items')
  <2>1. /\ student' = student /\ rows' = rows
        /\ \A k \in WorkKey : Active(items'[k]) <=> Active(items[k])
    BY <1>0, <1>1 DEF Suspend, Resume, Restatus, Active, ActiveStatus, Item
  <2>. QED
    BY <2>1 DEF AllSettled, Settled, Ready, Bare, Mirrored, NoTaskLeft
<1>2. ASSUME NEW u \in User, DeleteUser(u)
      PROVE  AllSettled(student', rows', items')
  <2> DEFINE S  == Assigned(u)
             st == [s \in Student |->
                      IF s \in S /\ Following(student[s]) THEN Reset(student[s])
                      ELSE student[s]]
  <2>1. ASSUME NEW s \in Student
        PROVE  Reset(student[s]) \in StudentRow /\ Reset(student[s]).status = "following"
    BY <1>0 DEF Reset, StudentRow, StudentStatus
  <2>2. /\ st \in [Student -> StudentRow]
        /\ \A s \in Student : st[s].status = "absent" => student[s].status = "absent"
        /\ \A s \in Student : Terminal(st[s]) => Terminal(student[s])
    BY <1>0, <2>1 DEF Terminal
  <2>3. ApplyAssignment(st, Unassign(S))
    BY <1>2 DEF DeleteUser
  <2> HIDE DEF st, S
  <2>. QED
    BY <2>2, <2>3, AssignmentSettles
<1>3. ASSUME NEW t, NEW T, NEW S, NEW From, NEW to, NEW u,
             student' = Owning(student, t), rows' = CloseRows(rows, Owning(student, t), T),
             From \subseteq ActiveStatus, to \in ActiveStatus,
             items' = MoveItems(SyncStudents(items, Owning(student, t), employment, T),
                                S, From, to, u)
      PROVE  AllSettled(student', rows', items')
  <2> DEFINE st  == Owning(student, t)
             its == SyncStudents(items, st, employment, T)
  <2>1. ASSUME NEW k \in WorkKey
        PROVE  Settled(st, rows', its, k)
    <3>1. st[StudentOf[k]].status = student[StudentOf[k]].status
      BY <1>0, OwningAgents
    <3> HIDE DEF st
    <3>2. Settled(st, rows, items, k)
      BY <3>1 DEF AllSettled, Settled, Ready, Bare, Mirrored, NoTaskLeft, Terminal, Following
    <3>. QED
      BY <1>0, <1>3, <3>2, SyncSettles DEF Settled, st
  <2>2. ASSUME NEW k \in WorkKey
        PROVE  Active(items'[k]) <=> Active(its[k])
    BY <1>3, <2>2 DEF MoveItems, Active
  <2> HIDE DEF st, its
  <2>. QED
    BY <1>3, <2>1, <2>2 DEF AllSettled, Settled, Ready, Bare, Mirrored, NoTaskLeft, st
<1>4. ASSUME NEW u \in User, StartHandover(u)
      PROVE  AllSettled(student', rows', items')
  <2> DEFINE P  == {s \in Assigned(u) : Following(student[s])}
             T  == Assigned(u) \ P
             st == Owning(student, Unassign(T))
  <2>1. /\ student' = st /\ rows' = CloseRows(rows, st, T)
        /\ items' = MoveItems(SyncStudents(items, st, employment, T),
                              P, {"open", "blocked_suspension"}, "blocked_handover", u)
    BY <1>4 DEF StartHandover
  <2> HIDE DEF P, T
  <2>. QED
    BY <1>3, <2>1 DEF ActiveStatus
<1>5. ASSUME NEW u \in User, NEW b \in Agent, NEW S \in SUBSET Student,
             ExecuteTransfer(u, b, S)
      PROVE  AllSettled(student', rows', items')
  <2> DEFINE st == Owning(student, [s \in S |-> b])
  <2>1. /\ student' = st /\ rows' = CloseRows(rows, st, S)
        /\ items' = MoveItems(SyncStudents(items, st, employment, S),
                              S, {"blocked_handover"}, "open", b)
    BY <1>5 DEF ExecuteTransfer
  <2>. QED
    BY <1>3, <2>1 DEF ActiveStatus
<1>. QED
  BY <1>1, <1>2, <1>4, <1>5 DEF UserStep

\* The invariant of this group.
SettledInv == AllSettled(student, rows, items)

\* Rows and items start settled, and every handler leaves them so.
LEMMA SettledInvariant == Spec => []SettledInv
<1>1. Init => SettledInv
  BY DEF Init, SettledInv, AllSettled, Settled, Ready, Bare, Mirrored, NoTaskLeft,
         NoStudent, NoRow, NoItem, Active, ActiveStatus, SourceOpen, Terminal
<1>2. ASSUME TypeOK, HandoverInv, SettledInv, [Next]_vars
      PROVE  SettledInv'
  <2>1. CASE UNCHANGED vars
    BY <1>2, <2>1 DEF SettledInv, vars, AllSettled, Settled, Ready, Bare, Mirrored, NoTaskLeft
  <2>2. CASE StudentStep
    BY <1>2, <2>2, StudentStepSettles DEF SettledInv
  <2>3. CASE TaskStep
    BY <1>2, <2>3, TaskStepSettles DEF SettledInv
  <2>4. CASE UserStep
    BY <1>2, <2>4, UserStepSettles DEF SettledInv
  <2>. QED
    BY <1>2, <2>1, <2>2, <2>3, <2>4 DEF Next
<1>. QED
  BY <1>1, <1>2, TypeCorrect, HandoverInvariant, PTL DEF Spec

\* Nothing is left to follow up once a student is terminal.
THEOREM TerminalIsClosed == Spec => []TerminalHasNoTask
<1>1. SettledInv => TerminalHasNoTask
  BY DEF SettledInv, AllSettled, Settled, NoTaskLeft, TerminalHasNoTask, Keys
<1>. QED
  BY <1>1, SettledInvariant, PTL

\* Tasks, settlements and their items say the same, but of the planned tasks of a
\* terminal student, and of a visit that enrolled its student.
THEOREM RowsAreMirrored == Spec => []SourceMirrored
<1>1. SettledInv => SourceMirrored
  BY DEF SettledInv, AllSettled, Settled, Ready, Mirrored, SourceMirrored
<1>. QED
  BY <1>1, SettledInvariant, PTL

-----------------------------------------------------------------------------
(* Enrollment records. *)

\* A step keeps the record of student s, or gives it one.
KeepsRecord(s) ==
  \/ /\ student'[s].status = "enrolled" => student[s].status = "enrolled"
     /\ \A e \in Settlements : StudentOf[e] = s /\ RowPresent(e) => RowPresent(e)'
  \/ \E e \in Settlements : StudentOf[e] = s /\ RowPresent(e)'
  \/ student'[s].status # "enrolled"

\* Closing the rows of terminal students leaves the settlements alone.
LEMMA ClosingKeepsSettlements ==
  ASSUME NEW rws, NEW st, NEW S, NEW e \in Settlements
  PROVE  CloseRows(rws, st, S)[e] = rws[e]
BY DEF CloseRows, Settlements, Keys, TaskKinds

\* An edit that enrolls nobody keeps all records.
LEMMA EditKeepsRecords ==
  ASSUME NEW st, NEW S, \A x \in Student : st[x].status = "enrolled" => student[x].status = "enrolled",
         NEW s \in Student, student'[s].status = st[s].status, rows' = CloseRows(rows, st, S)
  PROVE  KeepsRecord(s)
BY ClosingKeepsSettlements DEF KeepsRecord, RowPresent

\* An assignment enrolls nobody that the edits before it did not.
LEMMA AssignmentKeepsRecords ==
  ASSUME NEW st \in [Student -> StudentRow], NEW t, ApplyAssignment(st, t),
         \A x \in Student : st[x].status = "enrolled" => student[x].status = "enrolled",
         NEW s \in Student
  PROVE  KeepsRecord(s)
<1> DEFINE st2 == Owning(st, t)
<1>1. \A x \in Student : st2[x].status = st[x].status
  BY OwningAgents
<1>2. student' = st2 /\ rows' = CloseRows(rows, st2, Changed(t))
  BY DEF ApplyAssignment
<1> HIDE DEF st2
<1>. QED
  BY <1>1, <1>2, EditKeepsRecords

\* The handlers on students never enroll one, and take the rows only of one they delete.
LEMMA StudentStepKeepsRecords ==
  ASSUME TypeOK, StudentStep, NEW s \in Student
  PROVE  KeepsRecord(s)
<1>0. /\ student \in [Student -> StudentRow] /\ rows \in [WorkKey -> Row]
      /\ StudentOf \in [WorkKey -> Student]
  BY DEF TypeOK
<1>1. ASSUME NEW st \in [Student -> StudentRow],
             \A x \in Student : st[x].status = "enrolled" => student[x].status = "enrolled",
             \/ \E S : Commit(st, S, rows, items)
             \/ \E t : ApplyAssignment(st, t)
      PROVE  KeepsRecord(s)
  BY <1>1, EditKeepsRecords, AssignmentKeepsRecords DEF Commit
<1>2. ASSUME NEW x \in Student, NEW status \in {"following", "invalid"},
             NEW help \in BOOLEAN, NEW a \in Agent \cup {None},
             CreateStudent(x, status, help, a)
      PROVE  KeepsRecord(s)
  <2> DEFINE st == [student EXCEPT ![x] = [status |-> status, agent |-> None, help |-> help]]
  <2>1. st \in [Student -> StudentRow]
    BY <1>0 DEF StudentRow, StudentStatus
  <2>2. \A y \in Student : st[y].status = "enrolled" => student[y].status = "enrolled"
    BY <1>0
  <2>3. (\E S : Commit(st, S, rows, items)) \/ \E t : ApplyAssignment(st, t)
    BY <1>2 DEF CreateStudent
  <2> HIDE DEF st
  <2>. QED
    BY <1>1, <2>1, <2>2, <2>3
<1>3. ASSUME NEW x \in Student, NEW status \in StudentStatus, NEW help \in BOOLEAN,
             NEW a \in Agent \cup {None}, UpdateStudent(x, status, help, a)
      PROVE  KeepsRecord(s)
  <2> DEFINE st == [student EXCEPT ![x].status = status, ![x].help = help]
  <2>1. st \in [Student -> StudentRow] /\ st[x].status = status
        /\ \A y \in Student \ {x} : st[y] = student[y]
    BY <1>0 DEF StudentRow
  <2>2. status = "enrolled" => student[x].status = "enrolled"
    BY <1>3 DEF UpdateStudent, KeepsEnrollment
  <2>3. (\E S : Commit(st, S, rows, items)) \/ \E t : ApplyAssignment(st, t)
    BY <1>3 DEF UpdateStudent
  <2> HIDE DEF st
  <2>. QED
    BY <1>1, <2>1, <2>2, <2>3
<1>4. ASSUME NEW x \in Student, ToggleHelp(x)
      PROVE  KeepsRecord(s)
  <2> DEFINE st == [student EXCEPT ![x].help = ~@]
  <2>1. /\ st \in [Student -> StudentRow]
        /\ \A y \in Student : st[y].status = student[y].status
    BY <1>0 DEF StudentRow
  <2>2. Commit(st, {x}, rows, items)
    BY <1>4 DEF ToggleHelp
  <2> HIDE DEF st
  <2>. QED
    BY <1>1, <2>1, <2>2
<1>5. ASSUME NEW x \in Student, InvalidateEnrollment(x)
      PROVE  KeepsRecord(s)
  <2> DEFINE st == WithStatus(x, "invalid")
  <2>1. st \in [Student -> StudentRow] /\ st[x].status = "invalid"
        /\ \A y \in Student \ {x} : st[y] = student[y]
    BY <1>0 DEF StudentRow, StudentStatus, WithStatus
  <2>2. Commit(st, {x}, rows, items)
    BY <1>5 DEF InvalidateEnrollment
  <2> HIDE DEF st
  <2>. QED
    BY <1>1, <2>1, <2>2
<1>6. ASSUME NEW x \in Student, DeleteStudent(x)
      PROVE  KeepsRecord(s)
  <2>1. CASE x = s
    BY <1>0, <1>6, <2>1 DEF DeleteStudent, KeepsRecord, NoStudent
  <2>2. CASE x # s
    BY <1>0, <1>6, <2>2 DEF DeleteStudent, KeepsRecord, RowPresent, Settlements, Keys
  <2>. QED
    BY <2>1, <2>2
<1>7. ASSUME NEW S, NEW a, AssignStudents(S, a)
      PROVE  KeepsRecord(s)
  BY <1>0, <1>1, <1>7 DEF AssignStudents
<1>8. ASSUME NEW t, StaleReassign(t)
      PROVE  KeepsRecord(s)
  BY <1>0, <1>1, <1>8 DEF StaleReassign
<1>9. ASSUME NEW S \in SUBSET Student, NEW a \in Agent \cup {None}, ReclaimInvalid(S, a)
      PROVE  KeepsRecord(s)
  <2> DEFINE st == [x \in Student |-> IF x \in S THEN Reset(student[x]) ELSE student[x]]
  <2>1. ASSUME NEW x \in Student
        PROVE  Reset(student[x]) \in StudentRow /\ Reset(student[x]).status = "following"
    BY <1>0 DEF Reset, StudentRow, StudentStatus
  <2>2. /\ st \in [Student -> StudentRow]
        /\ \A x \in Student : st[x].status = "enrolled" => student[x].status = "enrolled"
    BY <1>0, <2>1
  <2>3. ApplyAssignment(st, [x \in S |-> a])
    BY <1>9 DEF ReclaimInvalid
  <2> HIDE DEF st
  <2>. QED
    BY <1>1, <2>2, <2>3
<1>. QED
  BY <1>2, <1>3, <1>4, <1>5, <1>6, <1>7, <1>8, <1>9 DEF StudentStep

\* The handlers on tasks and records enroll a student only together with its record.
LEMMA TaskStepKeepsRecords ==
  ASSUME TypeOK, TaskStep, NEW s \in Student
  PROVE  KeepsRecord(s)
<1>0. /\ student \in [Student -> StudentRow] /\ rows \in [WorkKey -> Row]
      /\ StudentOf \in [WorkKey -> Student]
  BY DEF TypeOK
<1>1. ASSUME NEW rws,
             \A e \in Settlements : RowPresent(e) => rws[e].phase # "absent",
             \/ \E S, its : Commit(student, S, rws, its)
             \/ \E k, its, creator : CommitRow(student, k, rws, its, creator)
      PROVE  KeepsRecord(s)
  <2>1. student' = student /\ \E S : rows' = CloseRows(rws, student, S)
    BY <1>1 DEF CommitRow, Commit
  <2>. QED
    BY <1>1, <2>1, ClosingKeepsSettlements DEF KeepsRecord, RowPresent
<1>2. ASSUME NEW e \in Settlements, NEW base \in [WorkKey -> Row], NEW N \in SUBSET Visits,
             NEW S, rows' = CloseRows(Recorded(base, e, N), WithStatus(StudentOf[e], "enrolled"), S),
             student' = WithStatus(StudentOf[e], "enrolled"),
             \A j \in Settlements : RowPresent(j) => base[j].phase # "absent"
      PROVE  KeepsRecord(s)
  <2>1. /\ Recorded(base, e, N)[e].phase # "absent"
        /\ \A j \in Settlements : RowPresent(j) => Recorded(base, e, N)[j].phase # "absent"
    BY <1>2 DEF Recorded, Settlements, Keys, NoRow, Row
  <2>2. \A j \in Settlements : rows'[j] = Recorded(base, e, N)[j]
    BY <1>2, ClosingKeepsSettlements
  <2>3. StudentOf[e] # s => student'[s] = student[s]
    BY <1>0, <1>2 DEF WithStatus
  <2>. QED
    BY <2>1, <2>2, <2>3 DEF KeepsRecord, RowPresent
<1>3. \A k \in Visits \cup FollowUps \cup Keys(TaskKinds) : k \notin Settlements
  BY DEF Visits, FollowUps, Settlements, Keys, VisitKinds, TaskKinds
<1>4. ASSUME NEW k \in Keys(TaskKinds), NEW u \in User, CreateTask(k, u)
      PROVE  KeepsRecord(s)
  <2> DEFINE rws == [rows EXCEPT ![k].phase = "planned"]
  <2>1. \A e \in Settlements : RowPresent(e) => rws[e].phase # "absent"
    BY <1>0, <1>3 DEF RowPresent, Settlements, Keys
  <2>2. CommitRow(student, k, rws, items, u)
    BY <1>4 DEF CreateTask
  <2> HIDE DEF rws
  <2>. QED
    BY <1>1, <2>1, <2>2
<1>5. ASSUME NEW k \in FollowUps, NEW phase \in Phase, UpdateFollowUp(k, phase)
      PROVE  KeepsRecord(s)
  <2> DEFINE rws == [rows EXCEPT ![k].phase = phase]
  <2>1. \A e \in Settlements : RowPresent(e) => rws[e].phase # "absent"
    BY <1>0, <1>3 DEF RowPresent, Settlements, Keys
  <2>2. CommitRow(student, k, rws, items, None)
    BY <1>5 DEF UpdateFollowUp
  <2> HIDE DEF rws
  <2>. QED
    BY <1>1, <2>1, <2>2
<1>6. ASSUME NEW k \in FollowUps, DeleteFollowUp(k)
      PROVE  KeepsRecord(s)
  <2> DEFINE rws == [rows EXCEPT ![k] = NoRow]
             its == [items EXCEPT ![k] = Cancel(@)]
  <2>1. \A e \in Settlements : RowPresent(e) => rws[e].phase # "absent"
    BY <1>0, <1>3 DEF RowPresent, Settlements, Keys
  <2>2. Commit(student, {StudentOf[k]}, rws, its)
    BY <1>6 DEF DeleteFollowUp
  <2> HIDE DEF rws, its
  <2>. QED
    BY <1>1, <2>1, <2>2
<1>7. ASSUME NEW k \in Visits, RescheduleVisit(k)
      PROVE  KeepsRecord(s)
  BY <1>1, <1>7 DEF RescheduleVisit, RowPresent
<1>8. ASSUME NEW k \in Visits, NEW phase \in Phase, UpdateVisit(k, phase)
      PROVE  KeepsRecord(s)
  <2> DEFINE rws == [rows EXCEPT ![k].phase = phase, ![k].won = FALSE]
  <2>1. \A e \in Settlements : RowPresent(e) => rws[e].phase # "absent"
    BY <1>0, <1>3 DEF RowPresent, Settlements, Keys
  <2>2. CommitRow(student, k, rws, items, None)
    BY <1>8 DEF UpdateVisit
  <2> HIDE DEF rws
  <2>. QED
    BY <1>1, <2>1, <2>2
<1>9. ASSUME NEW e \in Settlements, NEW phase \in Phase, UpdateEnrollment(e, phase)
      PROVE  KeepsRecord(s)
  <2> DEFINE rws == [rows EXCEPT ![e].phase = phase]
  <2>1. phase # "absent" /\ CommitRow(student, e, rws, items, None)
    BY <1>9 DEF UpdateEnrollment
  <2>2. \A j \in Settlements : RowPresent(j) => rws[j].phase # "absent"
    BY <1>0, <2>1 DEF RowPresent, Settlements, Keys, Row
  <2> HIDE DEF rws
  <2>. QED
    BY <1>1, <2>1, <2>2
<1>10. ASSUME NEW e \in Settlements, NEW N \in SUBSET Visits, NEW u \in User, Enroll(e, N, u)
       PROVE  KeepsRecord(s)
  <2>1. \E S : /\ rows' = CloseRows(Recorded(rows, e, N), WithStatus(StudentOf[e], "enrolled"), S)
               /\ student' = WithStatus(StudentOf[e], "enrolled")
    BY <1>10 DEF Enroll, CommitRow, Commit
  <2>. QED
    BY <1>0, <1>2, <2>1 DEF RowPresent
<1>11. ASSUME NEW k \in Visits, NEW e \in Settlements, NEW phase \in Phase,
              NEW won \in BOOLEAN, NEW N \in SUBSET Visits, NEW u \in User,
              UpdateVisitEnrolled(k, phase, won, e, N, u)
       PROVE  KeepsRecord(s)
  <2> DEFINE base == [rows EXCEPT ![k].phase = phase, ![k].won = won]
             st   == WithStatus(StudentOf[k], "enrolled")
             rec  == Recorded(base, e, N)
  <2>1. base \in [WorkKey -> Row]
    BY <1>0 DEF Row
  <2>2. \A j \in Settlements : RowPresent(j) => base[j].phase # "absent"
    BY <1>0, <1>3 DEF RowPresent, Settlements, Keys
  <2>3. StudentOf[e] = StudentOf[k]
    BY <1>11 DEF UpdateVisitEnrolled, MayRecord
  <2>4. /\ rows' = CloseRows(CloseRows(rec, st, {StudentOf[k]}), st, {StudentOf[k]})
        /\ student' = st
    BY <1>11 DEF UpdateVisitEnrolled, CommitRow, Commit
  <2> HIDE DEF base
  <2>5. CloseRows(CloseRows(rec, st, {StudentOf[k]}), st, {StudentOf[k]})
          = CloseRows(rec, st, {StudentOf[k]})
    <3>1. rec \in [WorkKey -> Row]
      BY <2>1, RecordedType
    <3> HIDE DEF rec, st
    <3>2. ASSUME NEW j \in WorkKey
          PROVE  CloseRows(CloseRows(rec, st, {StudentOf[k]}), st, {StudentOf[k]})[j]
                   = CloseRows(rec, st, {StudentOf[k]})[j]
      BY <3>1 DEF CloseRows, Row
    <3>. QED
      BY <3>2 DEF CloseRows
  <2>. QED
    BY <1>2, <2>1, <2>2, <2>3, <2>4, <2>5
<1>. QED
  BY <1>4, <1>5, <1>6, <1>7, <1>9, <1>10, <1>11, <1>8 DEF TaskStep

\* The handlers on users enroll nobody.
LEMMA UserStepKeepsRecords ==
  ASSUME TypeOK, UserStep, NEW s \in Student
  PROVE  KeepsRecord(s)
<1>0. student \in [Student -> StudentRow]
  BY DEF TypeOK
<1>1. ASSUME NEW u \in User, Suspend(u) \/ Resume(u)
      PROVE  KeepsRecord(s)
  BY <1>1 DEF Suspend, Resume, KeepsRecord, RowPresent
<1>2. ASSUME NEW u \in User, DeleteUser(u)
      PROVE  KeepsRecord(s)
  <2> DEFINE st == [x \in Student |->
                      IF x \in Assigned(u) /\ Following(student[x]) THEN Reset(student[x])
                      ELSE student[x]]
  <2>1. ASSUME NEW x \in Student
        PROVE  Reset(student[x]) \in StudentRow /\ Reset(student[x]).status = "following"
    BY <1>0 DEF Reset, StudentRow, StudentStatus
  <2>2. /\ st \in [Student -> StudentRow]
        /\ \A x \in Student : st[x].status = "enrolled" => student[x].status = "enrolled"
    BY <1>0, <2>1
  <2>3. ApplyAssignment(st, Unassign(Assigned(u)))
    BY <1>2 DEF DeleteUser
  <2> HIDE DEF st
  <2>. QED
    BY <2>2, <2>3, AssignmentKeepsRecords
<1>3. ASSUME NEW t, NEW T, student' = Owning(student, t),
             rows' = CloseRows(rows, Owning(student, t), T)
      PROVE  KeepsRecord(s)
  BY <1>0, <1>3, OwningAgents, EditKeepsRecords
<1>4. ASSUME NEW u \in User, StartHandover(u)
      PROVE  KeepsRecord(s)
  BY <1>3, <1>4 DEF StartHandover
<1>5. ASSUME NEW u \in User, NEW b \in Agent, NEW S \in SUBSET Student,
             ExecuteTransfer(u, b, S)
      PROVE  KeepsRecord(s)
  BY <1>3, <1>5 DEF ExecuteTransfer
<1>. QED
  BY <1>1, <1>2, <1>4, <1>5 DEF UserStep

\* A student is enrolled only with an enrollment record, whatever happens to it.
THEOREM EnrolledIsRecorded == Spec => []EnrolledHasRecord
<1>1. Init => EnrolledHasRecord
  BY DEF Init, EnrolledHasRecord, NoStudent
<1>2. ASSUME TypeOK, EnrolledHasRecord, [Next]_vars
      PROVE  EnrolledHasRecord'
  <2>1. CASE UNCHANGED vars
    BY <1>2, <2>1 DEF vars, EnrolledHasRecord, Records, RowPresent
  <2>2. CASE Next
    <3> SUFFICES ASSUME NEW s \in Student, student'[s].status = "enrolled"
                 PROVE  \E e \in Settlements : StudentOf[e] = s /\ RowPresent(e)'
      BY DEF EnrolledHasRecord, Records
    <3>1. KeepsRecord(s)
      BY <1>2, <2>2, StudentStepKeepsRecords, TaskStepKeepsRecords, UserStepKeepsRecords DEF Next
    <3>2. student[s].status = "enrolled" => \E e \in Settlements : StudentOf[e] = s /\ RowPresent(e)
      BY <1>2 DEF EnrolledHasRecord, Records
    <3>. QED
      BY <3>1, <3>2 DEF KeepsRecord
  <2>. QED
    BY <1>2, <2>1, <2>2
<1>. QED
  BY <1>1, <1>2, TypeCorrect, PTL DEF Spec
=============================================================================
