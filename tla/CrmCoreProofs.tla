---------------------------- MODULE CrmCoreProofs ----------------------------
(***************************************************************************)
(* The types of CrmCore, who follows a student, who owns its work and what *)
(* a handover batch counts, for any users, students and work keys.         *)
(*                                                                         *)
(* Who follows whom and owns what takes two layers.  HandoverInv says that *)
(* the students of a leaving user are the pending ones of its batch and    *)
(* that nobody who left follows anyone; it is inductive because every      *)
(* handler but the handover ones either keeps a student's agent or takes   *)
(* it from someone not in handover and gives it to someone active          *)
(* (Reassigns). On top of it AssignedWorkFollowsAgent is inductive: a      *)
(* transfer moves blocked_handover items only, and HandoverInv is what     *)
(* makes the items of the students it transfers blocked_handover.          *)
(*                                                                         *)
(* The counters of a batch are inductive on their own, given the types: a  *)
(* transfer counts what it moves out of what is pending, a deletion only   *)
(* shrinks the sets that the counters bound.  That no pending student is   *)
(* dropped rests on HandoverInv: a handover that starts finds nobody       *)
(* pending.                                                                *)
(***************************************************************************)
EXTENDS CrmCore, FiniteSetTheorems, TLAPS

USE UsersAssumption, KeysAssumption

-----------------------------------------------------------------------------
(* The operators of WorkItems stay within the tables' types. *)

\* An owed item is an item of its owner.
LEMMA OwedType ==
  ASSUME NEW emp \in [User -> EmploymentStatus], NEW u \in User
  PROVE  Owed(emp, u) \in Item /\ Active(Owed(emp, u))
BY DEF Owed, WorkStatus, Item, ItemStatus, ActiveStatus, EmploymentStatus, Active

\* Synchronising the lead or help item of a student gives an item.
LEMMA SyncOwnType ==
  ASSUME NEW emp \in [User -> EmploymentStatus], NEW it \in Item,
         NEW wanted \in BOOLEAN, NEW a \in Agent \cup {None}
  PROVE  SyncOwn(it, wanted, a, emp) \in Item
<1>1. a # None => Owed(emp, a) \in Item
  BY OwedType DEF User
<1>. QED
  BY <1>1 DEF SyncOwn, Item, ItemStatus, Cancelled, User

\* So does synchronising students.
LEMMA SyncStudentsType ==
  ASSUME NEW emp \in [User -> EmploymentStatus], NEW its \in [WorkKey -> Item],
         NEW st \in [Student -> StudentRow], NEW S
  PROVE  SyncStudents(its, st, emp, S) \in [WorkKey -> Item]
<1> SUFFICES ASSUME NEW k \in WorkKey
             PROVE  SyncStudents(its, st, emp, S)[k] \in Item
  BY DEF SyncStudents
<1> DEFINE row == st[StudentOf[k]]
<1>1. row.agent \in Agent \cup {None} /\ OwnWanted(k, row) \in BOOLEAN
  BY DEF StudentRow, OwnWanted, Following
<1>2. SyncOwn(its[k], OwnWanted(k, row), row.agent, emp) \in Item
  BY <1>1, SyncOwnType
<1>3. its[k] \in Item /\ Cancelled \in Item
  BY DEF Cancelled, Item, ItemStatus
<1>. QED
  BY <1>2, <1>3 DEF SyncStudents

\* Closing the tasks of terminal students gives source rows.
LEMMA CloseRowsType ==
  ASSUME NEW rws \in [WorkKey -> Row], NEW st, NEW S
  PROVE  CloseRows(rws, st, S) \in [WorkKey -> Row]
BY DEF CloseRows, Row, Phase

\* The owner of a source item is a user or nobody.
LEMMA SourceOwnerType ==
  ASSUME NEW it \in Item, NEW row \in StudentRow, NEW creator \in User \cup {None}
  PROVE  SourceOwner(it, row, creator) \in User \cup {None}
BY DEF SourceOwner, Item, StudentRow, User

\* Synchronising a source row gives an item when its owner may own it.
LEMMA SyncSourceType ==
  ASSUME NEW emp \in [User -> EmploymentStatus], NEW its \in [WorkKey -> Item],
         NEW st \in [Student -> StudentRow], NEW rws \in [WorkKey -> Row],
         NEW k \in WorkKey, NEW creator \in User \cup {None},
         SourceAllowed(its, rws, k, st, emp, creator)
  PROVE  SyncSource(its, rws, k, st, emp, creator) \in [WorkKey -> Item]
<1> DEFINE owner == SourceOwner(its[k], st[StudentOf[k]], creator)
<1>1. owner \in User \cup {None}
  BY SourceOwnerType
<1>2. SourceOpen(rws[k]) => Owed(emp, owner) \in Item
  BY <1>1, OwedType DEF SourceAllowed, CanOwn
<1>3. [status |-> "completed", owner |-> owner] \in Item
  BY <1>1 DEF Item, ItemStatus
<1>. QED
  BY <1>2, <1>3 DEF SyncSource

\* Items that follow an assignment stay items when their owners may own them.
LEMMA FollowAssignmentType ==
  ASSUME NEW emp \in [User -> EmploymentStatus], NEW its \in [WorkKey -> Item],
         NEW st \in [Student -> StudentRow], NEW S, FollowAllowed(its, st, emp, S)
  PROVE  FollowAssignment(its, st, emp, S) \in [WorkKey -> Item]
<1> SUFFICES ASSUME NEW k \in WorkKey
             PROVE  FollowAssignment(its, st, emp, S)[k] \in Item
  BY DEF FollowAssignment
<1> DEFINE owner == NextOwner(its[k], st[StudentOf[k]])
<1>1. owner \in User \cup {None}
  BY DEF NextOwner, StudentRow, Item, User
<1>2. CASE Follows(its, k, S)
  <2>1. Owed(emp, owner) \in Item
    BY <1>1, <1>2, OwedType DEF FollowAllowed, CanOwn
  <2>. QED
    BY <1>2, <2>1 DEF FollowAssignment
<1>3. CASE ~Follows(its, k, S)
  BY <1>3 DEF FollowAssignment
<1>. QED
  BY <1>2, <1>3

\* A transfer of items gives items.
LEMMA MoveItemsType ==
  ASSUME NEW its \in [WorkKey -> Item], NEW S, NEW From, NEW to \in ItemStatus,
         NEW owner \in User
  PROVE  MoveItems(its, S, From, to, owner) \in [WorkKey -> Item]
BY DEF MoveItems, Item

-----------------------------------------------------------------------------
(* Type correctness. *)

\* The empty tables are well typed.
LEMMA InitTypeOK == Init => TypeOK
BY DEF Init, TypeOK, NoStudent, StudentRow, StudentStatus, NoRow, Row, Phase, NoItem,
       Item, ItemStatus, EmploymentStatus, NoBatch, Batch, User

\* The shared tail of the handlers keeps the types.
LEMMA CommitTypeOK ==
  ASSUME TypeOK, NEW st \in [Student -> StudentRow], NEW S,
         NEW rws \in [WorkKey -> Row], NEW its \in [WorkKey -> Item],
         Commit(st, S, rws, its)
  PROVE  TypeOK'
BY SyncStudentsType, CloseRowsType DEF TypeOK, Commit

\* So does a transaction that also synchronises one source row.
LEMMA CommitRowTypeOK ==
  ASSUME TypeOK, NEW st \in [Student -> StudentRow], NEW k \in WorkKey,
         NEW rws \in [WorkKey -> Row], NEW its \in [WorkKey -> Item],
         NEW creator \in User \cup {None}, CommitRow(st, k, rws, its, creator)
  PROVE  TypeOK'
<1>1. SyncSource(its, rws, k, st, employment, creator) \in [WorkKey -> Item]
  BY SyncSourceType DEF TypeOK, CommitRow
<1>. QED
  BY <1>1, CommitTypeOK DEF CommitRow

\* Giving students to agents, or to nobody, gives student rows.
LEMMA OwningType ==
  ASSUME NEW st \in [Student -> StudentRow], NEW t,
         \A s \in DOMAIN t : t[s] \in Agent \cup {None}
  PROVE  Owning(st, t) \in [Student -> StudentRow]
<1> SUFFICES ASSUME NEW s \in Student, s \in DOMAIN t
             PROVE  [st[s] EXCEPT !.agent = t[s]] \in StudentRow
  BY DEF Owning
<1>. QED
  BY DEF StudentRow

\* An assignment keeps the types but that of the employment, which it leaves alone.
LEMMA ApplyAssignmentTypeOK ==
  ASSUME TypeOK, NEW st \in [Student -> StudentRow], NEW t, ApplyAssignment(st, t)
  PROVE  /\ student' \in [Student -> StudentRow]
         /\ rows' \in [WorkKey -> Row]
         /\ items' \in [WorkKey -> Item]
         /\ batch' \in [User -> Batch]
<1> DEFINE st2 == Owning(st, t)
           its == SyncStudents(items, st2, employment, Changed(t))
<1>1. st2 \in [Student -> StudentRow]
  BY OwningType DEF ApplyAssignment, TargetsActive
<1>2. its \in [WorkKey -> Item]
  BY <1>1, SyncStudentsType DEF TypeOK
<1>3. FollowAssignment(its, st2, employment, Changed(t)) \in [WorkKey -> Item]
  BY <1>1, <1>2, FollowAssignmentType DEF TypeOK, ApplyAssignment
<1>4. CloseRows(rows, st2, Changed(t)) \in [WorkKey -> Row]
  BY CloseRowsType DEF TypeOK
<1>. QED
  BY <1>1, <1>3, <1>4 DEF ApplyAssignment, TypeOK

\* Every handler on students keeps the types.
LEMMA StudentStepTypeOK == ASSUME TypeOK, StudentStep PROVE TypeOK'
<1>1. ASSUME NEW s \in Student, NEW status \in {"following", "invalid"},
             NEW help \in BOOLEAN, NEW a \in Agent \cup {None},
             CreateStudent(s, status, help, a)
      PROVE  TypeOK'
  <2> DEFINE st == [student EXCEPT ![s] = [status |-> status, agent |-> None, help |-> help]]
  <2>1. st \in [Student -> StudentRow]
    BY DEF TypeOK, StudentRow, StudentStatus
  <2>2. rows \in [WorkKey -> Row] /\ items \in [WorkKey -> Item]
    BY DEF TypeOK
  <2>3. CASE a = None
    BY <1>1, <2>1, <2>2, <2>3, CommitTypeOK DEF CreateStudent
  <2>4. CASE a # None
    BY <1>1, <2>1, <2>4, ApplyAssignmentTypeOK DEF CreateStudent, TypeOK
  <2>. QED
    BY <2>3, <2>4
<1>2. ASSUME NEW s \in Student, NEW status \in StudentStatus, NEW help \in BOOLEAN,
             NEW a \in Agent \cup {None}, UpdateStudent(s, status, help, a)
      PROVE  TypeOK'
  <2> DEFINE st == [student EXCEPT ![s].status = status, ![s].help = help]
  <2>1. st \in [Student -> StudentRow]
    BY DEF TypeOK, StudentRow
  <2>2. rows \in [WorkKey -> Row] /\ items \in [WorkKey -> Item]
    BY DEF TypeOK
  <2>3. CASE a = student[s].agent
    BY <1>2, <2>1, <2>2, <2>3, CommitTypeOK DEF UpdateStudent
  <2>4. CASE a # student[s].agent
    BY <1>2, <2>1, <2>4, ApplyAssignmentTypeOK DEF UpdateStudent, TypeOK
  <2>. QED
    BY <2>3, <2>4
<1>3. ASSUME NEW s \in Student, ToggleHelp(s)
      PROVE  TypeOK'
  <2>1. [student EXCEPT ![s].help = ~@] \in [Student -> StudentRow]
    BY DEF TypeOK, StudentRow
  <2>. QED
    BY <1>3, <2>1, CommitTypeOK DEF ToggleHelp, TypeOK
<1>4. ASSUME NEW s \in Student, InvalidateEnrollment(s)
      PROVE  TypeOK'
  <2>1. WithStatus(s, "invalid") \in [Student -> StudentRow]
    BY DEF TypeOK, StudentRow, StudentStatus, WithStatus
  <2>. QED
    BY <1>4, <2>1, CommitTypeOK DEF InvalidateEnrollment, TypeOK
<1>5. ASSUME NEW s \in Student, DeleteStudent(s)
      PROVE  TypeOK'
  <2>1. /\ student' \in [Student -> StudentRow]
        /\ rows' \in [WorkKey -> Row]
        /\ items' \in [WorkKey -> Item]
        /\ employment' \in [User -> EmploymentStatus]
    BY <1>5 DEF DeleteStudent, TypeOK, NoStudent, StudentRow, StudentStatus, NoRow, Row,
                Phase, NoItem, Item, ItemStatus
  <2>2. ASSUME NEW u \in User
        PROVE  [batch[u] EXCEPT !.pending = @ \ {s}, !.moved = @ \ {s}] \in Batch
    BY DEF TypeOK, Batch
  <2>3. batch' \in [User -> Batch]
    BY <1>5, <2>2 DEF DeleteStudent
  <2>. QED
    BY <2>1, <2>3 DEF TypeOK
<1>6. ASSUME NEW S \in SUBSET Student, NEW a \in Agent, AssignStudents(S, a)
      PROVE  TypeOK'
  BY <1>6, ApplyAssignmentTypeOK DEF AssignStudents, TypeOK
<1>7. ASSUME NEW S \in SUBSET Student, NEW t \in [S -> Agent \cup {None}],
             StaleReassign(t)
      PROVE  TypeOK'
  BY <1>7, ApplyAssignmentTypeOK DEF StaleReassign, TypeOK
<1>8. ASSUME NEW S \in SUBSET Student, NEW a \in Agent \cup {None}, ReclaimInvalid(S, a)
      PROVE  TypeOK'
  <2> DEFINE st == [s \in Student |-> IF s \in S THEN Reset(student[s]) ELSE student[s]]
  <2>1. ASSUME NEW s \in Student
        PROVE  Reset(student[s]) \in StudentRow
    BY ZenonT(60) DEF TypeOK, Reset, StudentRow, StudentStatus
  <2>2. st \in [Student -> StudentRow]
    BY <2>1 DEF TypeOK
  <2>. QED
    BY <1>8, <2>2, ApplyAssignmentTypeOK DEF ReclaimInvalid, TypeOK
<1>. QED
  BY <1>1, <1>2, <1>3, <1>4, <1>5, <1>6, <1>7, <1>8 DEF StudentStep

\* Recording an enrollment gives source rows.
LEMMA RecordedType ==
  ASSUME NEW rws \in [WorkKey -> Row], NEW e, NEW N
  PROVE  Recorded(rws, e, N) \in [WorkKey -> Row]
<1>1. ASSUME NEW k \in WorkKey
      PROVE  [rws[k] EXCEPT !.named = TRUE] \in Row
  BY DEF Row
<1>2. [NoRow EXCEPT !.phase = "planned"] \in Row
  BY DEF NoRow, Row, Phase
<1>. QED
  BY <1>1, <1>2 DEF Recorded

\* Editing the phase of one source row gives source rows.
LEMMA WithPhaseType ==
  ASSUME NEW rws \in [WorkKey -> Row], NEW k \in WorkKey, NEW phase \in Phase
  PROVE  [rws EXCEPT ![k].phase = phase] \in [WorkKey -> Row]
BY DEF Row

\* Every handler on follow-ups, visits and enrollments keeps the types.
LEMMA TaskStepTypeOK == ASSUME TypeOK, TaskStep PROVE TypeOK'
<1> USE DEF Keys
<1>0. /\ student \in [Student -> StudentRow]
      /\ rows \in [WorkKey -> Row]
      /\ items \in [WorkKey -> Item]
  BY DEF TypeOK
<1>1. ASSUME NEW k \in Keys(TaskKinds), NEW u \in User, CreateTask(k, u)
      PROVE  TypeOK'
  <2>1. [rows EXCEPT ![k].phase = "planned"] \in [WorkKey -> Row]
    BY <1>0, WithPhaseType DEF Phase
  <2>. QED
    BY <1>0, <1>1, <2>1, CommitRowTypeOK DEF CreateTask
<1>2. ASSUME NEW k \in FollowUps, DeleteFollowUp(k)
      PROVE  TypeOK'
  <2>1. [rows EXCEPT ![k] = NoRow] \in [WorkKey -> Row]
    BY <1>0 DEF NoRow, Row, Phase
  <2>2. [items EXCEPT ![k] = Cancel(@)] \in [WorkKey -> Item]
    BY <1>0 DEF Cancel, Cancelled, Item, ItemStatus
  <2>. QED
    BY <1>0, <1>2, <2>1, <2>2, CommitTypeOK DEF DeleteFollowUp
<1>3. ASSUME NEW k \in FollowUps, NEW phase \in Phase, UpdateFollowUp(k, phase)
      PROVE  TypeOK'
  <2>1. [rows EXCEPT ![k].phase = phase] \in [WorkKey -> Row]
    BY <1>0, WithPhaseType DEF FollowUps
  <2>. QED
    BY <1>0, <1>3, <2>1, CommitRowTypeOK DEF UpdateFollowUp, FollowUps
<1>4. ASSUME NEW k \in Visits, RescheduleVisit(k)
      PROVE  TypeOK'
  BY <1>0, <1>4, CommitRowTypeOK DEF RescheduleVisit, Visits
<1>5. ASSUME NEW k \in Visits, NEW phase \in Phase, UpdateVisit(k, phase)
      PROVE  TypeOK'
  <2>1. [rows EXCEPT ![k].phase = phase, ![k].won = FALSE] \in [WorkKey -> Row]
    BY <1>0 DEF Row
  <2>. QED
    BY <1>0, <1>5, <2>1, CommitRowTypeOK DEF UpdateVisit, Visits
<1>6. ASSUME NEW e \in Settlements, NEW phase \in Phase, UpdateEnrollment(e, phase)
      PROVE  TypeOK'
  <2>1. [rows EXCEPT ![e].phase = phase] \in [WorkKey -> Row]
    BY <1>0, WithPhaseType DEF Settlements
  <2>. QED
    BY <1>0, <1>6, <2>1, CommitRowTypeOK DEF UpdateEnrollment, Settlements
<1>7. ASSUME NEW e \in Settlements, NEW N \in SUBSET Visits, NEW u \in User,
             Enroll(e, N, u)
      PROVE  TypeOK'
  <2>1. WithStatus(StudentOf[e], "enrolled") \in [Student -> StudentRow]
    BY <1>0 DEF WithStatus, StudentRow, StudentStatus
  <2>2. Recorded(rows, e, N) \in [WorkKey -> Row]
    BY <1>0, RecordedType
  <2>. QED
    BY <1>0, <1>7, <2>1, <2>2, CommitRowTypeOK DEF Enroll, Settlements
<1>8. ASSUME NEW k \in Visits, NEW e \in Settlements, NEW phase \in Phase,
             NEW won \in BOOLEAN, NEW N \in SUBSET Visits, NEW u \in User,
             UpdateVisitEnrolled(k, phase, won, e, N, u)
      PROVE  TypeOK'
  <2> DEFINE s    == StudentOf[k]
             st   == WithStatus(s, "enrolled")
             rws  == Recorded([rows EXCEPT ![k].phase = phase, ![k].won = won], e, N)
             rws2 == CloseRows(rws, st, {s})
             src  == SyncSource(items, rws, e, st, employment, u)
             its  == SyncStudents(src, st, employment, {s})
  <2>1. st \in [Student -> StudentRow]
    BY <1>0 DEF WithStatus, StudentRow, StudentStatus, Visits
  <2>2. [rows EXCEPT ![k].phase = phase, ![k].won = won] \in [WorkKey -> Row]
    BY <1>0 DEF Row
  <2>3. rws \in [WorkKey -> Row]
    BY <2>2, RecordedType
  <2>4. rws2 \in [WorkKey -> Row]
    BY <2>3, CloseRowsType
  <2>5. SourceAllowed(items, rws, e, st, employment, u)
    BY <1>8 DEF UpdateVisitEnrolled
  <2>6. src \in [WorkKey -> Item]
    <3>1. e \in WorkKey /\ u \in User \cup {None} /\ employment \in [User -> EmploymentStatus]
      BY DEF Settlements, TypeOK
    <3>. QED
      BY <1>0, <2>1, <2>3, <2>5, <3>1, SyncSourceType
  <2>7. its \in [WorkKey -> Item]
    BY <2>1, <2>6, SyncStudentsType DEF TypeOK
  <2>8. CommitRow(st, k, rws2, its, None)
    BY <1>8 DEF UpdateVisitEnrolled
  <2>9. k \in WorkKey
    BY DEF Visits
  <2> HIDE DEF st, rws2, its
  <2>. QED
    BY <2>1, <2>4, <2>7, <2>8, <2>9, CommitRowTypeOK
<1>. QED
  BY <1>1, <1>2, <1>3, <1>4, <1>5, <1>6, <1>7, <1>8 DEF TaskStep

\* Suspending and resuming change items of a user to another status.
LEMMA RestatusType ==
  ASSUME items \in [WorkKey -> Item], NEW u, NEW from, NEW to \in ItemStatus
  PROVE  Restatus(u, from, to) \in [WorkKey -> Item]
BY DEF Restatus, Item

\* A transfer out of a batch leaves a batch.
LEMMA TransferredType ==
  ASSUME NEW bt \in Batch, NEW S \in SUBSET Student,
         Left(bt, S) \in Nat, Cardinality(S) \in Nat
  PROVE  Transferred(bt, S) \in Batch
<1>1. /\ bt.total \in Nat /\ bt.transferred \in Nat
      /\ bt.pending \subseteq Student /\ bt.moved \subseteq Student
  BY DEF Batch
<1>2. bt.transferred + Cardinality(S) \in Nat
  BY <1>1
<1>3. bt.pending \ S \subseteq Student /\ bt.moved \cup S \subseteq Student
  BY <1>1
<1>. QED
  BY <1>1, <1>2, <1>3 DEF Batch, Transferred

\* Every step on users keeps the types; what a batch has left counts its students.
LEMMA UserStepTypeOK == ASSUME TypeOK, UserStep PROVE TypeOK'
<1>0. /\ student \in [Student -> StudentRow]
      /\ rows \in [WorkKey -> Row]
      /\ items \in [WorkKey -> Item]
      /\ employment \in [User -> EmploymentStatus]
      /\ batch \in [User -> Batch]
  BY DEF TypeOK
<1>1. ASSUME NEW u \in User, Suspend(u)
      PROVE  TypeOK'
  <2>1. Restatus(u, "open", "blocked_suspension") \in [WorkKey -> Item]
    BY <1>0, RestatusType DEF ItemStatus, ActiveStatus
  <2>. QED
    BY <1>0, <1>1, <2>1 DEF Suspend, TypeOK, EmploymentStatus
<1>2. ASSUME NEW u \in User, Resume(u)
      PROVE  TypeOK'
  <2>1. Restatus(u, "blocked_suspension", "open") \in [WorkKey -> Item]
    BY <1>0, RestatusType DEF ItemStatus, ActiveStatus
  <2>. QED
    BY <1>0, <1>2, <2>1 DEF Resume, TypeOK, EmploymentStatus
<1>3. ASSUME NEW u \in User, DeleteUser(u)
      PROVE  TypeOK'
  <2> DEFINE st == [s \in Student |->
                      IF s \in Assigned(u) /\ Following(student[s]) THEN Reset(student[s])
                      ELSE student[s]]
  <2>1. ASSUME NEW s \in Student
        PROVE  Reset(student[s]) \in StudentRow
    BY <1>0 DEF Reset, StudentRow, StudentStatus
  <2>2. st \in [Student -> StudentRow]
    BY <1>0, <2>1
  <2>3. ApplyAssignment(st, Unassign(Assigned(u)))
    BY <1>3 DEF DeleteUser
  <2>4. employment' \in [User -> EmploymentStatus]
    BY <1>0, <1>3 DEF DeleteUser, EmploymentStatus
  <2> HIDE DEF st
  <2>. QED
    BY <2>2, <2>3, <2>4, ApplyAssignmentTypeOK DEF TypeOK
<1>4. ASSUME NEW u \in User, StartHandover(u)
      PROVE  TypeOK'
  <2> DEFINE P   == {s \in Assigned(u) : Following(student[s])}
             T   == Assigned(u) \ P
             st  == Owning(student, Unassign(T))
             its == SyncStudents(items, st, employment, T)
             bl  == {"open", "blocked_suspension"}
  <2>1. st \in [Student -> StudentRow]
    BY <1>0, OwningType DEF Unassign
  <2>2. MoveItems(its, P, bl, "blocked_handover", u) \in [WorkKey -> Item]
    <3>1. its \in [WorkKey -> Item]
      BY <1>0, <2>1, SyncStudentsType
    <3>. QED
      BY <3>1, MoveItemsType DEF ItemStatus, ActiveStatus
  <2>3. CloseRows(rows, st, T) \in [WorkKey -> Row]
    BY <1>0, CloseRowsType
  <2>4. P \subseteq Student /\ Cardinality(P) \in Nat
    BY StudentsAssumption, FS_Subset, FS_CardinalityType DEF Assigned
  <2>5. batch' \in [User -> Batch]
    <3>1. Started(P) \in Batch
      BY <2>4 DEF Started, NoBatch, Batch
    <3>. QED
      BY <1>0, <1>4, <3>1 DEF StartHandover
  <2>6. employment' \in [User -> EmploymentStatus]
    BY <1>0, <1>4 DEF StartHandover, EmploymentStatus
  <2>. QED
    BY <1>4, <2>1, <2>2, <2>3, <2>5, <2>6 DEF StartHandover, TypeOK
<1>5. ASSUME NEW u \in User, NEW b \in Agent, NEW S \in SUBSET Student,
             ExecuteTransfer(u, b, S)
      PROVE  TypeOK'
  <2> DEFINE st   == Owning(student, [s \in S |-> b])
             its  == SyncStudents(items, st, employment, S)
  <2>1. st \in [Student -> StudentRow]
    BY <1>0, OwningType
  <2>2. MoveItems(its, S, {"blocked_handover"}, "open", b) \in [WorkKey -> Item]
    <3>1. its \in [WorkKey -> Item]
      BY <1>0, <2>1, SyncStudentsType
    <3>. QED
      BY <3>1, MoveItemsType DEF ItemStatus, ActiveStatus, User
  <2>3. CloseRows(rows, st, S) \in [WorkKey -> Row]
    BY <1>0, CloseRowsType
  <2>4. Cardinality(S) \in Nat /\ Left(batch[u], S) \in Nat
    <3>1. batch[u].pending \subseteq Student /\ S \subseteq batch[u].pending
      BY <1>0, <1>5 DEF ExecuteTransfer, Batch
    <3>2. IsFiniteSet(batch[u].pending)
      BY <3>1, StudentsAssumption, FS_Subset
    <3>3. /\ Cardinality(S) \in Nat /\ Cardinality(batch[u].pending) \in Nat
          /\ Cardinality(S) <= Cardinality(batch[u].pending)
      BY <3>1, <3>2, FS_Subset, FS_CardinalityType
    <3>. QED
      BY <3>3 DEF Left
  <2>5. Transferred(batch[u], S) \in Batch
    <3>1. batch[u] \in Batch
      BY <1>0
    <3>. QED
      BY <2>4, <3>1, TransferredType
  <2>6. employment' \in [User -> EmploymentStatus]
    BY <1>0, <1>5 DEF ExecuteTransfer, EmploymentStatus
  <2>7. batch' \in [User -> Batch]
    BY <1>0, <1>5, <2>5 DEF ExecuteTransfer
  <2>. QED
    BY <1>5, <2>1, <2>2, <2>3, <2>6, <2>7 DEF ExecuteTransfer, TypeOK
<1>. QED
  BY <1>1, <1>2, <1>3, <1>4, <1>5 DEF UserStep

\* The tables hold what their columns allow after any sequence of handlers.
THEOREM TypeCorrect == Spec => []TypeOK
<1>1. ASSUME TypeOK, [Next]_vars
      PROVE  TypeOK'
  <2>1. CASE Next
    BY <1>1, <2>1, StudentStepTypeOK, TaskStepTypeOK, UserStepTypeOK DEF Next
  <2>2. CASE UNCHANGED vars
    BY <1>1, <2>2 DEF vars, TypeOK
  <2>. QED
    BY <1>1, <2>1, <2>2
<1>. QED
  BY <1>1, InitTypeOK, PTL DEF Spec

-----------------------------------------------------------------------------
(* Who follows whom. *)

\* A student that is not in the table has no agent.
AbsentUnassigned ==
  \A s \in Student : student[s].status = "absent" => student[s].agent = None

\* What a handover keeps: the parts are inductive together.
HandoverInv == AbsentUnassigned /\ PendingAreTheLeavers /\ OffboardedFollowNobody

\* Students who keep their agents.
SameAgents(st) == \A s \in Student : st[s].agent = student[s].agent

\* What a step outside the handover may do to the agents of the students.
Reassigns ==
  \A s \in Student :
     \/ student'[s].agent = student[s].agent
     \/ /\ student[s].agent # None => employment[student[s].agent] # "handover_pending"
        /\ student'[s].agent # None => /\ student'[s].agent \in Agent
                                       /\ employment[student'[s].agent] = "active"

\* apply_assignment_changes reassigns, whatever else the handler edited.
LEMMA AssignmentReassigns ==
  ASSUME TypeOK, NEW st \in [Student -> StudentRow], SameAgents(st), NEW t,
         ApplyAssignment(st, t)
  PROVE  Reassigns
<1> SUFFICES ASSUME NEW s \in Student, student'[s].agent # student[s].agent
             PROVE  /\ student[s].agent # None
                         => employment[student[s].agent] # "handover_pending"
                    /\ student'[s].agent # None
                         => /\ student'[s].agent \in Agent
                            /\ employment[student'[s].agent] = "active"
  BY DEF Reassigns
<1>1. student' = Owning(st, t)
  BY DEF ApplyAssignment
<1>2. s \in DOMAIN t /\ student'[s].agent = t[s]
  <2>1. st[s] \in StudentRow /\ st[s].agent = student[s].agent
    BY DEF SameAgents
  <2>2. CASE s \notin DOMAIN t
    BY <1>1, <2>1, <2>2 DEF Owning
  <2>3. CASE s \in DOMAIN t
    BY <1>1, <2>1, <2>3 DEF Owning, StudentRow
  <2>. QED
    BY <2>2, <2>3
<1>3. s \in Changed(t)
  BY <1>2 DEF Changed
<1>. QED
  BY <1>2, <1>3 DEF ApplyAssignment, TargetsActive, NotInHandover

\* A reassignment that changes no employment and no batch keeps both invariants.
LEMMA ReassignsKeepsHandover ==
  ASSUME TypeOK, TypeOK', PendingAreTheLeavers, OffboardedFollowNobody, Reassigns,
         UNCHANGED <<employment, batch>>
  PROVE  PendingAreTheLeavers' /\ OffboardedFollowNobody'
<1>1. ASSUME NEW u \in User, employment[u] = "handover_pending"
      PROVE  Assigned(u)' = Assigned(u)
  <2>1. u # None
    BY DEF User
  <2>. QED
    BY <1>1, <2>1 DEF Reassigns, Assigned
<1>2. PendingAreTheLeavers'
  BY <1>1 DEF PendingAreTheLeavers
<1>3. OffboardedFollowNobody'
  BY DEF OffboardedFollowNobody, Reassigns
<1>. QED
  BY <1>2, <1>3

\* Edits that keep every agent and remove no student.
Edits(st) == /\ SameAgents(st)
             /\ \A s \in Student : st[s].status = "absent" => student[s].status = "absent"

\* An edit that leaves every agent as it is keeps the handover invariant.
LEMMA EditKeepsHandover ==
  ASSUME TypeOK, TypeOK', HandoverInv, NEW st \in [Student -> StudentRow], Edits(st),
         student' = st, UNCHANGED <<employment, batch>>
  PROVE  HandoverInv'
<1>1. Reassigns
  BY DEF Edits, SameAgents, Reassigns
<1>2. AbsentUnassigned'
  BY DEF Edits, SameAgents, HandoverInv, AbsentUnassigned
<1>. QED
  BY <1>1, <1>2, ReassignsKeepsHandover DEF HandoverInv

\* An assignment gives agents only to students in the table.
LEMMA AssignmentKeepsPresence ==
  ASSUME TypeOK, AbsentUnassigned, NEW st \in [Student -> StudentRow], Edits(st),
         NEW t, \A s \in DOMAIN t : st[s].status # "absent", ApplyAssignment(st, t)
  PROVE  AbsentUnassigned'
<1> SUFFICES ASSUME NEW s \in Student, student'[s].status = "absent"
             PROVE  student'[s].agent = None
  BY DEF AbsentUnassigned
<1>1. student' = Owning(st, t) /\ st[s] \in StudentRow
  BY DEF ApplyAssignment
<1>2. CASE s \in DOMAIN t
  BY <1>1, <1>2 DEF Owning, StudentRow
<1>3. CASE s \notin DOMAIN t
  BY <1>1, <1>3 DEF Owning, Edits, SameAgents, AbsentUnassigned
<1>. QED
  BY <1>2, <1>3

\* An assignment keeps the handover invariant, as it takes no student from a leaver.
LEMMA AssignmentKeepsHandover ==
  ASSUME TypeOK, TypeOK', HandoverInv, NEW st \in [Student -> StudentRow], Edits(st),
         NEW t, \A s \in DOMAIN t : st[s].status # "absent", ApplyAssignment(st, t),
         UNCHANGED employment
  PROVE  HandoverInv'
<1>1. Reassigns
  BY AssignmentReassigns DEF Edits
<1>2. AbsentUnassigned'
  BY AssignmentKeepsPresence DEF HandoverInv
<1>3. UNCHANGED <<employment, batch>>
  BY DEF ApplyAssignment
<1>. QED
  BY <1>1, <1>2, <1>3, ReassignsKeepsHandover DEF HandoverInv

\* The handlers on students.
LEMMA StudentStepKeepsHandover ==
  ASSUME TypeOK, TypeOK', HandoverInv, StudentStep
  PROVE  HandoverInv'
<1>0. student \in [Student -> StudentRow]
  BY DEF TypeOK
<1>1. ASSUME NEW s \in Student, NEW status \in {"following", "invalid"},
             NEW help \in BOOLEAN, NEW a \in Agent \cup {None},
             CreateStudent(s, status, help, a)
      PROVE  HandoverInv'
  <2> DEFINE st == [student EXCEPT ![s] = [status |-> status, agent |-> None, help |-> help]]
  <2>1. st \in [Student -> StudentRow] /\ st[s].status = status /\ st[s].agent = None
    BY <1>0 DEF StudentRow, StudentStatus
  <2>2. student[s].agent = None
    BY <1>1 DEF CreateStudent, Present, HandoverInv, AbsentUnassigned
  <2>3. Edits(st)
    BY <1>0, <1>1, <2>1, <2>2 DEF Edits, SameAgents
  <2>4. CASE a = None
    <3>1. student' = st /\ UNCHANGED <<employment, batch>>
      BY <1>1, <2>4 DEF CreateStudent, Commit
    <3>. QED
      BY <2>1, <2>3, <3>1, EditKeepsHandover
  <2>5. CASE a # None
    <3>1. ApplyAssignment(st, [x \in {s} |-> a]) /\ UNCHANGED employment
      BY <1>1, <2>5 DEF CreateStudent
    <3>2. \A x \in DOMAIN [x \in {s} |-> a] : st[x].status # "absent"
      BY <2>1
    <3> HIDE DEF st
    <3>. QED
      BY <2>1, <2>3, <3>1, <3>2, AssignmentKeepsHandover
  <2>. QED
    BY <2>4, <2>5
<1>2. ASSUME NEW s \in Student, NEW status \in StudentStatus, NEW help \in BOOLEAN,
             NEW a \in Agent \cup {None}, UpdateStudent(s, status, help, a)
      PROVE  HandoverInv'
  <2> DEFINE st == [student EXCEPT ![s].status = status, ![s].help = help]
  <2>1. st \in [Student -> StudentRow] /\ st[s].status = status
    BY <1>0 DEF StudentRow
  <2>2. status # "absent"
    BY <1>2 DEF UpdateStudent
  <2>3. Edits(st)
    BY <1>0, <2>2 DEF Edits, SameAgents, StudentRow
  <2>4. CASE a = student[s].agent
    <3>1. student' = st /\ UNCHANGED <<employment, batch>>
      BY <1>2, <2>4 DEF UpdateStudent, Commit
    <3>. QED
      BY <2>1, <2>3, <3>1, EditKeepsHandover
  <2>5. CASE a # student[s].agent
    <3>1. ApplyAssignment(st, [x \in {s} |-> a]) /\ UNCHANGED employment
      BY <1>2, <2>5 DEF UpdateStudent
    <3>2. \A x \in DOMAIN [x \in {s} |-> a] : st[x].status # "absent"
      BY <2>1, <2>2
    <3> HIDE DEF st
    <3>. QED
      BY <2>1, <2>3, <3>1, <3>2, AssignmentKeepsHandover
  <2>. QED
    BY <2>4, <2>5
<1>3. ASSUME NEW s \in Student, ToggleHelp(s)
      PROVE  HandoverInv'
  <2> DEFINE st == [student EXCEPT ![s].help = ~@]
  <2>1. st \in [Student -> StudentRow] /\ Edits(st)
    BY <1>0 DEF StudentRow, Edits, SameAgents
  <2>2. student' = st /\ UNCHANGED <<employment, batch>>
    BY <1>3 DEF ToggleHelp, Commit
  <2>. QED
    BY <2>1, <2>2, EditKeepsHandover
<1>4. ASSUME NEW s \in Student, InvalidateEnrollment(s)
      PROVE  HandoverInv'
  <2> DEFINE st == WithStatus(s, "invalid")
  <2>1. st \in [Student -> StudentRow] /\ Edits(st)
    BY <1>0 DEF StudentRow, StudentStatus, WithStatus, Edits, SameAgents
  <2>2. student' = st /\ UNCHANGED <<employment, batch>>
    BY <1>4 DEF InvalidateEnrollment, Commit
  <2>. QED
    BY <2>1, <2>2, EditKeepsHandover
<1>5. ASSUME NEW s \in Student, DeleteStudent(s)
      PROVE  HandoverInv'
  <2>1. /\ student'[s] = NoStudent
        /\ \A x \in Student \ {s} : student'[x] = student[x]
    BY <1>0, <1>5 DEF DeleteStudent
  <2>2. NoStudent.agent = None /\ NoStudent.status = "absent"
    BY DEF NoStudent
  <2>3. /\ UNCHANGED employment
        /\ \A u \in User : batch'[u].pending = batch[u].pending \ {s}
    <3>1. ASSUME NEW u \in User
          PROVE  batch'[u] = [batch[u] EXCEPT !.pending = @ \ {s}, !.moved = @ \ {s}]
      BY <1>5 DEF DeleteStudent
    <3>2. ASSUME NEW u \in User
          PROVE  batch[u] \in Batch
      BY DEF TypeOK
    <3>3. ASSUME NEW b \in Batch
          PROVE  [b EXCEPT !.pending = @ \ {s}, !.moved = @ \ {s}].pending = b.pending \ {s}
      BY DEF Batch
    <3>. QED
      BY <1>5, <3>1, <3>2, <3>3 DEF DeleteStudent
  <2>4. \A u \in User : Assigned(u)' = Assigned(u) \ {s}
    BY <2>1, <2>2 DEF Assigned, User
  <2>5. PendingAreTheLeavers'
    BY <2>3, <2>4 DEF HandoverInv, PendingAreTheLeavers
  <2>6. OffboardedFollowNobody'
    BY <2>1, <2>2, <2>3 DEF HandoverInv, OffboardedFollowNobody
  <2>7. AbsentUnassigned'
    BY <2>1, <2>2 DEF HandoverInv, AbsentUnassigned
  <2>. QED
    BY <2>5, <2>6, <2>7 DEF HandoverInv
<1>6. Edits(student)
  BY DEF Edits, SameAgents
<1>7. ASSUME NEW S \in SUBSET Student, NEW a \in Agent, AssignStudents(S, a)
      PROVE  HandoverInv'
  <2>1. /\ ApplyAssignment(student, [s \in S |-> a])
        /\ \A s \in DOMAIN [s \in S |-> a] : student[s].status # "absent"
        /\ UNCHANGED employment
    BY <1>7 DEF AssignStudents, Following
  <2>. QED
    BY <1>0, <1>6, <2>1, AssignmentKeepsHandover
<1>8. ASSUME NEW S \in SUBSET Student, NEW t \in [S -> Agent \cup {None}],
             StaleReassign(t)
      PROVE  HandoverInv'
  <2>1. /\ ApplyAssignment(student, t)
        /\ \A s \in DOMAIN t : student[s].status # "absent"
        /\ UNCHANGED employment
    BY <1>8 DEF StaleReassign, Present
  <2>. QED
    BY <1>0, <1>6, <2>1, AssignmentKeepsHandover
<1>9. ASSUME NEW S \in SUBSET Student, NEW a \in Agent \cup {None}, ReclaimInvalid(S, a)
      PROVE  HandoverInv'
  <2> DEFINE st == [s \in Student |-> IF s \in S THEN Reset(student[s]) ELSE student[s]]
  <2>1. ASSUME NEW s \in Student
        PROVE  /\ Reset(student[s]) \in StudentRow
               /\ Reset(student[s]).agent = student[s].agent
               /\ Reset(student[s]).status = "following"
    BY <1>0 DEF Reset, StudentRow, StudentStatus
  <2>2. st \in [Student -> StudentRow] /\ Edits(st)
    BY <1>0, <2>1 DEF Edits, SameAgents
  <2>3. /\ ApplyAssignment(st, [s \in S |-> a])
        /\ \A s \in DOMAIN [s \in S |-> a] : st[s].status # "absent"
        /\ UNCHANGED employment
    BY <1>9, <2>1 DEF ReclaimInvalid
  <2> HIDE DEF st
  <2>. QED
    BY <2>2, <2>3, AssignmentKeepsHandover
<1>. QED
  BY <1>1, <1>2, <1>3, <1>4, <1>5, <1>7, <1>8, <1>9 DEF StudentStep

\* The handlers on follow-ups, visits and enrollments: they enroll at most.
LEMMA EnrollingEdits ==
  ASSUME TypeOK, NEW s \in Student
  PROVE  WithStatus(s, "enrolled") \in [Student -> StudentRow] /\ Edits(WithStatus(s, "enrolled"))
BY DEF TypeOK, StudentRow, StudentStatus, WithStatus, Edits, SameAgents

\* The handlers on tasks and records at most enroll one student.
LEMMA TaskStepEdits ==
  ASSUME TypeOK, TaskStep
  PROVE  /\ UNCHANGED <<employment, batch>>
         /\ \/ student' = student
            \/ \E s \in Student : student' = WithStatus(s, "enrolled")
<1> USE DEF Commit, CommitRow, Keys
<1>1. ASSUME NEW k \in Keys(TaskKinds), NEW u \in User, CreateTask(k, u)
      PROVE  UNCHANGED <<employment, batch, student>>
  BY <1>1 DEF CreateTask
<1>2. ASSUME NEW k \in FollowUps,
             DeleteFollowUp(k) \/ \E phase \in Phase : UpdateFollowUp(k, phase)
      PROVE  UNCHANGED <<employment, batch, student>>
  BY <1>2 DEF DeleteFollowUp, UpdateFollowUp
<1>3. ASSUME NEW k \in Visits,
             RescheduleVisit(k) \/ \E phase \in Phase : UpdateVisit(k, phase)
      PROVE  UNCHANGED <<employment, batch, student>>
  BY <1>3 DEF RescheduleVisit, UpdateVisit
<1>4. ASSUME NEW e \in Settlements, NEW phase \in Phase, UpdateEnrollment(e, phase)
      PROVE  UNCHANGED <<employment, batch, student>>
  BY <1>4 DEF UpdateEnrollment
<1>5. ASSUME NEW e \in Settlements, NEW N \in SUBSET Visits, NEW u \in User,
             Enroll(e, N, u)
      PROVE  /\ UNCHANGED <<employment, batch>>
             /\ \E s \in Student : student' = WithStatus(s, "enrolled")
  BY <1>5 DEF Enroll, Settlements
<1>6. ASSUME NEW k \in Visits, NEW e \in Settlements, NEW phase \in Phase,
             NEW won \in BOOLEAN, NEW N \in SUBSET Visits, NEW u \in User,
             UpdateVisitEnrolled(k, phase, won, e, N, u)
      PROVE  /\ UNCHANGED <<employment, batch>>
             /\ \E s \in Student : student' = WithStatus(s, "enrolled")
  BY <1>6 DEF UpdateVisitEnrolled, Visits
<1>. QED
  BY <1>1, <1>2, <1>3, <1>4, <1>5, <1>6 DEF TaskStep

\* So they keep the handover invariant.
LEMMA TaskStepKeepsHandover ==
  ASSUME TypeOK, TypeOK', HandoverInv, TaskStep
  PROVE  HandoverInv'
<1>1. UNCHANGED <<employment, batch>>
  BY TaskStepEdits
<1>2. CASE student' = student
  <2>1. student \in [Student -> StudentRow] /\ Edits(student)
    BY DEF TypeOK, Edits, SameAgents
  <2>. QED
    BY <1>1, <1>2, <2>1, EditKeepsHandover
<1>3. ASSUME NEW s \in Student, student' = WithStatus(s, "enrolled")
      PROVE  HandoverInv'
  BY <1>1, <1>3, EnrollingEdits, EditKeepsHandover
<1>. QED
  BY <1>2, <1>3, TaskStepEdits

\* The agents of the students after a change of owners.
LEMMA OwningAgents ==
  ASSUME NEW st \in [Student -> StudentRow], NEW t, NEW s \in Student
  PROVE  /\ Owning(st, t)[s].status = st[s].status
         /\ Owning(st, t)[s].agent = IF s \in DOMAIN t THEN t[s] ELSE st[s].agent
<1>1. st[s] \in StudentRow
  OBVIOUS
<1>. QED
  BY <1>1 DEF Owning, StudentRow

\* Deleting a user leaves no student with it, in a handover or not.
LEMMA DeleteUserKeepsHandover ==
  ASSUME TypeOK, TypeOK', HandoverInv, NEW u \in User, DeleteUser(u)
  PROVE  HandoverInv'
<1> DEFINE S  == Assigned(u)
           st == [s \in Student |->
                    IF s \in S /\ Following(student[s]) THEN Reset(student[s])
                    ELSE student[s]]
<1>0. student \in [Student -> StudentRow] /\ u # None
  BY DEF TypeOK, User
<1>1. ASSUME NEW s \in Student
      PROVE  /\ Reset(student[s]) \in StudentRow
             /\ Reset(student[s]).agent = student[s].agent
             /\ Reset(student[s]).status = "following"
  BY <1>0 DEF Reset, StudentRow, StudentStatus
<1>2. st \in [Student -> StudentRow] /\ Edits(st)
  BY <1>0, <1>1 DEF Edits, SameAgents
<1>3. ApplyAssignment(st, Unassign(S))
  BY DEF DeleteUser
<1>4. \A s \in DOMAIN Unassign(S) : st[s].status # "absent"
  <2>1. ASSUME NEW s \in S
        PROVE  student[s].status # "absent"
    BY <1>0 DEF Assigned, HandoverInv, AbsentUnassigned
  <2>. QED
    BY <1>1, <2>1 DEF Unassign, Assigned
<1> HIDE DEF st
<1>5. AbsentUnassigned'
  BY <1>2, <1>3, <1>4, AssignmentKeepsPresence DEF HandoverInv
<1>6. Reassigns
  BY <1>2, <1>3, AssignmentReassigns DEF Edits
<1>7. \A s \in Student : student'[s].agent # u
  <2> SUFFICES ASSUME NEW s \in Student
               PROVE  student'[s].agent # u
    OBVIOUS
  <2>1. student' = Owning(st, Unassign(S))
    BY <1>3 DEF ApplyAssignment
  <2>2. student'[s].agent = IF s \in S THEN None ELSE student[s].agent
    BY <1>2, <2>1, OwningAgents DEF Unassign, Edits, SameAgents
  <2>. QED
    BY <1>0, <2>2 DEF Assigned
<1>8. employment' = [employment EXCEPT ![u] = "offboarded"] /\ UNCHANGED batch
  BY DEF DeleteUser, ApplyAssignment
<1>9. batch'[u].pending = {}
  <2>1. CASE employment[u] = "handover_pending"
    <3>1. S = {}
      BY <1>6, <1>7, <2>1, <1>0 DEF Reassigns, Assigned
    <3>. QED
      BY <1>8, <2>1, <3>1 DEF HandoverInv, PendingAreTheLeavers
  <2>2. CASE employment[u] # "handover_pending"
    BY <1>8, <2>2 DEF HandoverInv, PendingAreTheLeavers
  <2>. QED
    BY <2>1, <2>2
<1>10. ASSUME NEW v \in User, v # u
       PROVE  batch'[v].pending =
                IF employment'[v] = "handover_pending" THEN Assigned(v)' ELSE {}
  <2>1. employment'[v] = employment[v]
    BY <1>8, <1>10 DEF TypeOK
  <2>2. employment[v] = "handover_pending" => Assigned(v)' = Assigned(v)
    <3>1. v # None
      BY DEF User
    <3>. QED
      BY <1>6, <3>1 DEF Reassigns, Assigned
  <2>. QED
    BY <1>8, <2>1, <2>2 DEF HandoverInv, PendingAreTheLeavers
<1>11. employment'[u] = "offboarded"
  BY <1>8 DEF TypeOK
<1>12. PendingAreTheLeavers'
  BY <1>9, <1>10, <1>11 DEF PendingAreTheLeavers
<1>13. OffboardedFollowNobody'
  BY <1>6, <1>7, <1>8 DEF Reassigns, HandoverInv, OffboardedFollowNobody, TypeOK, User
<1>. QED
  BY <1>5, <1>12, <1>13 DEF HandoverInv

\* Starting a handover makes the students still followed pending and unassigns the rest.
LEMMA StartKeepsHandover ==
  ASSUME TypeOK, TypeOK', HandoverInv, NEW u \in User, StartHandover(u)
  PROVE  HandoverInv'
<1> DEFINE P == {s \in Assigned(u) : Following(student[s])}
           T == Assigned(u) \ P
<1>0. student \in [Student -> StudentRow] /\ u # None
  BY DEF TypeOK, User
<1>1. ASSUME NEW s \in Student
      PROVE  /\ student'[s].status = student[s].status
             /\ student'[s].agent = IF s \in T THEN None ELSE student[s].agent
  BY <1>0, <1>1, OwningAgents DEF StartHandover, Unassign
<1>2. Assigned(u)' = P
  BY <1>0, <1>1 DEF Assigned
<1>3. ASSUME NEW v \in User, v # u
      PROVE  Assigned(v)' = Assigned(v)
  <2>1. v # None
    BY DEF User
  <2>. QED
    BY <1>1, <1>3, <2>1 DEF Assigned
<1>4. /\ employment' = [employment EXCEPT ![u] =
                          IF P = {} THEN "offboarded" ELSE "handover_pending"]
      /\ batch' = [batch EXCEPT ![u] = Started(P)]
  BY DEF StartHandover
<1>5. Started(P).pending = P
  BY DEF Started, NoBatch
<1>6. PendingAreTheLeavers'
  BY <1>2, <1>3, <1>4, <1>5 DEF HandoverInv, PendingAreTheLeavers, TypeOK
<1>7. OffboardedFollowNobody'
  BY <1>1, <1>2, <1>4 DEF HandoverInv, OffboardedFollowNobody, TypeOK, User, Assigned
<1>8. AbsentUnassigned'
  BY <1>1 DEF HandoverInv, AbsentUnassigned
<1>. QED
  BY <1>6, <1>7, <1>8 DEF HandoverInv

\* The students of a batch that has any are the ones its user follows.
LEMMA TransferFacts ==
  ASSUME TypeOK, HandoverInv, NEW u \in User, NEW b \in Agent, NEW S \in SUBSET Student,
         ExecuteTransfer(u, b, S)
  PROVE  /\ employment[u] = "handover_pending" /\ employment[b] = "active" /\ b # u
         /\ batch[u].pending = Assigned(u) /\ S \subseteq Assigned(u)
         /\ Left(batch[u], S) = 0 <=> S = Assigned(u)
<1>1. S # {} /\ S \subseteq batch[u].pending /\ employment[b] = "active" /\ b # u
  BY DEF ExecuteTransfer, MayReceive
<1>2. employment[u] = "handover_pending" /\ batch[u].pending = Assigned(u)
  BY <1>1 DEF HandoverInv, PendingAreTheLeavers
<1>3. Left(batch[u], S) = 0 <=> S = Assigned(u)
  <2>1. IsFiniteSet(Assigned(u)) /\ IsFiniteSet(S)
    BY StudentsAssumption, FS_Subset DEF Assigned
  <2>2. /\ Cardinality(S) \in Nat /\ Cardinality(Assigned(u)) \in Nat
        /\ Cardinality(S) = Cardinality(Assigned(u)) => S = Assigned(u)
    BY <1>1, <1>2, <2>1, FS_Subset, FS_CardinalityType
  <2>. QED
    BY <1>2, <2>2 DEF Left
<1>. QED
  BY <1>1, <1>2, <1>3

\* A transfer moves students from the leaver to an active agent, in step with the batch.
LEMMA TransferKeepsHandover ==
  ASSUME TypeOK, TypeOK', HandoverInv, NEW u \in User, NEW b \in Agent,
         NEW S \in SUBSET Student, ExecuteTransfer(u, b, S)
  PROVE  HandoverInv'
<1>0. /\ student \in [Student -> StudentRow] /\ u # None /\ b # None /\ b \in User
      /\ employment[u] = "handover_pending" /\ employment[b] = "active" /\ b # u
      /\ batch[u].pending = Assigned(u) /\ S \subseteq Assigned(u)
  BY TransferFacts DEF TypeOK, User
<1>1. ASSUME NEW s \in Student
      PROVE  /\ student'[s].status = student[s].status
             /\ student'[s].agent = IF s \in S THEN b ELSE student[s].agent
  BY <1>0, <1>1, OwningAgents DEF ExecuteTransfer
<1>2. Assigned(u)' = Assigned(u) \ S
  BY <1>0, <1>1 DEF Assigned
<1>3. ASSUME NEW v \in User, v # u, v # b
      PROVE  Assigned(v)' = Assigned(v)
  BY <1>0, <1>1, <1>3 DEF Assigned
<1>4. /\ employment' = [employment EXCEPT ![u] =
                          IF S = Assigned(u) THEN "offboarded" ELSE "handover_pending"]
      /\ batch' = [batch EXCEPT ![u] = Transferred(batch[u], S)]
  BY <1>0, TransferFacts DEF ExecuteTransfer
<1>5. Transferred(batch[u], S).pending = Assigned(u) \ S
  BY <1>0 DEF Transferred
<1>6. PendingAreTheLeavers'
  <2>1. batch'[u].pending =
          IF employment'[u] = "handover_pending" THEN Assigned(u)' ELSE {}
    BY <1>0, <1>2, <1>4, <1>5 DEF TypeOK
  <2>2. ASSUME NEW v \in User, v # u
        PROVE  batch'[v].pending =
                 IF employment'[v] = "handover_pending" THEN Assigned(v)' ELSE {}
    <3>1. batch'[v] = batch[v] /\ employment'[v] = employment[v]
      BY <1>4, <2>2 DEF TypeOK
    <3>. QED
      BY <1>0, <1>3, <2>2, <3>1 DEF HandoverInv, PendingAreTheLeavers
  <2>. QED
    BY <2>1, <2>2 DEF PendingAreTheLeavers
<1>7. OffboardedFollowNobody'
  <2> SUFFICES ASSUME NEW s \in Student, student'[s].agent # None
               PROVE  student'[s].agent \in Agent /\ employment'[student'[s].agent] # "offboarded"
    BY DEF OffboardedFollowNobody
  <2>1. CASE s \in S
    BY <1>0, <1>1, <1>4, <2>1 DEF TypeOK
  <2>2. CASE s \notin S
    <3>1. /\ student[s].agent \in Agent /\ employment[student[s].agent] # "offboarded"
          /\ student'[s].agent = student[s].agent
      BY <1>1, <2>2 DEF HandoverInv, OffboardedFollowNobody
    <3>2. student[s].agent = u => S # Assigned(u)
      BY <2>2 DEF Assigned
    <3>. QED
      BY <1>4, <3>1, <3>2 DEF TypeOK, User
  <2>. QED
    BY <2>1, <2>2
<1>8. AbsentUnassigned'
  BY <1>0, <1>1 DEF HandoverInv, AbsentUnassigned, Assigned
<1>. QED
  BY <1>6, <1>7, <1>8 DEF HandoverInv

\* The handlers on users keep the handover invariant.
LEMMA UserStepKeepsHandover ==
  ASSUME TypeOK, TypeOK', HandoverInv, UserStep
  PROVE  HandoverInv'
<1>1. ASSUME NEW u \in User, Suspend(u) \/ Resume(u)
      PROVE  HandoverInv'
  <2>1. /\ UNCHANGED <<student, batch>>
        /\ employment[u] # "handover_pending" /\ employment'[u] \notin {"handover_pending", "offboarded"}
        /\ \A v \in User \ {u} : employment'[v] = employment[v]
    BY <1>1 DEF Suspend, Resume, TypeOK
  <2>2. PendingAreTheLeavers'
    BY <2>1 DEF HandoverInv, PendingAreTheLeavers, Assigned
  <2>3. OffboardedFollowNobody'
    BY <2>1 DEF HandoverInv, OffboardedFollowNobody, User
  <2>. QED
    BY <2>1, <2>2, <2>3 DEF HandoverInv, AbsentUnassigned
<1>. QED
  BY <1>1, DeleteUserKeepsHandover, StartKeepsHandover, TransferKeepsHandover DEF UserStep

\* It holds of the empty tables.
LEMMA InitHandover == Init => HandoverInv
BY DEF Init, HandoverInv, AbsentUnassigned, PendingAreTheLeavers, OffboardedFollowNobody,
       NoStudent, NoBatch, User

\* It is a state predicate.
LEMMA StutterKeepsHandover == ASSUME HandoverInv, UNCHANGED vars PROVE HandoverInv'
BY DEF HandoverInv, AbsentUnassigned, PendingAreTheLeavers, OffboardedFollowNobody,
       Assigned, vars

\* The handover invariant, from which the first two theorems follow.
LEMMA HandoverInvariant == Spec => []HandoverInv
<1>1. ASSUME TypeOK, TypeOK', HandoverInv, [Next]_vars
      PROVE  HandoverInv'
  BY <1>1, StudentStepKeepsHandover, TaskStepKeepsHandover, UserStepKeepsHandover,
     StutterKeepsHandover DEF Next
<1>. QED
  BY <1>1, InitHandover, TypeCorrect, PTL DEF Spec

\* The students pending in a batch are exactly those its leaving user still follows:
\* no assignment, edit, reclaim or deletion gives it one more or takes one away.
THEOREM PendingAreLeavers == Spec => []PendingAreTheLeavers
<1>1. HandoverInv => PendingAreTheLeavers
  BY DEF HandoverInv
<1>. QED
  BY <1>1, HandoverInvariant, PTL

\* No student is ever left with somebody who has left.
THEOREM NobodyFollowedByLeaver == Spec => []OffboardedFollowNobody
<1>1. HandoverInv => OffboardedFollowNobody
  BY DEF HandoverInv
<1>. QED
  BY <1>1, HandoverInvariant, PTL

-----------------------------------------------------------------------------
(* Who owns the work. *)

\* One item follows the agent of its student; AssignedWorkFollowsAgent is this for all.
InStep(its, st, emp, k) ==
  Active(its[k]) /\ st[StudentOf[k]].agent # None
    => its[k] = Owed(emp, st[StudentOf[k]].agent)

\* AssignedWorkFollowsAgent says that each item is in step.
LEMMA WorkIsInStep ==
  AssignedWorkFollowsAgent <=> \A k \in WorkKey : InStep(items, student, employment, k)
BY DEF AssignedWorkFollowsAgent, InStep

\* Synchronising students keeps the items in step, and puts the lead and the help
\* request of the students it is about in step whatever they were.
LEMMA SyncStudentsInStep ==
  ASSUME NEW its, NEW st, NEW emp, NEW S, NEW k \in WorkKey,
         \/ InStep(its, st, emp, k)
         \/ StudentOf[k] \in S /\ KindOf[k] \in OwnKinds
  PROVE  InStep(SyncStudents(its, st, emp, S), st, emp, k)
<1> DEFINE row == st[StudentOf[k]]
           new == SyncOwn(its[k], OwnWanted(k, row), row.agent, emp)
<1>1. Active(new) /\ row.agent # None => new = Owed(emp, row.agent)
  BY DEF SyncOwn, Active, ActiveStatus
<1>2. ~Active(Cancelled)
  BY DEF Cancelled, Active, ActiveStatus
<1>. QED
  BY <1>1, <1>2 DEF SyncStudents, InStep

\* Synchronising a source row keeps every item in step.
LEMMA SyncSourceInStep ==
  ASSUME NEW its \in [WorkKey -> Item], NEW rws, NEW j \in WorkKey, NEW st, NEW emp,
         NEW creator, NEW k \in WorkKey, InStep(its, st, emp, k)
  PROVE  InStep(SyncSource(its, rws, j, st, emp, creator), st, emp, k)
<1>1. ASSUME NEW o
      PROVE  ~Active([status |-> "completed", owner |-> o])
  BY DEF Active, ActiveStatus
<1>. QED
  BY <1>1 DEF SyncSource, SourceOwner, InStep

\* After an assignment every item of a student whose agent changed is in step.
LEMMA FollowAssignmentInStep ==
  ASSUME NEW its, NEW st, NEW emp, NEW S, NEW k \in WorkKey,
         \/ InStep(its, st, emp, k)
         \/ StudentOf[k] \in S /\ KindOf[k] \notin OwnKinds
  PROVE  InStep(FollowAssignment(its, st, emp, S), st, emp, k)
BY DEF FollowAssignment, Follows, NextOwner, InStep

\* Handlers that keep the agents of the students and edit items in step.
LEMMA CommitKeepsWork ==
  ASSUME NEW st, NEW S, NEW rws, NEW its,
         \A k \in WorkKey : InStep(its, st, employment, k), Commit(st, S, rws, its)
  PROVE  AssignedWorkFollowsAgent'
<1>1. ASSUME NEW k \in WorkKey
      PROVE  InStep(items', student', employment', k)
  BY <1>1, SyncStudentsInStep DEF Commit
<1>. QED
  BY <1>1, WorkIsInStep DEF AssignedWorkFollowsAgent, InStep

\* So does the transaction of one source row.
LEMMA CommitRowKeepsWork ==
  ASSUME NEW st, NEW k \in WorkKey, NEW rws, NEW its \in [WorkKey -> Item], NEW creator,
         \A j \in WorkKey : InStep(its, st, employment, j),
         CommitRow(st, k, rws, its, creator)
  PROVE  AssignedWorkFollowsAgent'
<1>1. \A j \in WorkKey :
        InStep(SyncSource(its, rws, k, st, employment, creator), st, employment, j)
  BY SyncSourceInStep
<1>. QED
  BY <1>1, CommitKeepsWork DEF CommitRow

\* The items stay in step with the students as edited, the agents being the same.
LEMMA EditsInStep ==
  ASSUME AssignedWorkFollowsAgent, NEW st, SameAgents(st)
  PROVE  \A k \in WorkKey : InStep(items, st, employment, k)
<1>1. \A k \in WorkKey : StudentOf[k] \in Student
  OBVIOUS
<1>. QED
  BY <1>1 DEF AssignedWorkFollowsAgent, SameAgents, InStep

\* An assignment leaves every item in step with the new owners.
LEMMA AssignmentKeepsWork ==
  ASSUME TypeOK, AssignedWorkFollowsAgent, NEW st \in [Student -> StudentRow], SameAgents(st),
         NEW t, ApplyAssignment(st, t)
  PROVE  \A k \in WorkKey : InStep(items', student', employment, k)
<1> DEFINE S   == Changed(t)
           st2 == Owning(st, t)
           its == SyncStudents(items, st2, employment, S)
<1>1. student' = st2 /\ items' = FollowAssignment(its, st2, employment, S)
  BY DEF ApplyAssignment
<1> SUFFICES ASSUME NEW k \in WorkKey
             PROVE  InStep(FollowAssignment(its, st2, employment, S), st2, employment, k)
  BY <1>1
<1>2. CASE StudentOf[k] \in S
  BY <1>2, SyncStudentsInStep, FollowAssignmentInStep
<1>3. CASE StudentOf[k] \notin S
  <2>1. StudentOf[k] \in Student
    OBVIOUS
  <2>2. st2[StudentOf[k]].agent = student[StudentOf[k]].agent
    BY <1>3, <2>1, OwningAgents DEF SameAgents, Changed
  <2>3. InStep(items, st2, employment, k)
    BY <2>2 DEF AssignedWorkFollowsAgent, InStep
  <2> HIDE DEF S, st2
  <2>. QED
    BY <2>3, SyncStudentsInStep, FollowAssignmentInStep
<1>. QED
  BY <1>2, <1>3

\* So an assignment that leaves employment alone keeps the invariant.
LEMMA AssignmentStepKeepsWork ==
  ASSUME TypeOK, AssignedWorkFollowsAgent, NEW st \in [Student -> StudentRow], SameAgents(st),
         NEW t, ApplyAssignment(st, t), UNCHANGED employment
  PROVE  AssignedWorkFollowsAgent'
BY AssignmentKeepsWork DEF AssignedWorkFollowsAgent, InStep

\* The handlers on students keep their work with their agents.
LEMMA StudentStepKeepsWork ==
  ASSUME TypeOK, HandoverInv, AssignedWorkFollowsAgent, StudentStep
  PROVE  AssignedWorkFollowsAgent'
<1>0. student \in [Student -> StudentRow]
  BY DEF TypeOK
<1>1. ASSUME NEW s \in Student, NEW status \in {"following", "invalid"},
             NEW help \in BOOLEAN, NEW a \in Agent \cup {None},
             CreateStudent(s, status, help, a)
      PROVE  AssignedWorkFollowsAgent'
  <2> DEFINE st == [student EXCEPT ![s] = [status |-> status, agent |-> None, help |-> help]]
  <2>1. student[s].agent = None
    BY <1>1 DEF CreateStudent, Present, HandoverInv, AbsentUnassigned
  <2>2. st \in [Student -> StudentRow] /\ SameAgents(st)
    BY <1>0, <2>1 DEF StudentRow, StudentStatus, SameAgents
  <2>3. \/ Commit(st, {s}, rows, items)
        \/ ApplyAssignment(st, [x \in {s} |-> a]) /\ UNCHANGED employment
    BY <1>1 DEF CreateStudent
  <2> HIDE DEF st
  <2>. QED
    BY <2>2, <2>3, EditsInStep, CommitKeepsWork, AssignmentStepKeepsWork
<1>2. ASSUME NEW s \in Student, NEW status \in StudentStatus, NEW help \in BOOLEAN,
             NEW a \in Agent \cup {None}, UpdateStudent(s, status, help, a)
      PROVE  AssignedWorkFollowsAgent'
  <2> DEFINE st == [student EXCEPT ![s].status = status, ![s].help = help]
  <2>1. st \in [Student -> StudentRow] /\ SameAgents(st)
    BY <1>0 DEF StudentRow, SameAgents
  <2>2. \/ Commit(st, {s}, rows, items)
        \/ ApplyAssignment(st, [x \in {s} |-> a]) /\ UNCHANGED employment
    BY <1>2 DEF UpdateStudent
  <2> HIDE DEF st
  <2>. QED
    BY <2>1, <2>2, EditsInStep, CommitKeepsWork, AssignmentStepKeepsWork
<1>3. ASSUME NEW s \in Student, ToggleHelp(s)
      PROVE  AssignedWorkFollowsAgent'
  <2> DEFINE st == [student EXCEPT ![s].help = ~@]
  <2>1. SameAgents(st)
    BY <1>0 DEF StudentRow, SameAgents
  <2>2. Commit(st, {s}, rows, items)
    BY <1>3 DEF ToggleHelp
  <2> HIDE DEF st
  <2>. QED
    BY <2>1, <2>2, EditsInStep, CommitKeepsWork
<1>4. ASSUME NEW s \in Student, InvalidateEnrollment(s)
      PROVE  AssignedWorkFollowsAgent'
  <2>1. SameAgents(WithStatus(s, "invalid"))
    BY <1>0 DEF StudentRow, SameAgents, WithStatus
  <2>2. Commit(WithStatus(s, "invalid"), {s}, rows, items)
    BY <1>4 DEF InvalidateEnrollment
  <2>. QED
    BY <2>1, <2>2, EditsInStep, CommitKeepsWork
<1>5. ASSUME NEW s \in Student, DeleteStudent(s)
      PROVE  AssignedWorkFollowsAgent'
  <2> SUFFICES ASSUME NEW k \in WorkKey
               PROVE  InStep(items', student', employment', k)
    BY DEF AssignedWorkFollowsAgent, InStep
  <2>1. CASE StudentOf[k] = s
    BY <1>0, <1>5, <2>1 DEF DeleteStudent, InStep, NoStudent
  <2>2. CASE StudentOf[k] # s
    <3>1. StudentOf[k] \in Student
      OBVIOUS
    <3>. QED
      BY <1>0, <1>5, <2>2, <3>1 DEF DeleteStudent, InStep, AssignedWorkFollowsAgent
  <2>. QED
    BY <2>1, <2>2
<1>6. SameAgents(student)
  BY DEF SameAgents
<1>7. ASSUME NEW S \in SUBSET Student, NEW a \in Agent, AssignStudents(S, a)
      PROVE  AssignedWorkFollowsAgent'
  BY <1>0, <1>6, <1>7, AssignmentStepKeepsWork DEF AssignStudents
<1>8. ASSUME NEW S \in SUBSET Student, NEW t \in [S -> Agent \cup {None}],
             StaleReassign(t)
      PROVE  AssignedWorkFollowsAgent'
  BY <1>0, <1>6, <1>8, AssignmentStepKeepsWork DEF StaleReassign
<1>9. ASSUME NEW S \in SUBSET Student, NEW a \in Agent \cup {None}, ReclaimInvalid(S, a)
      PROVE  AssignedWorkFollowsAgent'
  <2> DEFINE st == [s \in Student |-> IF s \in S THEN Reset(student[s]) ELSE student[s]]
  <2>1. ASSUME NEW s \in Student
        PROVE  /\ Reset(student[s]) \in StudentRow
               /\ Reset(student[s]).agent = student[s].agent
    BY <1>0 DEF Reset, StudentRow, StudentStatus
  <2>2. st \in [Student -> StudentRow] /\ SameAgents(st)
    BY <1>0, <2>1 DEF SameAgents
  <2>3. ApplyAssignment(st, [s \in S |-> a]) /\ UNCHANGED employment
    BY <1>9 DEF ReclaimInvalid
  <2> HIDE DEF st
  <2>. QED
    BY <2>2, <2>3, AssignmentStepKeepsWork
<1>. QED
  BY <1>1, <1>2, <1>3, <1>4, <1>5, <1>7, <1>8, <1>9 DEF StudentStep

\* So do the handlers on follow-ups, visits and enrollments.
LEMMA TaskStepKeepsWork ==
  ASSUME TypeOK, AssignedWorkFollowsAgent, TaskStep
  PROVE  AssignedWorkFollowsAgent'
<1>0. student \in [Student -> StudentRow] /\ items \in [WorkKey -> Item]
  BY DEF TypeOK
<1>1. \A k \in WorkKey : InStep(items, student, employment, k)
  BY WorkIsInStep
<1>2. ASSUME NEW s \in Student
      PROVE  \A k \in WorkKey : InStep(items, WithStatus(s, "enrolled"), employment, k)
  BY EnrollingEdits, EditsInStep DEF Edits
<1>3. ASSUME NEW k \in Keys(TaskKinds), NEW u \in User, CreateTask(k, u)
      PROVE  AssignedWorkFollowsAgent'
  BY <1>0, <1>1, <1>3, CommitRowKeepsWork DEF CreateTask, Keys
<1>4. ASSUME NEW k \in FollowUps, DeleteFollowUp(k)
      PROVE  AssignedWorkFollowsAgent'
  <2> DEFINE its == [items EXCEPT ![k] = Cancel(@)]
  <2>1. \A j \in WorkKey : InStep(its, student, employment, j)
    BY <1>0, <1>1 DEF InStep, Cancel, Cancelled, Active, ActiveStatus
  <2>2. Commit(student, {StudentOf[k]}, [rows EXCEPT ![k] = NoRow], its)
    BY <1>4 DEF DeleteFollowUp
  <2> HIDE DEF its
  <2>. QED
    BY <2>1, <2>2, CommitKeepsWork
<1>5. ASSUME NEW k \in FollowUps, NEW phase \in Phase, UpdateFollowUp(k, phase)
      PROVE  AssignedWorkFollowsAgent'
  BY <1>0, <1>1, <1>5, CommitRowKeepsWork DEF UpdateFollowUp, FollowUps, Keys
<1>6. ASSUME NEW k \in Visits,
             RescheduleVisit(k) \/ \E phase \in Phase : UpdateVisit(k, phase)
      PROVE  AssignedWorkFollowsAgent'
  BY <1>0, <1>1, <1>6, CommitRowKeepsWork DEF RescheduleVisit, UpdateVisit, Visits, Keys
<1>7. ASSUME NEW e \in Settlements, NEW phase \in Phase, UpdateEnrollment(e, phase)
      PROVE  AssignedWorkFollowsAgent'
  BY <1>0, <1>1, <1>7, CommitRowKeepsWork DEF UpdateEnrollment, Settlements, Keys
<1>8. ASSUME NEW e \in Settlements, NEW N \in SUBSET Visits, NEW u \in User,
             Enroll(e, N, u)
      PROVE  AssignedWorkFollowsAgent'
  BY <1>0, <1>2, <1>8, CommitRowKeepsWork DEF Enroll, Settlements, Keys
<1>9. ASSUME NEW k \in Visits, NEW e \in Settlements, NEW phase \in Phase,
             NEW won \in BOOLEAN, NEW N \in SUBSET Visits, NEW u \in User,
             UpdateVisitEnrolled(k, phase, won, e, N, u)
      PROVE  AssignedWorkFollowsAgent'
  <2> DEFINE s    == StudentOf[k]
             st   == WithStatus(s, "enrolled")
             rws  == Recorded([rows EXCEPT ![k].phase = phase, ![k].won = won], e, N)
             src  == SyncSource(items, rws, e, st, employment, u)
             its  == SyncStudents(src, st, employment, {s})
  <2>1. k \in WorkKey /\ e \in WorkKey /\ s \in Student /\ u \in User \cup {None}
    BY DEF Visits, Settlements, Keys
  <2>2. st \in [Student -> StudentRow] /\ \A j \in WorkKey : InStep(items, st, employment, j)
    BY <1>2, <2>1, EnrollingEdits
  <2>3. [rows EXCEPT ![k].phase = phase, ![k].won = won] \in [WorkKey -> Row]
    BY DEF TypeOK, Row
  <2>4. rws \in [WorkKey -> Row]
    BY <2>3, RecordedType
  <2>5. CommitRow(st, k, CloseRows(rws, st, {s}), its, None)
        /\ SourceAllowed(items, rws, e, st, employment, u)
    BY <1>9 DEF UpdateVisitEnrolled
  <2> HIDE DEF st, rws
  <2>6. src \in [WorkKey -> Item]
    BY <1>0, <2>1, <2>2, <2>4, <2>5, SyncSourceType DEF TypeOK
  <2>7. its \in [WorkKey -> Item]
    BY <2>2, <2>6, SyncStudentsType DEF TypeOK
  <2>8. \A j \in WorkKey : InStep(src, st, employment, j)
    BY <1>0, <2>1, <2>2, SyncSourceInStep
  <2> HIDE DEF src
  <2>9. \A j \in WorkKey : InStep(its, st, employment, j)
    BY <2>8, SyncStudentsInStep
  <2> HIDE DEF its
  <2>. QED
    BY <2>1, <2>5, <2>7, <2>9, CommitRowKeepsWork
<1>. QED
  BY <1>3, <1>4, <1>5, <1>6, <1>7, <1>8, <1>9 DEF TaskStep

\* Suspending or resuming a user moves all its items to the status of its employment.
LEMMA RestatusKeepsWork ==
  ASSUME TypeOK, AssignedWorkFollowsAgent, NEW u \in User, Suspend(u) \/ Resume(u)
  PROVE  AssignedWorkFollowsAgent'
<1> SUFFICES ASSUME NEW k \in WorkKey, Active(items'[k]), student'[StudentOf[k]].agent # None
             PROVE  items'[k] = Owed(employment', student'[StudentOf[k]].agent)
  BY DEF AssignedWorkFollowsAgent
<1> DEFINE a == student[StudentOf[k]].agent
<1>1. /\ student' = student /\ a # None /\ a \in User
      /\ items \in [WorkKey -> Item] /\ employment \in [User -> EmploymentStatus]
  <2>1. StudentOf[k] \in Student
    OBVIOUS
  <2>. QED
    BY <2>1 DEF TypeOK, Suspend, Resume, StudentRow, User
<1>2. PICK from \in {"open", "blocked_suspension"}, to \in {"open", "blocked_suspension"},
           new \in {"active", "suspended"} :
        /\ WorkStatus(employment[u]) = from /\ WorkStatus(new) = to
        /\ employment' = [employment EXCEPT ![u] = new]
        /\ items' = Restatus(u, from, to)
  BY DEF Suspend, Resume, WorkStatus
<1>3. Active(items[k])
  BY <1>1, <1>2 DEF Restatus, Active, ActiveStatus, Item
<1>4. items[k] = Owed(employment, a)
  BY <1>1, <1>3 DEF AssignedWorkFollowsAgent
<1>5. CASE a = u
  BY <1>1, <1>2, <1>4, <1>5 DEF Restatus, Owed
<1>6. CASE a # u
  BY <1>1, <1>2, <1>4, <1>6 DEF Restatus, Owed
<1>. QED
  BY <1>1, <1>5, <1>6

\* Deleting a user unassigns its students; everybody else's work is in step.
LEMMA DeleteUserKeepsWork ==
  ASSUME TypeOK, AssignedWorkFollowsAgent, NEW u \in User, DeleteUser(u)
  PROVE  AssignedWorkFollowsAgent'
<1> DEFINE S  == Assigned(u)
           st == [s \in Student |->
                    IF s \in S /\ Following(student[s]) THEN Reset(student[s])
                    ELSE student[s]]
<1>0. student \in [Student -> StudentRow] /\ u # None
  BY DEF TypeOK, User
<1>1. ASSUME NEW s \in Student
      PROVE  Reset(student[s]) \in StudentRow /\ Reset(student[s]).agent = student[s].agent
  BY <1>0 DEF Reset, StudentRow, StudentStatus
<1>2. st \in [Student -> StudentRow] /\ SameAgents(st)
  BY <1>0, <1>1 DEF SameAgents
<1>3. ApplyAssignment(st, Unassign(S)) /\ employment' = [employment EXCEPT ![u] = "offboarded"]
  BY DEF DeleteUser
<1> HIDE DEF st
<1>4. \A k \in WorkKey : InStep(items', student', employment, k)
  BY <1>2, <1>3, AssignmentKeepsWork
<1>5. ASSUME NEW s \in Student
      PROVE  student'[s].agent # u /\ student'[s].agent \in User \cup {None}
  <2>1. student' = Owning(st, Unassign(S))
    BY <1>3 DEF ApplyAssignment
  <2>2. student'[s].agent = IF s \in S THEN None ELSE student[s].agent
    BY <1>2, <2>1, OwningAgents DEF Unassign, SameAgents
  <2>. QED
    BY <1>0, <2>2 DEF Assigned, StudentRow, User
<1>6. ASSUME NEW v \in User, v # u
      PROVE  Owed(employment', v) = Owed(employment, v)
  BY <1>3, <1>6 DEF Owed, TypeOK
<1>. QED
  BY <1>4, <1>5, <1>6 DEF AssignedWorkFollowsAgent, InStep

\* Starting a handover blocks every active item of the pending students.
LEMMA StartKeepsWork ==
  ASSUME TypeOK, AssignedWorkFollowsAgent, NEW u \in User, StartHandover(u)
  PROVE  AssignedWorkFollowsAgent'
<1> DEFINE P   == {s \in Assigned(u) : Following(student[s])}
           T   == Assigned(u) \ P
           st  == Owning(student, Unassign(T))
           its == SyncStudents(items, st, employment, T)
           emp2 == IF P = {} THEN "offboarded" ELSE "handover_pending"
<1> SUFFICES ASSUME NEW k \in WorkKey, Active(items'[k]), student'[StudentOf[k]].agent # None
             PROVE  items'[k] = Owed(employment', student'[StudentOf[k]].agent)
  BY DEF AssignedWorkFollowsAgent
<1> DEFINE s == StudentOf[k]
           a == student[s].agent
<1>0. /\ student \in [Student -> StudentRow] /\ s \in Student /\ u # None
      /\ employment \in [User -> EmploymentStatus]
  BY DEF TypeOK, User
<1>1. /\ student' = st /\ employment' = [employment EXCEPT ![u] = emp2]
      /\ items' = MoveItems(its, P, {"open", "blocked_suspension"}, "blocked_handover", u)
      /\ employment[u] \in {"active", "suspended"}
  BY DEF StartHandover
<1>2. student'[s].agent = IF s \in T THEN None ELSE a
  BY <1>0, <1>1, OwningAgents DEF Unassign
<1>3. s \notin T /\ student'[s].agent = a /\ a # None /\ a \in User
  BY <1>0, <1>2 DEF StudentRow, User
<1>4. its[k] = items[k]
  BY <1>3 DEF SyncStudents
<1> HIDE DEF st, its
<1>5. Active(items[k])
  BY <1>1, <1>4 DEF MoveItems, Active, ActiveStatus
<1>6. items[k] = Owed(employment, a)
  BY <1>3, <1>5 DEF AssignedWorkFollowsAgent
<1>7. CASE a = u
  <2>1. s \in P
    BY <1>0, <1>3, <1>7 DEF Assigned
  <2>2. items[k].status \in {"open", "blocked_suspension"}
    BY <1>1, <1>6, <1>7 DEF Owed, WorkStatus
  <2>3. items'[k] = [status |-> "blocked_handover", owner |-> u]
    BY <1>1, <1>4, <2>1, <2>2 DEF MoveItems
  <2>4. employment'[u] = "handover_pending"
    BY <1>0, <1>1, <2>1
  <2>. QED
    BY <1>3, <1>7, <2>3, <2>4 DEF Owed, WorkStatus
<1>8. CASE a # u
  <2>1. s \notin P
    BY <1>8 DEF Assigned
  <2>2. items'[k] = items[k] /\ employment'[a] = employment[a]
    BY <1>0, <1>1, <1>3, <1>4, <1>8, <2>1 DEF MoveItems
  <2>. QED
    BY <1>3, <1>6, <2>2 DEF Owed
<1>. QED
  BY <1>7, <1>8

\* A transfer opens every active item of the students it moves: all of them were
\* blocked, as the students were still followed by the leaving user.
LEMMA TransferKeepsWork ==
  ASSUME TypeOK, HandoverInv, AssignedWorkFollowsAgent, NEW u \in User, NEW b \in Agent,
         NEW S \in SUBSET Student, ExecuteTransfer(u, b, S)
  PROVE  AssignedWorkFollowsAgent'
<1> DEFINE st  == Owning(student, [s \in S |-> b])
           its == SyncStudents(items, st, employment, S)
<1> SUFFICES ASSUME NEW k \in WorkKey, Active(items'[k]), student'[StudentOf[k]].agent # None
             PROVE  items'[k] = Owed(employment', student'[StudentOf[k]].agent)
  BY DEF AssignedWorkFollowsAgent
<1> DEFINE s == StudentOf[k]
           a == student[s].agent
<1>0. /\ student \in [Student -> StudentRow] /\ s \in Student /\ u # None /\ b # None
      /\ b \in User /\ employment \in [User -> EmploymentStatus] /\ a \in User \cup {None}
  BY DEF TypeOK, User, StudentRow
<1>1. /\ employment[u] = "handover_pending" /\ employment[b] = "active" /\ b # u
      /\ S \subseteq Assigned(u)
      /\ Left(batch[u], S) = 0 <=> S = Assigned(u)
  BY TransferFacts
<1>2. /\ student' = st
      /\ items' = MoveItems(its, S, {"blocked_handover"}, "open", b)
      /\ employment' = [employment EXCEPT ![u] =
                          IF S = Assigned(u) THEN "offboarded" ELSE "handover_pending"]
  BY <1>1 DEF ExecuteTransfer
<1>3. student'[s].agent = IF s \in S THEN b ELSE a
  BY <1>0, <1>2, OwningAgents
<1>4. ~Active(Cancelled)
  BY DEF Cancelled, Active, ActiveStatus
<1>5. CASE s \in S
  <2>1. its[k] = items[k] \/ ~Active(its[k]) \/ its[k] = Owed(employment, b)
    <3>1. st[s].agent = b
      BY <1>2, <1>3, <1>5
    <3> DEFINE new == SyncOwn(items[k], OwnWanted(k, st[s]), b, employment)
    <3>2. new = items[k] \/ ~Active(new) \/ new = Owed(employment, b)
      BY <1>0 DEF SyncOwn, Active, ActiveStatus
    <3> HIDE DEF st, new
    <3>3. its[k] = new \/ its[k] = Cancelled \/ its[k] = items[k]
      BY <1>5, <3>1 DEF SyncStudents, new
    <3>. QED
      BY <1>4, <3>2, <3>3
  <2> HIDE DEF its
  <2>2. Active(its[k])
    BY <1>2, <1>5 DEF MoveItems, Active, ActiveStatus
  <2>3. its[k] = items[k] => its[k].status = "blocked_handover"
    <3>1. a = u
      BY <1>1, <1>5 DEF Assigned
    <3>2. ASSUME its[k] = items[k]
          PROVE  items[k] = Owed(employment, u)
      BY <1>0, <2>2, <3>1, <3>2 DEF AssignedWorkFollowsAgent
    <3>3. Owed(employment, u).status = "blocked_handover"
      BY <1>1 DEF Owed, WorkStatus
    <3>. QED
      BY <3>2, <3>3
  <2>4. Owed(employment, b) = [status |-> "open", owner |-> b]
    BY <1>1 DEF Owed, WorkStatus
  <2>5. items'[k] = [status |-> "open", owner |-> b]
    BY <1>2, <1>5, <2>1, <2>2, <2>3, <2>4 DEF MoveItems
  <2>6. Owed(employment', b) = [status |-> "open", owner |-> b]
    BY <1>0, <1>1, <1>2 DEF Owed, WorkStatus
  <2>. QED
    BY <1>3, <1>5, <2>5, <2>6
<1>6. CASE s \notin S
  <2>1. items'[k] = items[k] /\ student'[s].agent = a
    BY <1>2, <1>3, <1>6 DEF MoveItems, SyncStudents
  <2>2. items[k] = Owed(employment, a) /\ a # None
    BY <2>1 DEF AssignedWorkFollowsAgent
  <2>3. a = u => S # Assigned(u)
    BY <1>0, <1>6 DEF Assigned
  <2>4. employment'[a] = employment[a]
    BY <1>0, <1>1, <1>2, <2>2, <2>3
  <2>. QED
    BY <2>1, <2>2, <2>4 DEF Owed
<1>. QED
  BY <1>5, <1>6

\* It holds of the empty tables.
LEMMA InitWork == Init => AssignedWorkFollowsAgent
BY DEF Init, AssignedWorkFollowsAgent, NoStudent

\* Work follows the agent: whatever handlers ran, an active item of a student somebody
\* follows belongs to that agent, in the status of the agent's employment.
THEOREM WorkFollowsAgent == Spec => []AssignedWorkFollowsAgent
<1>1. ASSUME TypeOK, HandoverInv, AssignedWorkFollowsAgent, [Next]_vars
      PROVE  AssignedWorkFollowsAgent'
  <2>1. CASE UserStep
    BY <1>1, <2>1, RestatusKeepsWork, DeleteUserKeepsWork, StartKeepsWork,
       TransferKeepsWork DEF UserStep
  <2>2. CASE UNCHANGED vars
    BY <1>1, <2>2 DEF AssignedWorkFollowsAgent, vars
  <2>. QED
    BY <1>1, <2>1, <2>2, StudentStepKeepsWork, TaskStepKeepsWork DEF Next
<1>. QED
  BY <1>1, InitWork, TypeCorrect, HandoverInvariant, PTL DEF Spec

-----------------------------------------------------------------------------
(* Which steps touch the batches and the employments. *)

\* What a batch promises of its own row, and of the employment e of its user.
Accounts(b, e) ==
  /\ b.remaining + b.transferred <= b.total
  /\ Cardinality(b.pending) <= b.remaining
  /\ Cardinality(b.moved) <= b.transferred
  /\ b.status = "completed" => b.remaining = 0
  /\ Running(b) => b.remaining > 0 /\ e \in {"handover_pending", "offboarded"}

\* BatchAccounts says so of every user.
LEMMA AccountsOfAll ==
  BatchAccounts <=> \A u \in User : Accounts(batch[u], employment[u])
BY DEF BatchAccounts, Accounts

\* Apart from deletions no handler on students touches a batch or an employment.
LEMMA StudentStepFrame ==
  ASSUME StudentStep
  PROVE  \/ UNCHANGED <<employment, batch>>
         \/ \E s \in Student : DeleteStudent(s)
<1>1. ASSUME NEW st, NEW t, ApplyAssignment(st, t), UNCHANGED employment
      PROVE  UNCHANGED <<employment, batch>>
  BY <1>1 DEF ApplyAssignment
<1>2. ASSUME NEW st, NEW S, NEW rws, NEW its, Commit(st, S, rws, its)
      PROVE  UNCHANGED <<employment, batch>>
  BY <1>2 DEF Commit
<1>3. ASSUME NEW s, NEW status, NEW help, NEW a,
             CreateStudent(s, status, help, a) \/ UpdateStudent(s, status, help, a)
      PROVE  UNCHANGED <<employment, batch>>
  BY <1>1, <1>2, <1>3 DEF CreateStudent, UpdateStudent
<1>4. ASSUME NEW s, ToggleHelp(s) \/ InvalidateEnrollment(s)
      PROVE  UNCHANGED <<employment, batch>>
  BY <1>2, <1>4 DEF ToggleHelp, InvalidateEnrollment
<1>5. ASSUME NEW S, NEW a, AssignStudents(S, a) \/ ReclaimInvalid(S, a)
      PROVE  UNCHANGED <<employment, batch>>
  BY <1>1, <1>5 DEF AssignStudents, ReclaimInvalid
<1>6. ASSUME NEW t, StaleReassign(t)
      PROVE  UNCHANGED <<employment, batch>>
  BY <1>1, <1>6 DEF StaleReassign
<1>. QED
  BY <1>3, <1>4, <1>5, <1>6 DEF StudentStep

\* The sets of students a batch holds are finite.
LEMMA BatchFinite ==
  ASSUME NEW b \in Batch
  PROVE  /\ IsFiniteSet(b.pending) /\ IsFiniteSet(b.moved)
         /\ Cardinality(b.pending) \in Nat /\ Cardinality(b.moved) \in Nat
<1>1. b.pending \subseteq Student /\ b.moved \subseteq Student
  BY DEF Batch
<1>. QED
  BY <1>1, StudentsAssumption, FS_Subset, FS_CardinalityType

-----------------------------------------------------------------------------
(* The counters. *)

\* Deleting a student leaves every batch with no more students than it counts.
LEMMA DeleteKeepsAccounts ==
  ASSUME TypeOK, BatchAccounts, NEW s \in Student, DeleteStudent(s)
  PROVE  BatchAccounts'
<1> SUFFICES ASSUME NEW u \in User
             PROVE  Accounts(batch'[u], employment'[u])
  BY DEF BatchAccounts, Accounts
<1> DEFINE b == batch[u]
<1>1. b \in Batch /\ employment' = employment
      /\ batch'[u] = [b EXCEPT !.pending = @ \ {s}, !.moved = @ \ {s}]
  BY DEF DeleteStudent, TypeOK
<1>2. /\ batch'[u].pending = b.pending \ {s} /\ batch'[u].moved = b.moved \ {s}
      /\ batch'[u].status = b.status /\ batch'[u].total = b.total
      /\ batch'[u].remaining = b.remaining /\ batch'[u].transferred = b.transferred
  BY <1>1 DEF Batch
<1>3. /\ Cardinality(b.pending \ {s}) \in Nat /\ Cardinality(b.moved \ {s}) \in Nat
      /\ Cardinality(b.pending \ {s}) <= Cardinality(b.pending)
      /\ Cardinality(b.moved \ {s}) <= Cardinality(b.moved)
  <2>1. b.pending \ {s} \in SUBSET b.pending /\ b.moved \ {s} \in SUBSET b.moved
    OBVIOUS
  <2>. QED
    BY <1>1, <2>1, BatchFinite, FS_Subset, FS_CardinalityType
<1>4. Accounts(b, employment[u])
  BY AccountsOfAll
<1>5. /\ Cardinality(b.pending) \in Nat /\ Cardinality(b.moved) \in Nat
      /\ b.remaining \in Nat /\ b.transferred \in Nat
  BY <1>1, BatchFinite DEF Batch
<1>. QED
  BY <1>1, <1>2, <1>3, <1>4, <1>5 DEF Accounts, Running

\* A started batch counts its students, and is over at once when there are none.
LEMMA StartKeepsAccounts ==
  ASSUME TypeOK, BatchAccounts, NEW u \in User, StartHandover(u)
  PROVE  BatchAccounts'
<1> DEFINE P == {s \in Assigned(u) : Following(student[s])}
<1>1. /\ batch' = [batch EXCEPT ![u] = Started(P)]
      /\ employment' = [employment EXCEPT ![u] =
                          IF P = {} THEN "offboarded" ELSE "handover_pending"]
  BY DEF StartHandover
<1>2. Cardinality(P) \in Nat /\ (Cardinality(P) = 0 <=> P = {}) /\ Cardinality({}) = 0
  <2>1. IsFiniteSet(P)
    BY StudentsAssumption, FS_Subset DEF Assigned
  <2>. QED
    BY <2>1, FS_CardinalityType, FS_EmptySet
<1>3. Accounts(Started(P), IF P = {} THEN "offboarded" ELSE "handover_pending")
  BY <1>2 DEF Accounts, Started, NoBatch, Running
<1> SUFFICES ASSUME NEW v \in User
             PROVE  Accounts(batch'[v], employment'[v])
  BY DEF BatchAccounts, Accounts
<1>4. CASE v = u
  BY <1>1, <1>3, <1>4 DEF TypeOK
<1>5. CASE v # u
  BY <1>1, <1>5, AccountsOfAll DEF TypeOK
<1>. QED
  BY <1>4, <1>5

\* A transfer takes what it moves from what is left, and ends a batch with nothing left.
LEMMA TransferKeepsAccounts ==
  ASSUME TypeOK, BatchAccounts, NEW u \in User, NEW to \in Agent, NEW S \in SUBSET Student,
         ExecuteTransfer(u, to, S)
  PROVE  BatchAccounts'
<1> DEFINE b == batch[u]
           e == IF Left(b, S) = 0 THEN "offboarded" ELSE employment[u]
<1>1. /\ b \in Batch /\ Running(b) /\ S \subseteq b.pending
      /\ batch' = [batch EXCEPT ![u] = Transferred(b, S)]
      /\ employment' = [employment EXCEPT ![u] = e]
  BY DEF ExecuteTransfer, TypeOK
<1>2. /\ Cardinality(S) \in Nat /\ Cardinality(b.pending) \in Nat
      /\ Cardinality(S) <= Cardinality(b.pending)
      /\ IsFiniteSet(b.moved) /\ IsFiniteSet(S) /\ IsFiniteSet(b.pending)
  BY <1>1, BatchFinite, FS_Subset, FS_CardinalityType
<1>3. Cardinality(b.pending \ S) = Cardinality(b.pending) - Cardinality(S)
  <2>1. b.pending \cap S = S
    BY <1>1
  <2>. QED
    BY <1>2, <2>1, FS_Difference
<1>4. Cardinality(b.moved \cup S) <= Cardinality(b.moved) + Cardinality(S)
  <2>1. Cardinality(b.moved \cap S) \in Nat
    BY <1>2, FS_Intersection, FS_CardinalityType
  <2>2. Cardinality(b.moved) \in Nat /\ Cardinality(S) \in Nat
    BY <1>2, FS_CardinalityType
  <2>3. Cardinality(b.moved \cup S)
          = Cardinality(b.moved) + Cardinality(S) - Cardinality(b.moved \cap S)
    BY <1>2, FS_Union
  <2> HIDE DEF b
  <2>. QED
    BY <2>1, <2>2, <2>3
<1>5. Cardinality(b.moved \cup S) \in Nat /\ Cardinality(b.moved) \in Nat
  BY <1>2, FS_Union, FS_CardinalityType
<1>6. Accounts(b, employment[u])
  BY AccountsOfAll
<1>7. b.remaining \in Nat /\ b.transferred \in Nat /\ b.total \in Nat
  BY <1>1 DEF Batch
<1>8. Accounts(Transferred(b, S), e)
  BY <1>1, <1>2, <1>3, <1>4, <1>5, <1>6, <1>7 DEF Accounts, Transferred, Left, Running
<1> SUFFICES ASSUME NEW v \in User
             PROVE  Accounts(batch'[v], employment'[v])
  BY DEF BatchAccounts, Accounts
<1>9. CASE v = u
  BY <1>1, <1>8, <1>9 DEF TypeOK
<1>10. CASE v # u
  BY <1>1, <1>10, AccountsOfAll DEF TypeOK
<1>. QED
  BY <1>9, <1>10

\* Suspensions, resumptions and the deletion of a user leave the batches alone; the
\* user of a running batch is neither active nor suspended.
LEMMA EmploymentKeepsAccounts ==
  ASSUME TypeOK, BatchAccounts, NEW u \in User, Suspend(u) \/ Resume(u) \/ DeleteUser(u)
  PROVE  BatchAccounts'
<1> SUFFICES ASSUME NEW v \in User
             PROVE  Accounts(batch'[v], employment'[v])
  BY DEF BatchAccounts, Accounts
<1>1. batch' = batch
  BY DEF Suspend, Resume, DeleteUser, ApplyAssignment
<1>2. \/ employment'[v] = employment[v]
      \/ employment[v] \in {"active", "suspended"}
      \/ employment'[v] = "offboarded"
  BY DEF Suspend, Resume, DeleteUser, TypeOK
<1>. QED
  BY <1>1, <1>2, AccountsOfAll DEF Accounts

\* The counters of every batch hold whatever ran: transfers count no student twice, a
\* deletion never makes a batch look finished, and no batch runs for a user at work.
THEOREM BatchesAccount == Spec => []BatchAccounts
<1>1. Init => BatchAccounts
  <2>1. Cardinality({}) = 0
    BY FS_EmptySet
  <2>2. Accounts(NoBatch, "active")
    BY <2>1 DEF Accounts, NoBatch, Running
  <2>3. Init => \A u \in User : batch[u] = NoBatch /\ employment[u] = "active"
    BY DEF Init
  <2>. QED
    BY <2>2, <2>3, AccountsOfAll
<1>2. ASSUME TypeOK, BatchAccounts, [Next]_vars
      PROVE  BatchAccounts'
  <2>1. CASE UNCHANGED <<employment, batch>>
    BY <1>2, <2>1 DEF BatchAccounts
  <2>2. CASE StudentStep
    BY <1>2, <2>1, <2>2, StudentStepFrame, DeleteKeepsAccounts
  <2>3. CASE TaskStep
    BY <1>2, <2>1, <2>3, TaskStepEdits
  <2>4. CASE UserStep
    BY <1>2, <2>4, EmploymentKeepsAccounts, StartKeepsAccounts, TransferKeepsAccounts
       DEF UserStep
  <2>5. CASE UNCHANGED vars
    BY <2>1, <2>5 DEF vars
  <2>. QED
    BY <1>2, <2>2, <2>3, <2>4, <2>5 DEF Next
<1>. QED
  BY <1>1, <1>2, TypeCorrect, PTL DEF Spec

-----------------------------------------------------------------------------
(* The students of a batch. *)

\* How student s may leave the batch of u.
LeavesInOrder(u, s) ==
  \/ student'[s] = NoStudent
  \/ /\ s \in batch[u]'.moved
     /\ student'[s].agent \in Agent \ {u}
     /\ employment'[student'[s].agent] = "active"
     /\ student'[s].status = student[s].status

\* A transfer hands its students to an active agent and keeps their status.
LEMMA TransferDropsNobody ==
  ASSUME TypeOK, HandoverInv, NEW v \in User, NEW b \in Agent, NEW S \in SUBSET Student,
         ExecuteTransfer(v, b, S), NEW u \in User, NEW s \in batch[u].pending \ batch[u]'.pending
  PROVE  LeavesInOrder(u, s)
<1>1. /\ employment[v] = "handover_pending" /\ employment[b] = "active" /\ b # v
      /\ S \subseteq Assigned(v)
  BY TransferFacts
<1>2. /\ batch' = [batch EXCEPT ![v] = Transferred(batch[v], S)]
      /\ student' = Owning(student, [x \in S |-> b])
      /\ employment' = [employment EXCEPT ![v] =
                          IF Left(batch[v], S) = 0 THEN "offboarded" ELSE @]
  BY DEF ExecuteTransfer
<1>3. u = v /\ batch'[v] = Transferred(batch[v], S)
  BY <1>2 DEF TypeOK
<1>4. s \in S /\ s \in batch'[v].moved
  BY <1>3 DEF Transferred
<1>5. s \in Student /\ student \in [Student -> StudentRow]
  BY <1>4 DEF TypeOK
<1>6. student'[s].agent = b /\ student'[s].status = student[s].status
  BY <1>2, <1>4, <1>5, OwningAgents
<1>7. employment'[b] = "active"
  BY <1>1, <1>2 DEF TypeOK
<1>. QED
  BY <1>1, <1>3, <1>4, <1>6, <1>7 DEF LeavesInOrder

\* No step drops a pending student.
LEMMA StepDropsNobody ==
  ASSUME TypeOK, HandoverInv, Next, NEW u \in User,
         NEW s \in batch[u].pending \ batch[u]'.pending
  PROVE  LeavesInOrder(u, s)
<1>1. ~UNCHANGED batch
  OBVIOUS
<1>2. CASE StudentStep
  <2>1. PICK x \in Student : DeleteStudent(x)
    BY <1>1, <1>2, StudentStepFrame
  <2>2. batch'[u] = [batch[u] EXCEPT !.pending = @ \ {x}, !.moved = @ \ {x}]
        /\ batch[u] \in Batch
    BY <2>1 DEF DeleteStudent, TypeOK
  <2>3. s = x
    BY <2>2 DEF Batch
  <2>. QED
    BY <2>1, <2>3 DEF DeleteStudent, LeavesInOrder, TypeOK
<1>3. CASE TaskStep
  BY <1>1, <1>3, TaskStepEdits
<1>4. ASSUME NEW v \in User, StartHandover(v)
      PROVE  LeavesInOrder(u, s)
  <2>1. u = v
    BY <1>4 DEF StartHandover, TypeOK
  <2>2. employment[u] # "handover_pending"
    BY <1>4, <2>1 DEF StartHandover
  <2>. QED
    BY <2>2 DEF HandoverInv, PendingAreTheLeavers
<1>5. ASSUME NEW v \in User, Suspend(v) \/ Resume(v) \/ DeleteUser(v)
      PROVE  LeavesInOrder(u, s)
  BY <1>1, <1>5 DEF Suspend, Resume, DeleteUser, ApplyAssignment
<1>. QED
  BY <1>2, <1>3, <1>4, <1>5, TransferDropsNobody DEF Next, UserStep

\* A student leaves a batch by deletion or into the hands of an active agent, never by an
\* assignment, an edit, a reclaim, or another handover of the same user.
THEOREM NobodyDropped == Spec => NoPendingStudentDropped
<1>1. ASSUME TypeOK, HandoverInv, [Next]_vars
      PROVE  [\A u \in User : \A s \in batch[u].pending \ batch[u]'.pending :
                LeavesInOrder(u, s)]_vars
  BY <1>1, StepDropsNobody
<1>2. Spec => [][\A u \in User : \A s \in batch[u].pending \ batch[u]'.pending :
                   LeavesInOrder(u, s)]_vars
  BY <1>1, TypeCorrect, HandoverInvariant, PTL DEF Spec
<1>. QED
  BY <1>2 DEF NoPendingStudentDropped, LeavesInOrder

-----------------------------------------------------------------------------
(* The administrators. *)

\* Whoever suspends, deletes or offboards an active administrator leaves another one.
LEMMA AnotherAdminStays ==
  ASSUME NEW u \in User, SpareAdmin(u), AnActiveAdminRemains, Admin # {}
  PROVE  ActiveAdmins \ {u} # {}
<1>1. CASE u \in Admin
  <2>1. Cardinality(ActiveAdmins) > 1
    BY <1>1 DEF SpareAdmin
  <2>2. Cardinality({u}) = 1 /\ Cardinality({}) = 0
    BY FS_Singleton, FS_EmptySet
  <2>3. ActiveAdmins # {u} /\ ActiveAdmins # {}
    BY <2>1, <2>2
  <2>. QED
    BY <2>3
<1>2. CASE u \notin Admin
  BY <1>2 DEF AnActiveAdminRemains, ActiveAdmins
<1>. QED
  BY <1>1, <1>2

\* An administrator that was active and is not the one a step is about stays active.
LEMMA UserStepKeepsAdmin ==
  ASSUME TypeOK, HandoverInv, AnActiveAdminRemains, UserStep
  PROVE  AnActiveAdminRemains'
<1> SUFFICES ASSUME Admin # {}
             PROVE  ActiveAdmins' # {}
  BY DEF AnActiveAdminRemains
<1>1. PICK a \in Admin : employment[a] = "active"
  BY DEF AnActiveAdminRemains, ActiveAdmins
<1>2. ASSUME NEW u \in User, SpareAdmin(u), NEW e, employment' = [employment EXCEPT ![u] = e]
      PROVE  ActiveAdmins' # {}
  BY <1>2, AnotherAdminStays DEF ActiveAdmins, TypeOK, User
<1>3. ASSUME NEW u \in User, Suspend(u) \/ DeleteUser(u)
      PROVE  ActiveAdmins' # {}
  BY <1>2, <1>3 DEF Suspend, DeleteUser
<1>4. ASSUME NEW u \in User, NEW e, employment' = [employment EXCEPT ![u] = e],
             employment[u] # "active" \/ e = "active"
      PROVE  ActiveAdmins' # {}
  BY <1>1, <1>4 DEF ActiveAdmins, TypeOK, User
<1>5. ASSUME NEW u \in User, Resume(u)
      PROVE  ActiveAdmins' # {}
  BY <1>4, <1>5 DEF Resume
<1>6. ASSUME NEW u \in User, StartHandover(u)
      PROVE  ActiveAdmins' # {}
  <2>1. employment[u] # "active" \/ SpareAdmin(u)
    BY <1>6 DEF StartHandover
  <2>2. PICK e : employment' = [employment EXCEPT ![u] = e]
    BY <1>6 DEF StartHandover
  <2>. QED
    BY <1>2, <1>4, <2>1, <2>2
<1>7. ASSUME NEW u \in User, NEW b \in Agent, NEW S \in SUBSET Student,
             ExecuteTransfer(u, b, S)
      PROVE  ActiveAdmins' # {}
  <2>1. employment[u] = "handover_pending"
    BY <1>7, TransferFacts
  <2>2. PICK e : employment' = [employment EXCEPT ![u] = e]
    BY <1>7 DEF ExecuteTransfer
  <2>. QED
    BY <1>4, <2>1, <2>2
<1>. QED
  BY <1>3, <1>5, <1>6, <1>7 DEF UserStep

\* A company with administrators never locks itself out: one of them stays active.
THEOREM AdminStays == Spec => []AnActiveAdminRemains
<1>1. Init => AnActiveAdminRemains
  BY DEF Init, AnActiveAdminRemains, ActiveAdmins, User
<1>2. ASSUME TypeOK, HandoverInv, AnActiveAdminRemains, [Next]_vars
      PROVE  AnActiveAdminRemains'
  <2>1. CASE UNCHANGED employment
    BY <1>2, <2>1 DEF AnActiveAdminRemains, ActiveAdmins
  <2>2. CASE StudentStep
    BY <2>1, <2>2, StudentStepFrame DEF DeleteStudent
  <2>3. CASE TaskStep
    BY <1>2, <2>1, <2>3, TaskStepEdits
  <2>4. CASE UserStep
    BY <1>2, <2>4, UserStepKeepsAdmin
  <2>5. CASE UNCHANGED vars
    BY <2>1, <2>5 DEF vars
  <2>. QED
    BY <1>2, <2>2, <2>3, <2>4, <2>5 DEF Next
<1>. QED
  BY <1>1, <1>2, TypeCorrect, HandoverInvariant, PTL DEF Spec
==============================================================================
