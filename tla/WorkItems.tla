------------------------------ MODULE WorkItems ------------------------------
(***************************************************************************)
(* The projection of the CRM's tables on the work_items table: pure        *)
(* operators, no state.  A work item is a "something is owed" row: one     *)
(* lead_contact and one help_request item per student, and one item per    *)
(* follow-up, home visit, campus visit and enrollment record (its source   *)
(* row).  Handlers change the student and the source row and then call     *)
(* these operators to bring the items back in step.                        *)
(*                                                                         *)
(* An item is keyed as the code keys it (kind, source_type, source_id):    *)
(* a WorkKey k stands for such a triple, KindOf[k] is its kind and         *)
(* StudentOf[k] the student it is about.  Due dates, priorities, versions  *)
(* and the creator column are left out; the creator of a new source row is *)
(* a parameter where the code falls back on it.                            *)
(***************************************************************************)
CONSTANTS
  Agent,      \* users of role agent
  Admin,      \* users of role admin (all of them super administrators)
  Student,
  None,       \* SQL NULL
  WorkKey,
  KindOf,
  StudentOf

TaskKinds  == {"scheduled_follow_up", "home_visit", "campus_visit"}
VisitKinds == {"home_visit", "campus_visit"}
OwnKinds   == {"lead_contact", "help_request"}
Kinds      == TaskKinds \cup OwnKinds \cup {"enrollment_settlement"}

ASSUME UsersAssumption == Agent \cap Admin = {} /\ None \notin Agent \cup Admin
ASSUME KeysAssumption  == /\ KindOf \in [WorkKey -> Kinds]
                          /\ StudentOf \in [WorkKey -> Student]

User == Agent \cup Admin

EmploymentStatus == {"active", "suspended", "handover_pending", "offboarded"}

\* "following" stands for every canonical status that is not terminal, "absent"
\* for a student that is not in the table.
StudentStatus == {"absent", "following", "enrolled", "invalid"}
StudentRow == [status : StudentStatus, agent : Agent \cup {None}, help : BOOLEAN]
NoStudent  == [status |-> "absent", agent |-> None, help |-> FALSE]

Following(st) == st.status = "following"
Terminal(st)  == st.status \in {"enrolled", "invalid"}

\* A source row: not there, still to be held, held with a next step agreed, over.
\* won: its result is 已报名; named: an enrollment record names the visit.
Phase == {"absent", "planned", "held", "closed"}
Row   == [phase : Phase, won : BOOLEAN, named : BOOLEAN]
NoRow == [phase |-> "absent", won |-> FALSE, named |-> FALSE]
SourceOpen(r) == r.phase \in {"planned", "held"}

ActiveStatus == {"open", "blocked_suspension", "blocked_handover"}
ItemStatus   == ActiveStatus \cup {"absent", "completed", "cancelled"}
Item      == [status : ItemStatus, owner : User \cup {None}]
NoItem    == [status |-> "absent", owner |-> None]
Cancelled == [status |-> "cancelled", owner |-> None]
Active(it) == it.status \in ActiveStatus
Cancel(it) == IF it.status = "absent" THEN it ELSE Cancelled

\* The status of an owed item follows the employment of its owner; an offboarded
\* owner is a conflict, which the guards below state.
\* Mutant: the employment status written as it is.
WorkStatusOfEmployment(e) == IF e = "active" THEN "open"
                             ELSE IF e = "suspended" THEN "blocked_suspension" ELSE e
WorkStatus(e) == IF e = "active" THEN "open"
                 ELSE IF e = "suspended" THEN "blocked_suspension"
                 ELSE "blocked_handover"
CanOwn(emp, u) == u # None /\ emp[u] # "offboarded"
Owed(emp, u) == [status |-> WorkStatus(emp[u]), owner |-> u]

\* sync_students_work_items, the lead and the help request of one student.
OwnWanted(k, st) == Following(st) /\ (KindOf[k] = "help_request" => st.help)
SyncOwn(it, wanted, agent, emp) ==
  IF it.status = "absent" /\ ~(wanted /\ agent # None) THEN it
  ELSE IF wanted THEN IF agent = None THEN Cancelled ELSE Owed(emp, agent)
  ELSE [status |-> "completed", owner |-> IF agent = None THEN it.owner ELSE agent]

\* sync_students_work_items on the items of the students S.
SyncStudents(items, student, emp, S) ==
  [k \in WorkKey |->
    LET st == student[StudentOf[k]] IN
    IF StudentOf[k] \notin S THEN items[k]
    ELSE IF KindOf[k] \in OwnKinds THEN SyncOwn(items[k], OwnWanted(k, st), st.agent, emp)
    ELSE IF KindOf[k] \in TaskKinds /\ Terminal(st) /\ Active(items[k]) THEN Cancelled
    ELSE items[k]]
SyncAllowed(student, emp, S) ==
  \A s \in S : Following(student[s]) /\ student[s].agent # None
                 => CanOwn(emp, student[s].agent)

\* _close_terminal_students_tasks on the source rows of the students S.
\* Mutant: closes settlements as well.
CloseAllRows(rows, student, S) ==
  [k \in WorkKey |->
    IF /\ StudentOf[k] \in S /\ Terminal(student[StudentOf[k]])
       /\ rows[k].phase = "planned" /\ ~rows[k].won /\ ~rows[k].named
    THEN [rows[k] EXCEPT !.phase = "closed"]
    ELSE rows[k]]
CloseRows(rows, student, S) ==
  [k \in WorkKey |->
    LET r == rows[k] IN
    IF /\ StudentOf[k] \in S /\ Terminal(student[StudentOf[k]])
       /\ KindOf[k] \in TaskKinds
       /\ r.phase = "planned" /\ ~r.won /\ ~r.named
    THEN [r EXCEPT !.phase = "closed"]
    ELSE r]

\* sync_source_work_item on one source row.
SourceOwner(it, st, creator) ==
  IF st.agent # None THEN st.agent
  ELSE IF it.status # "absent" THEN it.owner ELSE creator
SyncSource(items, rows, k, student, emp, creator) ==
  LET owner == SourceOwner(items[k], student[StudentOf[k]], creator) IN
  [items EXCEPT ![k] = IF SourceOpen(rows[k]) THEN Owed(emp, owner)
                       ELSE [status |-> "completed", owner |-> owner]]
SourceAllowed(items, rows, k, student, emp, creator) ==
  SourceOpen(rows[k]) =>
    CanOwn(emp, SourceOwner(items[k], student[StudentOf[k]], creator))

\* sync_assignment_source_work_items for the students S.
NextOwner(it, st) == IF st.agent # None THEN st.agent ELSE it.owner
Follows(items, k, S) == /\ StudentOf[k] \in S
                        /\ KindOf[k] \notin OwnKinds
                        /\ Active(items[k])
\* Mutant: moves the owner and leaves the status.
FollowAssignmentOwner(items, student, emp, S) ==
  [k \in WorkKey |->
    IF Follows(items, k, S)
    THEN [items[k] EXCEPT !.owner = NextOwner(items[k], student[StudentOf[k]])]
    ELSE items[k]]
FollowAssignment(items, student, emp, S) ==
  [k \in WorkKey |->
    IF Follows(items, k, S)
    THEN Owed(emp, NextOwner(items[k], student[StudentOf[k]]))
    ELSE items[k]]
FollowAllowed(items, student, emp, S) ==
  \A k \in WorkKey :
    Follows(items, k, S) => CanOwn(emp, NextOwner(items[k], student[StudentOf[k]]))

\* transfer_open_work_items: every item of the students S in a status of From.
MoveItems(items, S, From, to, owner) ==
  [k \in WorkKey |->
    IF StudentOf[k] \in S /\ items[k].status \in From
    THEN [status |-> to, owner |-> owner]
    ELSE items[k]]
=============================================================================
