------------------------------ MODULE MCCrmCore ------------------------------
(***************************************************************************)
(* Small instances of CrmCore.  Every student gets one work key of each    *)
(* kind in KeyKinds, so students are interchangeable, and so are agents    *)
(* and administrators; NoHelp leaves help requests out where a run has no  *)
(* key for them.                                                           *)
(***************************************************************************)
EXTENDS CrmCore, TLC

CONSTANT KeyKinds

MCWorkKey   == Student \X KeyKinds
MCKindOf    == [k \in MCWorkKey |-> k[2]]
MCStudentOf == [k \in MCWorkKey |-> k[1]]

Symmetry == Permutations(Student) \cup Permutations(Agent) \cup Permutations(Admin)
NoHelp == \A s \in Student : ~student[s].help
=============================================================================
