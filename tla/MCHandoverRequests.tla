-------------------------- MODULE MCHandoverRequests --------------------------
(***************************************************************************)
(* Small instances of HandoverRequests.  Asked names the kinds of request  *)
(* a run has; a client takes any version a batch may have, as a stale one  *)
(* is what the protocol is about.                                          *)
(***************************************************************************)
EXTENDS HandoverRequests, TLC

CONSTANTS
  Asked,
  Targets   \* to whom clients hand students over

Versions == 1..Max({2, Cardinality(TransferKey)})
MCOps ==
  [type : {"start"}, key : StartKey \ {LegacyKey}]
  \cup [type : {"offboard"}, key : {LegacyKey}]
  \cup [type : {"transfer"}, key : TransferKey, batch : StartKey, version : Versions,
        to : Targets, chosen : SUBSET Student \ {{}}]
  \cup [type : {"assign"}, student : Student, to : Agent \cup {Leaver}]
  \cup [type : {"employ"}, to : {"active", "suspended"}]
MCOp == {op \in MCOps : op.type \in Asked}

Symmetry == Permutations(Request) \cup Permutations(Student) \cup Permutations(Agent)
            \cup Permutations(TransferKey) \cup Permutations(Worker)

\* Bound of the runs with many requests: two of them at a time.
TwoAtATime == Cardinality({r \in Request : req[r].pc \notin {"idle", "done"}}) <= 2
=============================================================================
