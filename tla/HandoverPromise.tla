--------------------------- MODULE HandoverPromise ---------------------------
(***************************************************************************)
(* What an offboarding handover promises, whatever requests, retries and   *)
(* crashes carry it out: it starts once, with all its students at once,    *)
(* each of them leaves it once, into other hands or by being deleted, and  *)
(* it is over exactly when a transfer has taken the last one.              *)
(***************************************************************************)
CONSTANT Student

VARIABLES
  phase,   \* "before", "running" or "over"
  left,    \* the students still to be handed over
  moved    \* the students handed over

vars == <<phase, left, moved>>

\* The phase and the two sets of students the promise speaks of.
TypeOK == /\ phase \in {"before", "running", "over"}
          /\ left \in SUBSET Student
          /\ moved \in SUBSET Student

Init == phase = "before" /\ left = {} /\ moved = {}

Start(P) ==
  /\ phase = "before"
  /\ phase' = IF P = {} THEN "over" ELSE "running"
  /\ left' = P
  /\ UNCHANGED moved

Move(S) ==
  /\ phase = "running"
  /\ S # {} /\ S \subseteq left
  /\ left' = left \ S
  /\ moved' = moved \cup S
  /\ phase' = IF left' = {} THEN "over" ELSE "running"

Delete(s) ==
  /\ s \in left \cup moved
  /\ left' = left \ {s}
  /\ moved' = moved \ {s}
  /\ UNCHANGED phase

Next == \/ \E P \in SUBSET Student : Start(P) \/ Move(P)
        \/ \E s \in Student : Delete(s)

Spec == Init /\ [][Next]_vars
=============================================================================
