------------------------------- MODULE Console -------------------------------
(***************************************************************************)
(* What the desks of the administrators' console share.  A tab has one     *)
(* desk open.  world is what the service holds of the desk's business and  *)
(* view is the component state of the page; requests are members of the    *)
(* view until they are answered, so that answers may come in any order,    *)
(* and may be lost before or after the service acted.                      *)
(***************************************************************************)
EXTENDS Integers, Sequences, FiniteSets, TLC

CONSTANTS None,         \* no value
          Pages,        \* the desks
          MaxClicks,    \* bound: clicks of the administrator, by desk
          MaxElsewhere  \* bound: changes by other people, by desk

ASSUME ConsoleAssumption == MaxClicks \in [Pages -> Nat] /\ MaxElsewhere \in [Pages -> Nat]

VARIABLES page, world, view, clicks, elsewhere

\* A click changes the view, and perhaps sends a request.
Click == clicks < MaxClicks[page] /\ clicks' = clicks + 1 /\ UNCHANGED <<page, world, elsewhere>>

\* The service takes a request: the answer waits in the view.
Served == UNCHANGED <<page, clicks, elsewhere>>

\* An answer, or the news that none will come.
Told == UNCHANGED <<page, world, clicks, elsewhere>>

\* Somebody else uses the service.
Elsewhere == elsewhere < MaxElsewhere[page] /\ elsewhere' = elsewhere + 1 /\ UNCHANGED <<page, clicks>>

\* The requests with one more, told from equal ones by its number.
Ask(reqs, kind, of) ==
  reqs \cup {[kind |-> kind, of |-> of, answer |-> <<>>,
              id |-> CHOOSE i \in 0 .. Cardinality(reqs) : \A r \in reqs : r.id # i]}

\* The service answers a request of the view.
Answered(r, a) ==
  /\ Served /\ r \in view.reqs /\ r.answer = <<>>
  /\ view' = [view EXCEPT !.reqs = (@ \ {r}) \cup {[r EXCEPT !.answer = <<a>>]}]

\* An answer that the page takes in now.
Came(r, kind) == Told /\ r \in view.reqs /\ r.kind = kind /\ r.answer # <<>>
Failed(r, kind) == Told /\ r \in view.reqs /\ r.kind = kind

Without(v, r) == [v EXCEPT !.reqs = @ \ {r}]

Flip(set, x) == IF x \in set THEN set \ {x} ELSE set \cup {x}

\* Selecting all of the rows, or none of them when all are selected.
FlipAll(set, all) == IF all \subseteq set THEN set \ all ELSE set \cup all
=============================================================================
