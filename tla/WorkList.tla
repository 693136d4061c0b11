------------------------------ MODULE WorkList ------------------------------
(***************************************************************************)
(* The counsellor's list of today (hooks/useAgentStudents.js on the state  *)
(* of hooks/useAgentWorkState.js): edits shown before the service answers, *)
(* one chain of requests per student, and loads of the whole list that may *)
(* cross them.                                                             *)
(*                                                                         *)
(* The list shows students in one order.  A request is taken, refused, or  *)
(* taken with its answer lost; the last two look the same to the tab.      *)
(***************************************************************************)
EXTENDS Integers, Sequences, FiniteSets

CONSTANTS
  Students,  \* numbers; the list is in their order
  FirstClass, \* the students of the first class at the start
  MaxEdits,  \* edits made in a behaviour
  MaxLoads   \* loads of the list in flight at a time

ASSUME StudentsAssumption == Students \subseteq Nat /\ FirstClass \subseteq Students /\ IsFiniteSet(Students)
ASSUME BoundsAssumption == MaxEdits \in Nat /\ MaxLoads \in Nat

VARIABLES
  row,        \* the service's students
  shown,      \* the rows on the screen, by student
  confirmed,  \* confirmedStudentsRef: what a failed edit goes back to
  owner,      \* activeFieldTokensRef: the edit that owns a field, or 0
  chain,      \* mutationChainsRef: the edits of a student still to be answered
  edits,      \* edits made so far, which number them
  filter,     \* the filter above the list
  loads,      \* loads of the list in flight
  loaded,     \* the filter the list on the screen was loaded with
  idx,        \* position of the card on the screen
  locked,     \* the student whose call is going on, or 0
  doubt       \* students the tab was told something outdated about, or nothing

rows == <<shown, confirmed, owner, chain, edits>>
pager == <<filter, idx, locked>>
vars == <<row, rows, loads, loaded, pager, doubt>>

Fields == {"handled", "intent", "help"}
Filters == {"all", "intent", "school"}
Listed == DOMAIN shown

\* GET /tasks/today: the students not handled yet, or the first class of them.
Answer(f) == {s \in Students : ~row[s].handled /\ (f = "intent" => row[s].intent)}

\* The school filter keeps the students with an even number.
Passes(s, sh, f) ==
  CASE f = "all" -> TRUE [] f = "intent" -> sh[s].intent [] f = "school" -> s % 2 = 0

\* filteredStudents, and the place of one of them in the order of the list.
Cards(sh, f) == {s \in DOMAIN sh : Passes(s, sh, f)}
Place(cards, s) == Cardinality({t \in cards : t <= s})

\* safeCurrentIdx, and the card there.
Clamp(i, sh, f) == LET n == Cardinality(Cards(sh, f)) IN IF i > n THEN (IF n = 0 THEN 1 ELSE n) ELSE i
Current == LET cards == Cards(shown, filter)
           IN  IF idx <= Cardinality(cards) THEN CHOOSE s \in cards : Place(cards, s) = idx ELSE 0

\* During a call the cards stay where they are, their buttons off.
CardFree == locked = 0

Init ==
  /\ row = [s \in Students |-> [handled |-> FALSE, intent |-> s \in FirstClass, help |-> FALSE]]
  /\ shown = row /\ confirmed = row
  /\ owner = [s \in Students |-> [f \in Fields |-> 0]]
  /\ chain = [s \in Students |-> <<>>]
  /\ edits = 0
  /\ filter = "all" /\ loads = {} /\ loaded = "all"
  /\ idx = 1 /\ locked = 0 /\ doubt = {}

----------------------------------------------------------------------------
(* The effect that follows every change of the rows: a field no edit owns  *)
(* is confirmed as shown.                                                  *)
Settle(sh, cf, ow) ==
  [s \in DOMAIN sh |-> [f \in Fields |-> IF ow[s][f] = 0 THEN sh[s][f] ELSE cf[s][f]]]

\* executeOptimisticUpdate, up to its request.
StartEdit(s, field, value) ==
  /\ edits < MaxEdits
  /\ edits' = edits + 1
  /\ owner' = [owner EXCEPT ![s][field] = edits + 1]
  /\ shown' = [shown EXCEPT ![s][field] = value]
  /\ chain' = [chain EXCEPT ![s] = Append(@, [id |-> edits + 1, field |-> field, value |-> value])]
  /\ confirmed' = Settle(shown', confirmed, owner')
  /\ idx' = Clamp(idx, shown', filter)
  /\ UNCHANGED <<row, loads, loaded, filter, locked, doubt>>

\* updateStatus: any result takes the student off the list once it is saved.
UpdateStatus(s) == s \in Listed /\ StartEdit(s, "handled", TRUE)
UpdateIntent(s, v) == s \in Listed /\ StartEdit(s, "intent", v)
\* The button works on the card on the screen, and not during a call.
ToggleHelp == Current # 0 /\ CardFree /\ StartEdit(Current, "help", ~shown[Current].help)

\* POST need-help flips what the service holds; the other requests set it.
Served(s, e) ==
  [row EXCEPT ![s][e.field] = IF e.field = "help" THEN ~@ ELSE e.value]

\* What the answer tells about the student: all of it, or the flag that was flipped.
Told(r, e) == [f \in IF e.field = "help" THEN {"help"} ELSE Fields |-> r[f]]

Tokens(s, e) == [owner[s] EXCEPT ![e.field] = IF @ = e.id THEN 0 ELSE @]

\* Mutant: the answer is not read, the edit's own value is kept.
PatchUnread(r, s, e) ==
  [f \in {g \in {e.field} : owner[s][g] \in {0, e.id}} |-> e.value]

\* Fields of the answer that no newer edit owns.
Patch(r, s, e) == [f \in {g \in DOMAIN Told(r, e) : owner[s][g] \in {0, e.id}} |-> r[f]]

Patched(old, patch) == [f \in Fields |-> IF f \in DOMAIN patch THEN patch[f] ELSE old[f]]

Without(fn, s) == [x \in DOMAIN fn \ {s} |-> fn[x]]

\* REMOVE_STUDENT_FROM_QUEUE.
Removed(s) ==
  /\ shown' = Without(shown, s) /\ confirmed' = Without(confirmed, s)
  /\ owner' = [owner EXCEPT ![s] = [f \in Fields |-> 0]]
  /\ locked' = IF locked = s THEN 0 ELSE locked

EditSaved(s) ==
  /\ chain[s] # <<>>
  /\ LET e == Head(chain[s])
     IN /\ row' = Served(s, e)
        /\ doubt' = IF e.field = "help" THEN doubt ELSE doubt \ {s}
        /\ \/ e.field = "handled" /\ Removed(s)
           \/ /\ e.field # "handled"
              /\ owner' = [owner EXCEPT ![s] = Tokens(s, e)]
              /\ shown' = IF s \notin Listed THEN shown
                          ELSE [shown EXCEPT ![s] = Patched(@, Patch(row'[s], s, e))]
              /\ confirmed' = IF s \notin Listed THEN confirmed
                              ELSE Settle(shown', [confirmed EXCEPT ![s] =
                                                     Patched(@, Told(row'[s], e))], owner')
              /\ UNCHANGED locked
  /\ chain' = [chain EXCEPT ![s] = Tail(@)]
  /\ idx' = Clamp(idx, shown', filter)
  /\ UNCHANGED <<edits, loads, loaded, filter>>

\* Mutant: a result takes the student off the list even when it fails.
RolledBackOff(s, e) == IF e.field = "handled" THEN Without(shown, s) ELSE shown

\* A failure takes back the field only while this edit owns it.
RolledBack(s, e) ==
  IF s \in Listed /\ owner[s][e.field] = e.id
  THEN [shown EXCEPT ![s][e.field] = confirmed[s][e.field]] ELSE shown

EditFails(s) ==
  /\ chain[s] # <<>>
  /\ LET e == Head(chain[s])
     IN /\ \/ UNCHANGED <<row, doubt>>
           \/ row' = Served(s, e) /\ doubt' = doubt \cup {s}
        /\ owner' = [owner EXCEPT ![s] = Tokens(s, e)]
        /\ shown' = RolledBack(s, e)
        /\ confirmed' = Settle(shown', confirmed, owner')
  /\ chain' = [chain EXCEPT ![s] = Tail(@)]
  /\ idx' = Clamp(idx, shown', filter)
  /\ UNCHANGED <<edits, loads, loaded, filter, locked>>

----------------------------------------------------------------------------
(* fetchToday: sent, taken by the service, shown.                          *)

\* A load asked for under filter f.
Load(f) ==
  /\ Cardinality(loads) < MaxLoads
  /\ loads' = loads \cup {[filter |-> IF f = "intent" THEN f ELSE "all", answer |-> <<>>]}

SendLoad ==
  /\ Load(filter)
  /\ UNCHANGED <<row, rows, loaded, pager, doubt>>

\* Choosing the first class reloads the list; the school filter does not.
SetFilter(f) ==
  /\ f # filter
  /\ filter' = f
  /\ idx' = 1
  /\ IF "intent" \in {f, filter} THEN Load(f) ELSE UNCHANGED loads
  /\ UNCHANGED <<row, rows, loaded, locked, doubt>>

LoadTaken(l) ==
  /\ l \in loads /\ l.answer = <<>>
  /\ loads' = (loads \ {l}) \cup {[l EXCEPT !.answer =
                                     <<[s \in Answer(l.filter) |-> row[s]]>>]}
  /\ UNCHANGED <<row, rows, loaded, pager, doubt>>

\* Mutant: the position is kept instead of the student.
KeptPosition(new) == idx

\* The card stays on its student when the answer still has it, by its
\* position in the whole answer.
Kept(new) == IF Current \in DOMAIN new THEN Place(DOMAIN new, Current) ELSE idx

\* Students the answer is wrong about by the time it is shown.
Outdated(new, f) ==
  {s \in Students : (s \in DOMAIN new) # (s \in Answer(f))
                      \/ (s \in DOMAIN new /\ new[s] # row[s])}

LoadShown(l) ==
  /\ l \in loads /\ l.answer # <<>>
  /\ LET new == l.answer[1]
     IN /\ shown' = new /\ confirmed' = new
        /\ idx' = Clamp(Kept(new), new, filter)
        /\ doubt' = Outdated(new, l.filter)
  /\ loads' = loads \ {l}
  /\ loaded' = l.filter
  /\ UNCHANGED <<row, owner, chain, edits, filter, locked>>

LoadFails(l) ==
  /\ l \in loads
  /\ loads' = loads \ {l}
  /\ UNCHANGED <<row, rows, loaded, pager, doubt>>

----------------------------------------------------------------------------
(* The cards, and the end of a call (finalizeSavedDial).                   *)

Step(i) ==
  /\ CardFree
  /\ i \in {idx - 1, idx + 1} /\ i \in 1 .. Cardinality(Cards(shown, filter))
  /\ idx' = i
  /\ UNCHANGED <<row, rows, loads, loaded, filter, locked, doubt>>

Dial == /\ Current # 0 /\ CardFree
        /\ locked' = Current
        /\ UNCHANGED <<row, rows, loads, loaded, filter, idx, doubt>>

\* The result window closes without a result.
HangUp == /\ locked # 0 /\ locked' = 0
          /\ UNCHANGED <<row, rows, loads, loaded, filter, idx, doubt>>

\* The result of the call was saved: the student leaves the list.
CallSaved ==
  /\ locked # 0
  /\ row' = [row EXCEPT ![locked].handled = TRUE]
  /\ shown' = Without(shown, locked)
  /\ confirmed' = Without(confirmed, locked)
  /\ locked' = 0
  /\ idx' = Clamp(idx, shown', filter)
  /\ doubt' = doubt \ {locked}
  /\ UNCHANGED <<owner, chain, edits, loads, loaded, filter>>

Next ==
  \/ \E s \in Students : \/ UpdateStatus(s)
                         \/ \E v \in BOOLEAN : UpdateIntent(s, v)
                         \/ EditSaved(s) \/ EditFails(s)
  \/ ToggleHelp \/ SendLoad \/ Dial \/ HangUp \/ CallSaved
  \/ \E f \in Filters : SetFilter(f)
  \/ \E l \in loads : LoadTaken(l) \/ LoadShown(l) \/ LoadFails(l)
  \/ \E i \in 1 .. Cardinality(Students) : Step(i)

Spec == Init /\ [][Next]_vars

----------------------------------------------------------------------------
Settled(s) == chain[s] = <<>> /\ s \notin doubt

\* Once its edits are answered, a row shows what the service holds, however
\* failures and newer edits of the same student crossed
\* (executeOptimisticUpdate), unless an answer was lost or outdated.
SettledRowIsTrue ==
  \A s \in Listed : Settled(s) => shown[s] = row[s]

\* No student drops off the full list before somebody handled it, whatever
\* failed, was lost or came late.
NobodyDropped ==
  loaded = "all" => \A s \in Students \ Listed : row[s].handled

\* With no filter a load does not move the card off its student
\* (fetchToday: currentStudentIdRef, read when the answer comes).
LoadKeepsCard ==
  [][\A l \in loads : LoadShown(l) /\ filter = "all" /\ Current # 0 /\ Current \in DOMAIN l.answer[1]
                        => Current' = Current]_vars
=============================================================================
