---------------------------- MODULE WorkListProofs ----------------------------
(***************************************************************************)
(* The counsellor's list for any students, edits and loads: a settled row  *)
(* shows what the service holds, and nobody drops off the full list.       *)
(*                                                                         *)
(* SettledRowIsTrue says nothing of a row with edits still to be answered, *)
(* so it is not inductive.  What is: a field that no edit owns is          *)
(* confirmed as shown, the confirmed row is the service's unless the tab   *)
(* was told something outdated, and an edit owns a field only while it     *)
(* waits for its answer.  For NobodyDropped the loads on their way count   *)
(* too: a student missing from the answer of a full load is handled, and   *)
(* stays so.                                                               *)
(***************************************************************************)
EXTENDS WorkList, FiniteSetTheorems, SequenceTheorems, TLAPS

USE StudentsAssumption, BoundsAssumption

\* A row, an edit of it, and the answers that are on their way.
Row == [Fields -> BOOLEAN]
Edit == [id : Nat, field : Fields, value : BOOLEAN]
Tables == UNION {[L -> Row] : L \in SUBSET Students}
Loads == [filter : {"all", "intent"}, answer : {<<>>} \cup {<<new>> : new \in Tables}]

\* The types.
Types ==
  /\ row \in [Students -> Row]
  /\ Listed \subseteq Students /\ shown \in [Listed -> Row] /\ confirmed \in [Listed -> Row]
  /\ owner \in [Students -> [Fields -> Nat]]
  /\ chain \in [Students -> Seq(Edit)]
  /\ edits \in Nat
  /\ loads \subseteq Loads

\* The edit that owns a field still waits for its answer.
Waits(s, f) == owner[s][f] # 0 => \E i \in 1..Len(chain[s]) :
                 chain[s][i].id = owner[s][f] /\ chain[s][i].field = f
\* An edit of "handled" sets it.
Handles(e) == e.field = "handled" => e.value = TRUE
\* What an edit may fall back on, and when it is true.
Backed(s) == \A f \in Fields :
  /\ owner[s][f] = 0 => shown[s][f] = confirmed[s][f]
  /\ s \notin doubt => confirmed[s][f] = row[s][f]
\* A student whom a full load leaves out is handled.
Full(l) == l.answer # <<>> /\ l.filter = "all"
           => \A s \in Students \ DOMAIN l.answer[1] : row[s].handled

\* The invariant.
Inv ==
  /\ Types
  /\ \A s \in Students : \A f \in Fields : Waits(s, f)
  /\ \A s \in Students : \A i \in 1..Len(chain[s]) : Handles(chain[s][i])
  /\ \A s \in Listed : Backed(s)
  /\ \A l \in loads : Full(l)
  /\ loaded = "all" => \A s \in Students \ Listed : row[s].handled

-----------------------------------------------------------------------------
\* Where everything starts.
LEMMA InitInv == ASSUME Init PROVE Inv
<1>1. row \in [Students -> Row]
  <2>1. ASSUME NEW b \in BOOLEAN
        PROVE  [handled |-> FALSE, intent |-> b, help |-> FALSE] \in Row
    <3> DEFINE r == [handled |-> FALSE, intent |-> b, help |-> FALSE]
    <3>1. r = [f \in Fields |-> r[f]]
      BY DEF Fields
    <3>2. r["handled"] \in BOOLEAN /\ r["intent"] \in BOOLEAN /\ r["help"] \in BOOLEAN
      OBVIOUS
    <3> HIDE DEF r
    <3>3. [f \in Fields |-> r[f]] \in Row
      BY <3>2 DEF Row, Fields
    <3>4. r \in Row
      BY <3>1, <3>3
    <3>. QED
      BY <3>4 DEF r
  <2>2. \A s \in Students : (s \in FirstClass) \in BOOLEAN
    OBVIOUS
  <2>. QED
    BY <2>1, <2>2 DEF Init
<1>2. Types
  BY <1>1 DEF Init, Types, Listed
<1>3. \A s \in Students : \A f \in Fields : owner[s][f] = 0
  BY DEF Init
<1>4. \A s \in Students : chain[s] = <<>> /\ Len(chain[s]) = 0
  BY DEF Init
<1>5. \A s \in Listed : Backed(s)
  BY <1>1 DEF Init, Backed
<1>6. Students \ Listed = {} /\ loads = {}
  BY <1>1 DEF Init, Listed
<1>. QED
  BY <1>2, <1>3, <1>4, <1>5, <1>6 DEF Inv, Waits

\* The effect after a change of the rows keeps the confirmed rows.
LEMMA SettleType ==
  ASSUME NEW L \in SUBSET Students, NEW sh \in [L -> Row], NEW cf \in [L -> Row],
         NEW ow \in [Students -> [Fields -> Nat]]
  PROVE  /\ Settle(sh, cf, ow) \in [L -> Row]
         /\ \A s \in L : \A f \in Fields :
              /\ ow[s][f] = 0 => Settle(sh, cf, ow)[s][f] = sh[s][f]
              /\ ow[s][f] # 0 => Settle(sh, cf, ow)[s][f] = cf[s][f]
<1>1. DOMAIN sh = L
  OBVIOUS
<1>2. \A s \in L : [f \in Fields |-> IF ow[s][f] = 0 THEN sh[s][f] ELSE cf[s][f]] \in Row
  BY DEF Row
<1>. QED
  BY <1>1, <1>2 DEF Settle

\* An edit of any student, up to its request.
LEMMA StartKeeps ==
  ASSUME Inv, NEW s, NEW field \in Fields, NEW value \in BOOLEAN,
         field = "handled" => value = TRUE, StartEdit(s, field, value)
  PROVE  Inv'
<1> DEFINE e == [id |-> edits + 1, field |-> field, value |-> value]
<1>1. /\ edits' = edits + 1 /\ edits + 1 \in Nat \ {0}
      /\ owner' = [owner EXCEPT ![s][field] = edits + 1]
      /\ shown' = [shown EXCEPT ![s][field] = value]
      /\ chain' = [chain EXCEPT ![s] = Append(@, e)]
      /\ confirmed' = Settle(shown', confirmed, owner')
      /\ UNCHANGED <<row, loads, loaded, doubt>>
  BY DEF StartEdit, Inv, Types
<1>2. e \in Edit /\ e.id = edits + 1 /\ e.field = field /\ Handles(e)
  BY <1>1 DEF Edit, Handles
<1> HIDE DEF e
<1>3. shown' \in [Listed -> Row] /\ Listed' = Listed
  BY <1>1 DEF Inv, Types, Listed, Row
<1>4. owner' \in [Students -> [Fields -> Nat]]
  BY <1>1 DEF Inv, Types
<1>5. chain' \in [Students -> Seq(Edit)]
  <2>1. s \in Students => chain[s] \in Seq(Edit) /\ Append(chain[s], e) \in Seq(Edit)
    BY <1>2, AppendProperties DEF Inv, Types
  <2>. QED
    BY <1>1, <2>1 DEF Inv, Types
<1>6. /\ confirmed' \in [Listed -> Row]
      /\ \A x \in Listed : \A f \in Fields :
           /\ owner'[x][f] = 0 => confirmed'[x][f] = shown'[x][f]
           /\ owner'[x][f] # 0 => confirmed'[x][f] = confirmed[x][f]
  <2>1. Listed \in SUBSET Students /\ confirmed \in [Listed -> Row]
    BY DEF Inv, Types
  <2>2. /\ Settle(shown', confirmed, owner') \in [Listed -> Row]
        /\ \A x \in Listed : \A f \in Fields :
             /\ owner'[x][f] = 0 => Settle(shown', confirmed, owner')[x][f] = shown'[x][f]
             /\ owner'[x][f] # 0 => Settle(shown', confirmed, owner')[x][f] = confirmed[x][f]
    BY <1>3, <1>4, <2>1, SettleType
  <2>. QED
    BY <1>1, <2>2
<1>7. Types'
  BY <1>1, <1>3, <1>4, <1>5, <1>6 DEF Inv, Types
<1>8. ASSUME NEW x \in Students
      PROVE  /\ \A f \in Fields : Waits(x, f)'
             /\ \A i \in 1..Len(chain'[x]) : Handles(chain'[x][i])
  <2>1. CASE x # s
    <3>1. chain'[x] = chain[x] /\ owner'[x] = owner[x]
      BY <1>1, <2>1 DEF Inv, Types
    <3>2. ASSUME NEW f \in Fields
          PROVE  Waits(x, f)'
      <4>1. Waits(x, f)
        BY DEF Inv
      <4>. QED
        BY <3>1, <4>1 DEF Waits
    <3>3. \A i \in 1..Len(chain[x]) : Handles(chain[x][i])
      BY DEF Inv
    <3>. QED
      BY <3>1, <3>2, <3>3
  <2>2. CASE x = s
    <3>1. chain[x] \in Seq(Edit) /\ chain'[x] = Append(chain[x], e)
      BY <1>1, <2>2 DEF Inv, Types
    <3>2. /\ Len(chain'[x]) = Len(chain[x]) + 1 /\ Len(chain[x]) \in Nat
          /\ \A i \in 1..Len(chain[x]) : chain'[x][i] = chain[x][i]
          /\ chain'[x][Len(chain[x]) + 1] = e
      BY <1>2, <3>1, AppendProperties
    <3>3. ASSUME NEW f \in Fields
          PROVE  Waits(x, f)'
      <4>1. CASE f = field
        <5>1. owner'[x][f] = edits + 1
          BY <1>1, <2>2, <4>1 DEF Inv, Types
        <5>. QED
          BY <1>2, <3>2, <4>1, <5>1 DEF Waits
      <4>2. CASE f # field
        <5>1. owner'[x][f] = owner[x][f]
          BY <1>1, <2>2, <4>2 DEF Inv, Types
        <5>. QED
          BY <3>2, <5>1 DEF Inv, Waits
      <4>. QED
        BY <4>1, <4>2
    <3>4. \A i \in 1..Len(chain'[x]) : i = Len(chain[x]) + 1 \/ i \in 1..Len(chain[x])
      BY <3>2
    <3>5. \A i \in 1..Len(chain'[x]) : Handles(chain'[x][i])
      BY <1>2, <3>2, <3>4 DEF Inv
    <3>. QED
      BY <3>3, <3>5
  <2>. QED
    BY <2>1, <2>2
<1>9. ASSUME NEW x \in Listed, NEW f \in Fields
      PROVE  /\ owner'[x][f] = 0 => shown'[x][f] = confirmed'[x][f]
             /\ x \notin doubt => confirmed'[x][f] = row[x][f]
  <2>1. owner'[x][f] = 0 => owner[x][f] = 0 /\ shown'[x][f] = shown[x][f]
    BY <1>1 DEF Inv, Types, Row
  <2>2. owner[x][f] = 0 => shown[x][f] = confirmed[x][f]
    BY DEF Inv, Backed
  <2>3. x \notin doubt => confirmed[x][f] = row[x][f]
    BY DEF Inv, Backed
  <2>. QED
    BY <1>6, <2>1, <2>2, <2>3
<1>. QED
  BY ZenonT(60), <1>1, <1>3, <1>7, <1>8, <1>9 DEF Inv, Backed, Full

\* What a request leaves of the service's student.
LEMMA ServedType ==
  ASSUME row \in [Students -> Row], NEW s \in Students, NEW e \in Edit, Handles(e)
  PROVE  /\ Served(s, e) \in [Students -> Row]
         /\ \A x \in Students : x # s => Served(s, e)[x] = row[x]
         /\ \A f \in Fields : f # e.field => Served(s, e)[s][f] = row[s][f]
         /\ \A x \in Students : row[x].handled => Served(s, e)[x].handled
         /\ e.field = "handled" => Served(s, e)[s].handled
<1> DEFINE v == IF e.field = "help" THEN ~row[s][e.field] ELSE e.value
<1>1. e.field \in Fields /\ e.value \in BOOLEAN /\ row[s] \in Row
  BY DEF Edit
<1>2. v \in BOOLEAN
  BY <1>1 DEF Row
<1>3. Served(s, e) = [row EXCEPT ![s][e.field] = v]
  BY DEF Served
<1>4. e.field = "handled" => v = TRUE
  BY DEF Handles
<1> HIDE DEF v
<1>5. /\ Served(s, e) \in [Students -> Row]
      /\ \A x \in Students : x # s => Served(s, e)[x] = row[x]
      /\ \A f \in Fields : f # e.field => Served(s, e)[s][f] = row[s][f]
      /\ Served(s, e)[s][e.field] = v
  BY <1>1, <1>2, <1>3 DEF Row
<1>6. e.field = "handled" => Served(s, e)[s].handled
  BY <1>4, <1>5
<1>7. row[s].handled => Served(s, e)[s].handled
  BY <1>5, <1>6 DEF Fields
<1>. QED
  BY <1>5, <1>6, <1>7

\* The parts of the invariant that the edits of a student answer for are kept when the
\* first of them is answered: its token is given back.
LEMMA AnsweredEdit ==
  ASSUME Inv, NEW s \in Students, chain[s] # <<>>, NEW e, e = Head(chain[s]),
         chain' = [chain EXCEPT ![s] = Tail(@)],
         owner' \in [Students -> [Fields -> Nat]],
         \A x \in Students : x # s => owner'[x] = owner[x],
         \A f \in Fields : owner'[s][f] # 0 =>
           owner'[s][f] = owner[s][f] /\ (f = e.field => owner[s][f] # e.id)
  PROVE  /\ e \in Edit /\ Handles(e)
         /\ chain' \in [Students -> Seq(Edit)]
         /\ \A x \in Students : \A f \in Fields : Waits(x, f)'
         /\ \A x \in Students : \A i \in 1..Len(chain'[x]) : Handles(chain'[x][i])
<1>1. chain \in [Students -> Seq(Edit)] /\ chain[s] \in Seq(Edit)
  BY DEF Inv, Types
<1>2. /\ Len(chain[s]) \in Nat /\ Len(chain[s]) # 0 /\ e = chain[s][1] /\ e \in Edit
      /\ Tail(chain[s]) \in Seq(Edit) /\ Len(Tail(chain[s])) = Len(chain[s]) - 1
      /\ \A i \in 1..Len(Tail(chain[s])) : Tail(chain[s])[i] = chain[s][i + 1]
  BY <1>1, HeadTailProperties
<1>3. chain'[s] = Tail(chain[s]) /\ \A x \in Students : x # s => chain'[x] = chain[x]
  BY <1>1
<1>4. Handles(e)
  BY <1>2 DEF Inv
<1>5. ASSUME NEW x \in Students, NEW f \in Fields
      PROVE  Waits(x, f)'
  <2>1. CASE x # s
    BY <1>3, <2>1 DEF Inv, Waits
  <2>2. CASE x = s /\ owner'[x][f] # 0
    <3>1. PICK i \in 1..Len(chain[s]) : chain[s][i].id = owner[s][f] /\ chain[s][i].field = f
      BY <2>2 DEF Inv, Waits
    <3>2. i # 1
      BY <1>2, <2>2, <3>1
    <3>3. i - 1 \in 1..Len(Tail(chain[s])) /\ Tail(chain[s])[i - 1] = chain[s][i]
      BY <1>2, <3>2
    <3>. QED
      BY <1>3, <2>2, <3>1, <3>3 DEF Waits
  <2>. QED
    BY <2>1, <2>2 DEF Waits
<1>6. ASSUME NEW x \in Students, NEW i \in 1..Len(chain'[x])
      PROVE  Handles(chain'[x][i])
  <2>1. CASE x # s
    BY <1>3, <2>1 DEF Inv
  <2>2. CASE x = s
    <3>1. chain'[x] = Tail(chain[s])
      BY <1>3, <2>2
    <3>2. i \in 1..Len(Tail(chain[s])) /\ chain'[x][i] = Tail(chain[s])[i]
      BY <3>1
    <3>3. i + 1 \in 1..Len(chain[s]) /\ Tail(chain[s])[i] = chain[s][i + 1]
      BY <1>2, <3>2
    <3>. QED
      BY <3>2, <3>3 DEF Inv
  <2>. QED
    BY <2>1, <2>2
<1>. QED
  BY <1>1, <1>2, <1>3, <1>4, <1>5, <1>6

\* The fields an answer tells about.
ToldOf(e) == IF e.field = "help" THEN {"help"} ELSE Fields

\* What the answer puts on the screen.
LEMMA PatchFacts ==
  ASSUME NEW s, NEW e, NEW r \in Row, NEW old \in Row
  PROVE  /\ Patched(old, Patch(r, s, e)) \in Row
         /\ \A f \in Fields : Patched(old, Patch(r, s, e))[f] =
              IF f \in ToldOf(e) /\ owner[s][f] \in {0, e.id} THEN r[f] ELSE old[f]
<1>1. DOMAIN Told(r, e) = ToldOf(e)
  BY DEF Told, ToldOf
<1>2. /\ DOMAIN Patch(r, s, e) = {g \in ToldOf(e) : owner[s][g] \in {0, e.id}}
      /\ \A f \in DOMAIN Patch(r, s, e) : Patch(r, s, e)[f] = r[f]
  BY <1>1 DEF Patch
<1>. QED
  BY <1>2 DEF Patched, Row

\* What it puts among the confirmed rows.
LEMMA ToldFacts ==
  ASSUME NEW e, NEW r \in Row, NEW old \in Row
  PROVE  /\ Patched(old, Told(r, e)) \in Row
         /\ \A f \in Fields :
              Patched(old, Told(r, e))[f] = IF f \in ToldOf(e) THEN r[f] ELSE old[f]
<1>1. DOMAIN Told(r, e) = ToldOf(e) /\ \A f \in ToldOf(e) : Told(r, e)[f] = r[f]
  BY DEF Told, ToldOf
<1>. QED
  BY <1>1 DEF Patched, Row

\* Giving back the token of an edit.
LEMMA TokensType ==
  ASSUME Inv, NEW s \in Students, NEW e \in Edit,
         owner' = [owner EXCEPT ![s] = Tokens(s, e)]
  PROVE  /\ owner' \in [Students -> [Fields -> Nat]]
         /\ \A x \in Students : x # s => owner'[x] = owner[x]
         /\ \A f \in Fields : owner'[s][f] =
              IF f = e.field /\ owner[s][f] = e.id THEN 0 ELSE owner[s][f]
<1>1. e.field \in Fields /\ owner \in [Students -> [Fields -> Nat]]
  BY DEF Inv, Types, Edit
<1>2. /\ Tokens(s, e) \in [Fields -> Nat]
      /\ \A f \in Fields : Tokens(s, e)[f] =
           IF f = e.field /\ owner[s][f] = e.id THEN 0 ELSE owner[s][f]
  BY <1>1 DEF Tokens
<1>. QED
  BY <1>1, <1>2

\* What the service holds changes, but handled stays handled, and the rows on the screen
\* are backed: the rest of the invariant follows.
LEMMA RowsChange ==
  ASSUME Inv, Types', UNCHANGED <<loads, loaded>>,
         \A s \in Students : row[s].handled => row'[s].handled,
         \A s \in Listed \ Listed' : row'[s].handled,
         \A s \in Students : \A f \in Fields : Waits(s, f)',
         \A s \in Students : \A i \in 1..Len(chain'[s]) : Handles(chain'[s][i]),
         \A s \in Listed' : Backed(s)'
  PROVE  Inv'
<1>1. \A l \in loads' : Full(l)'
  BY DEF Inv, Full
<1>2. loaded' = "all" => \A s \in Students \ Listed' : row'[s].handled
  BY DEF Inv
<1>. QED
  BY <1>1, <1>2 DEF Inv

\* An edit is saved and answered.
LEMMA SavedKeeps ==
  ASSUME Inv, NEW s \in Students, EditSaved(s), NEW e, e = Head(chain[s])
  PROVE  Inv'
<1>0. /\ row \in [Students -> Row] /\ Listed \in SUBSET Students
      /\ shown \in [Listed -> Row] /\ confirmed \in [Listed -> Row]
      /\ owner \in [Students -> [Fields -> Nat]] /\ edits \in Nat /\ loads \subseteq Loads
  BY DEF Inv, Types
<1>1. /\ chain[s] # <<>> /\ row' = Served(s, e)
      /\ doubt' = IF e.field = "help" THEN doubt ELSE doubt \ {s}
      /\ chain' = [chain EXCEPT ![s] = Tail(@)]
      /\ UNCHANGED <<edits, loads, loaded>>
  BY DEF EditSaved
<1>2. e \in Edit /\ Handles(e)
  <2>1. chain[s] \in Seq(Edit) /\ chain[s] # <<>>
    BY <1>1 DEF Inv, Types
  <2>2. Len(chain[s]) \in Nat /\ Len(chain[s]) # 0 /\ e = chain[s][1] /\ e \in Edit
    BY <2>1, HeadTailProperties
  <2>. QED
    BY <2>2 DEF Inv
<1>3. /\ row' \in [Students -> Row]
      /\ \A x \in Students : x # s => row'[x] = row[x]
      /\ \A f \in Fields : f # e.field => row'[s][f] = row[s][f]
      /\ \A x \in Students : row[x].handled => row'[x].handled
      /\ e.field = "handled" => row'[s].handled
  BY <1>0, <1>1, <1>2, ServedType
<1>4. e.field \in Fields
  BY <1>2 DEF Edit
<1>5. CASE e.field = "handled" /\ Removed(s)
  <2>1. /\ shown' = Without(shown, s) /\ confirmed' = Without(confirmed, s)
        /\ owner' = [owner EXCEPT ![s] = [f \in Fields |-> 0]]
    BY <1>5 DEF Removed
  <2>2. /\ Listed' = Listed \ {s} /\ shown' \in [Listed' -> Row] /\ confirmed' \in [Listed' -> Row]
        /\ \A x \in Listed' : shown'[x] = shown[x] /\ confirmed'[x] = confirmed[x]
    BY <1>0, <2>1 DEF Without, Listed
  <2>3. /\ owner' \in [Students -> [Fields -> Nat]]
        /\ \A x \in Students : x # s => owner'[x] = owner[x]
        /\ \A f \in Fields : owner'[s][f] = 0
    BY <1>0, <2>1
  <2>4. /\ chain' \in [Students -> Seq(Edit)]
        /\ \A x \in Students : \A f \in Fields : Waits(x, f)'
        /\ \A x \in Students : \A i \in 1..Len(chain'[x]) : Handles(chain'[x][i])
    BY <1>1, <2>3, AnsweredEdit
  <2>5. Types'
    BY <1>0, <1>1, <1>3, <2>2, <2>3, <2>4 DEF Types
  <2>6. ASSUME NEW x \in Listed'
        PROVE  Backed(x)'
    <3>1. x \in Listed /\ x # s /\ x \in Students /\ Backed(x)
      BY <1>0, <2>2 DEF Inv
    <3>. QED
      BY <1>1, <1>3, <2>2, <2>3, <3>1 DEF Backed
  <2>. QED
    BY <1>1, <1>3, <1>5, <2>2, <2>4, <2>5, <2>6, RowsChange
<1>6. CASE /\ owner' = [owner EXCEPT ![s] = Tokens(s, e)]
           /\ shown' = IF s \notin Listed THEN shown
                       ELSE [shown EXCEPT ![s] = Patched(@, Patch(row'[s], s, e))]
           /\ confirmed' = IF s \notin Listed THEN confirmed
                           ELSE Settle(shown', [confirmed EXCEPT ![s] =
                                                  Patched(@, Told(row'[s], e))], owner')
  <2>1. /\ owner' \in [Students -> [Fields -> Nat]]
        /\ \A x \in Students : x # s => owner'[x] = owner[x]
        /\ \A f \in Fields : owner'[s][f] =
             IF f = e.field /\ owner[s][f] = e.id THEN 0 ELSE owner[s][f]
    BY <1>2, <1>6, TokensType
  <2>2. /\ chain' \in [Students -> Seq(Edit)]
        /\ \A x \in Students : \A f \in Fields : Waits(x, f)'
        /\ \A x \in Students : \A i \in 1..Len(chain'[x]) : Handles(chain'[x][i])
    BY ZenonT(60), <1>1, <2>1, AnsweredEdit
  <2>3. CASE s \notin Listed
    <3>1. shown' = shown /\ confirmed' = confirmed /\ Listed' = Listed
      BY <1>6, <2>3 DEF Listed
    <3>2. Types'
      BY <1>0, <1>1, <1>3, <2>1, <2>2, <3>1 DEF Types
    <3>3. ASSUME NEW x \in Listed'
          PROVE  Backed(x)'
      <4>1. x \in Listed /\ x # s /\ x \in Students /\ Backed(x)
        BY <1>0, <2>3, <3>1 DEF Inv
      <4>. QED
        BY <1>1, <1>3, <2>1, <3>1, <4>1 DEF Backed
    <3>. QED
      BY <1>1, <1>3, <2>2, <3>1, <3>2, <3>3, RowsChange
  <2>4. CASE s \in Listed
    <3> DEFINE new == Patched(shown[s], Patch(row'[s], s, e))
               told == Patched(confirmed[s], Told(row'[s], e))
               cf == [confirmed EXCEPT ![s] = told]
    <3>1. shown' = [shown EXCEPT ![s] = new] /\ confirmed' = Settle(shown', cf, owner')
      BY <1>6, <2>4
    <3>2. /\ new \in Row /\ told \in Row
          /\ \A f \in Fields :
               /\ told[f] = IF f \in ToldOf(e) THEN row'[s][f] ELSE confirmed[s][f]
               /\ new[f] = IF f \in ToldOf(e) /\ owner[s][f] \in {0, e.id}
                           THEN row'[s][f] ELSE shown[s][f]
      <4>1. row'[s] \in Row /\ shown[s] \in Row /\ confirmed[s] \in Row
        BY <1>0, <1>3, <2>4
      <4>2. /\ new \in Row
            /\ \A f \in Fields : new[f] = IF f \in ToldOf(e) /\ owner[s][f] \in {0, e.id}
                                         THEN row'[s][f] ELSE shown[s][f]
        BY <4>1, PatchFacts
      <4>3. /\ told \in Row
            /\ \A f \in Fields : told[f] = IF f \in ToldOf(e) THEN row'[s][f] ELSE confirmed[s][f]
        BY <4>1, ToldFacts
      <4> HIDE DEF new, told
      <4>. QED
        BY <4>2, <4>3
    <3> HIDE DEF new, told
    <3>3. /\ shown' \in [Listed -> Row] /\ cf \in [Listed -> Row] /\ Listed' = Listed
          /\ shown'[s] = new /\ cf[s] = told
          /\ \A x \in Listed : x # s => shown'[x] = shown[x] /\ cf[x] = confirmed[x]
      BY <1>0, <2>4, <3>1, <3>2 DEF Listed
    <3> HIDE DEF cf
    <3>4. /\ confirmed' \in [Listed -> Row]
          /\ \A x \in Listed : \A f \in Fields :
               /\ owner'[x][f] = 0 => confirmed'[x][f] = shown'[x][f]
               /\ owner'[x][f] # 0 => confirmed'[x][f] = cf[x][f]
      <4>1. /\ Settle(shown', cf, owner') \in [Listed -> Row]
            /\ \A x \in Listed : \A f \in Fields :
                 /\ owner'[x][f] = 0 => Settle(shown', cf, owner')[x][f] = shown'[x][f]
                 /\ owner'[x][f] # 0 => Settle(shown', cf, owner')[x][f] = cf[x][f]
        BY <1>0, <2>1, <3>3, SettleType
      <4>. QED
        BY <3>1, <4>1
    <3>5. Types'
      BY <1>0, <1>1, <1>3, <2>1, <2>2, <3>3, <3>4 DEF Types
    <3>6. ASSUME NEW x \in Listed', NEW f \in Fields
          PROVE  /\ owner'[x][f] = 0 => shown'[x][f] = confirmed'[x][f]
                 /\ x \notin doubt' => confirmed'[x][f] = row'[x][f]
      <4>1. /\ x \in Listed /\ x \in Students
            /\ owner[x][f] = 0 => shown[x][f] = confirmed[x][f]
            /\ x \notin doubt => confirmed[x][f] = row[x][f]
        BY <1>0, <3>3 DEF Inv, Backed
      <4>2. CASE x # s
        BY <1>1, <1>3, <2>1, <3>3, <3>4, <4>1, <4>2
      <4>3. CASE x = s /\ f \in ToldOf(e)
        <5>1. told[f] = row'[s][f]
          BY <3>2, <4>3
        <5>2. owner'[s][f] = 0 => owner[s][f] \in {0, e.id} /\ new[f] = row'[s][f]
          BY <1>0, <2>1, <3>2, <4>3
        <5>. QED
          BY <3>3, <3>4, <4>1, <4>3, <5>1, <5>2
      <4>4. CASE x = s /\ f \notin ToldOf(e)
        <5>1. told[f] = confirmed[s][f] /\ new[f] = shown[s][f]
          BY <3>2, <4>4
        <5>2. e.field = "help" /\ f # e.field
          BY <4>4 DEF ToldOf
        <5>3. owner'[s][f] = owner[s][f] /\ row'[s][f] = row[s][f] /\ doubt' = doubt
          BY <1>1, <1>3, <2>1, <5>2
        <5>. QED
          BY <3>3, <3>4, <4>1, <4>4, <5>1, <5>3
      <4>. QED
        BY <4>2, <4>3, <4>4
    <3>7. \A x \in Listed' : Backed(x)'
      BY <3>6 DEF Backed
    <3>. QED
      BY <1>1, <1>3, <2>2, <3>3, <3>5, <3>7, RowsChange
  <2>. QED
    BY <2>3, <2>4
<1>. QED
  BY <1>1, <1>5, <1>6 DEF EditSaved

\* An edit fails, or its answer is lost.
LEMMA FailsKeeps ==
  ASSUME Inv, NEW s \in Students, EditFails(s), NEW e, e = Head(chain[s])
  PROVE  Inv'
<1>0. /\ row \in [Students -> Row] /\ Listed \in SUBSET Students
      /\ shown \in [Listed -> Row] /\ confirmed \in [Listed -> Row]
      /\ owner \in [Students -> [Fields -> Nat]] /\ edits \in Nat /\ loads \subseteq Loads
  BY DEF Inv, Types
<1>1. /\ chain[s] # <<>>
      /\ UNCHANGED <<row, doubt>> \/ (row' = Served(s, e) /\ doubt' = doubt \cup {s})
      /\ owner' = [owner EXCEPT ![s] = Tokens(s, e)]
      /\ shown' = RolledBack(s, e)
      /\ confirmed' = Settle(shown', confirmed, owner')
      /\ chain' = [chain EXCEPT ![s] = Tail(@)]
      /\ UNCHANGED <<edits, loads, loaded>>
  BY DEF EditFails
<1>2. e \in Edit /\ Handles(e)
  <2>1. chain[s] \in Seq(Edit) /\ chain[s] # <<>>
    BY <1>1 DEF Inv, Types
  <2>2. Len(chain[s]) \in Nat /\ Len(chain[s]) # 0 /\ e = chain[s][1] /\ e \in Edit
    BY <2>1, HeadTailProperties
  <2>. QED
    BY <2>2 DEF Inv
<1>3. /\ row' \in [Students -> Row]
      /\ \A x \in Students : x # s \/ x \notin doubt' => row'[x] = row[x]
      /\ \A x \in Students : row[x].handled => row'[x].handled
      /\ \A x \in doubt : x \in doubt'
  BY <1>0, <1>1, <1>2, ServedType
<1>4. e.field \in Fields
  BY <1>2 DEF Edit
<1>5. /\ owner' \in [Students -> [Fields -> Nat]]
      /\ \A x \in Students : x # s => owner'[x] = owner[x]
      /\ \A f \in Fields : owner'[s][f] =
           IF f = e.field /\ owner[s][f] = e.id THEN 0 ELSE owner[s][f]
  BY <1>1, <1>2, TokensType
<1>6. /\ chain' \in [Students -> Seq(Edit)]
      /\ \A x \in Students : \A f \in Fields : Waits(x, f)'
      /\ \A x \in Students : \A i \in 1..Len(chain'[x]) : Handles(chain'[x][i])
  <2>1. \A f \in Fields : owner'[s][f] # 0 =>
          owner'[s][f] = owner[s][f] /\ (f = e.field => owner[s][f] # e.id)
    BY <1>5
  <2>2. /\ chain[s] # <<>> /\ chain' = [chain EXCEPT ![s] = Tail(@)]
        /\ owner' \in [Students -> [Fields -> Nat]]
        /\ \A x \in Students : x # s => owner'[x] = owner[x]
    BY <1>1, <1>5
  <2>. QED
    BY ZenonT(60), <2>1, <2>2, AnsweredEdit
<1>7. /\ shown' \in [Listed -> Row] /\ Listed' = Listed
      /\ \A x \in Listed : \A f \in Fields :
           shown'[x][f] = IF x = s /\ f = e.field /\ owner[s][f] = e.id
                          THEN confirmed[x][f] ELSE shown[x][f]
  <2>1. CASE s \in Listed /\ owner[s][e.field] = e.id
    <3>1. /\ shown' = [shown EXCEPT ![s][e.field] = confirmed[s][e.field]]
          /\ confirmed[s][e.field] \in BOOLEAN
      BY <1>0, <1>1, <1>4, <2>1 DEF RolledBack, Row
    <3>. QED
      BY <1>0, <1>4, <2>1, <3>1 DEF Row, Listed
  <2>2. CASE ~(s \in Listed /\ owner[s][e.field] = e.id)
    <3>1. shown' = shown
      BY <1>1, <2>2 DEF RolledBack
    <3>. QED
      BY <1>0, <2>2, <3>1 DEF Listed
  <2>. QED
    BY <2>1, <2>2
<1>8. /\ confirmed' \in [Listed -> Row]
      /\ \A x \in Listed : \A f \in Fields :
           /\ owner'[x][f] = 0 => confirmed'[x][f] = shown'[x][f]
           /\ owner'[x][f] # 0 => confirmed'[x][f] = confirmed[x][f]
  <2>1. /\ Settle(shown', confirmed, owner') \in [Listed -> Row]
        /\ \A x \in Listed : \A f \in Fields :
             /\ owner'[x][f] = 0 => Settle(shown', confirmed, owner')[x][f] = shown'[x][f]
             /\ owner'[x][f] # 0 => Settle(shown', confirmed, owner')[x][f] = confirmed[x][f]
    BY <1>0, <1>5, <1>7, SettleType
  <2>. QED
    BY <1>1, <2>1
<1>9. Types'
  BY <1>0, <1>1, <1>3, <1>5, <1>6, <1>7, <1>8 DEF Types
<1>10. ASSUME NEW x \in Listed', NEW f \in Fields
       PROVE  /\ owner'[x][f] = 0 => shown'[x][f] = confirmed'[x][f]
              /\ x \notin doubt' => confirmed'[x][f] = row'[x][f]
  <2>1. /\ x \in Listed /\ x \in Students
        /\ owner[x][f] = 0 => shown[x][f] = confirmed[x][f]
        /\ x \notin doubt => confirmed[x][f] = row[x][f]
    BY <1>0, <1>7 DEF Inv, Backed
  <2>2. x \notin doubt' => row'[x] = row[x] /\ confirmed[x][f] = row[x][f]
    BY <1>3, <2>1
  <2>3. owner'[x][f] = 0 => shown'[x][f] = confirmed[x][f]
    BY <1>5, <1>7, <2>1
  <2>. QED
    BY <1>8, <2>1, <2>2, <2>3
<1>11. \A x \in Listed' : Backed(x)'
  BY <1>10 DEF Backed
<1>. QED
  BY <1>1, <1>3, <1>6, <1>7, <1>9, <1>11, RowsChange

\* A load that is asked for, taken by the service or lost; the filter, the card and the call.
LEMMA LoadsChange ==
  ASSUME Inv, UNCHANGED <<row, rows, loaded, doubt>>, loads' \subseteq Loads,
         \A l \in loads' : Full(l)'
  PROVE  Inv'
BY DEF Inv, Types, Waits, Backed, Listed, rows

\* A load asked for.
LEMMA AskedLoad ==
  ASSUME Inv, NEW f, Load(f), UNCHANGED <<row, rows, loaded, doubt>>
  PROVE  Inv'
<1> DEFINE l == [filter |-> IF f = "intent" THEN f ELSE "all", answer |-> <<>>]
<1>1. loads' = loads \cup {l} /\ l \in Loads /\ l.answer = <<>>
  BY DEF Load, Loads
<1> HIDE DEF l
<1>2. \A x \in loads' : Full(x)'
  BY <1>1 DEF Full, Inv, rows
<1>. QED
  BY <1>1, <1>2, LoadsChange DEF Inv, Types

\* The service takes a load.
LEMMA TakenLoad ==
  ASSUME Inv, NEW l, LoadTaken(l)
  PROVE  Inv'
<1> DEFINE new == [s \in Answer(l.filter) |-> row[s]]
           m == [l EXCEPT !.answer = <<new>>]
<1>1. /\ l \in Loads /\ loads' = (loads \ {l}) \cup {m}
      /\ UNCHANGED <<row, rows, loaded, doubt>>
  BY DEF LoadTaken, Inv, Types
<1>2. new \in Tables /\ DOMAIN new = Answer(l.filter)
  <2>1. Answer(l.filter) \in SUBSET Students
    BY DEF Answer
  <2>2. new \in [Answer(l.filter) -> Row]
    BY <2>1 DEF Inv, Types
  <2>. QED
    BY <2>1, <2>2 DEF Tables
<1> HIDE DEF new
<1>3. m \in Loads /\ m.filter = l.filter /\ m.answer = <<new>> /\ m.answer[1] = new
  BY <1>1, <1>2 DEF Loads
<1> HIDE DEF m
<1>4. Full(m)
  <2>1. m.filter = "all" => \A s \in Students \ DOMAIN new : row[s].handled
    BY <1>2, <1>3 DEF Answer
  <2>. QED
    BY <1>3, <2>1 DEF Full
<1>5. \A x \in loads' : Full(x)'
  BY <1>1, <1>4 DEF Full, Inv
<1>. QED
  BY <1>1, <1>3, <1>5, LoadsChange DEF Inv, Types

\* The answer of a load is shown.
LEMMA ShownLoad ==
  ASSUME Inv, NEW l, LoadShown(l), NEW new, new = l.answer[1]
  PROVE  Inv'
<1>1. /\ l \in loads /\ l \in Loads /\ l.answer # <<>> /\ loads' = loads \ {l}
      /\ shown' = new /\ confirmed' = new /\ doubt' = Outdated(new, l.filter)
      /\ loaded' = l.filter /\ UNCHANGED <<row, owner, chain, edits>>
  BY DEF LoadShown, Inv, Types
<1>2. PICK L \in SUBSET Students : new \in [L -> Row]
  <2>1. l.answer \in {<<x>> : x \in Tables}
    BY <1>1 DEF Loads
  <2>2. new \in Tables
    BY <2>1
  <2>. QED
    BY <2>2 DEF Tables
<1>3. Listed' = L
  BY <1>1, <1>2 DEF Listed
<1>4. Types'
  BY <1>1, <1>2, <1>3 DEF Inv, Types
<1>5. ASSUME NEW x \in L
      PROVE  Backed(x)'
  <2>1. x \notin doubt' => new[x] = row[x]
    BY <1>1, <1>2 DEF Outdated
  <2>. QED
    BY <1>1, <2>1 DEF Backed
<1>6. loaded' = "all" => \A s \in Students \ L : row[s].handled
  BY <1>1, <1>2 DEF Inv, Full
<1>7. \A x \in loads' : Full(x)'
  BY <1>1 DEF Inv, Full
<1>. QED
  BY <1>1, <1>3, <1>4, <1>5, <1>6, <1>7 DEF Inv, Waits

\* The result of a call takes the student off the list.
LEMMA CallKeeps ==
  ASSUME Inv, CallSaved
  PROVE  Inv'
<1>0. /\ row \in [Students -> Row] /\ Listed \in SUBSET Students
      /\ shown \in [Listed -> Row] /\ confirmed \in [Listed -> Row]
  BY DEF Inv, Types
<1>1. /\ row' = [row EXCEPT ![locked].handled = TRUE]
      /\ shown' = Without(shown, locked) /\ confirmed' = Without(confirmed, locked)
      /\ doubt' = doubt \ {locked}
      /\ UNCHANGED <<owner, chain, edits, loads, loaded>>
  BY DEF CallSaved
<1>2. /\ row' \in [Students -> Row]
      /\ \A x \in Students : x # locked => row'[x] = row[x]
      /\ locked \in Students => row'[locked].handled
  BY <1>0, <1>1 DEF Row, Fields
<1>3. /\ Listed' = Listed \ {locked} /\ shown' \in [Listed' -> Row] /\ confirmed' \in [Listed' -> Row]
      /\ \A x \in Listed' : shown'[x] = shown[x] /\ confirmed'[x] = confirmed[x]
  BY <1>0, <1>1 DEF Without, Listed
<1>4. Types'
  BY <1>0, <1>1, <1>2, <1>3 DEF Inv, Types
<1>5. ASSUME NEW x \in Listed'
      PROVE  Backed(x)'
  <2>1. x \in Listed /\ x # locked /\ x \in Students /\ Backed(x)
    BY <1>0, <1>3 DEF Inv
  <2>. QED
    BY <1>1, <1>2, <1>3, <2>1 DEF Backed
<1>6. \A s \in Students : \A f \in Fields : Waits(s, f)'
  BY <1>1 DEF Inv, Waits
<1>7. \A s \in Students : \A i \in 1..Len(chain'[s]) : Handles(chain'[s][i])
  BY <1>1 DEF Inv
<1>8. \A s \in Students : row[s].handled => row'[s].handled
  BY <1>2
<1>9. \A s \in Listed \ Listed' : row'[s].handled
  BY <1>0, <1>2, <1>3
<1>. QED
  BY <1>1, <1>4, <1>5, <1>6, <1>7, <1>8, <1>9, RowsChange

\* Every step keeps the invariant.
LEMMA StepInv ==
  ASSUME Inv, [Next]_vars
  PROVE  Inv'
<1>1. ASSUME NEW s \in Students, UpdateStatus(s)
      PROVE  Inv'
  BY <1>1, StartKeeps DEF UpdateStatus, Fields
<1>2. ASSUME NEW s \in Students, NEW v \in BOOLEAN, UpdateIntent(s, v)
      PROVE  Inv'
  <2>1. "intent" \in Fields /\ "intent" # "handled" /\ StartEdit(s, "intent", v)
    BY <1>2 DEF UpdateIntent, Fields
  <2>. QED
    BY <2>1, StartKeeps
<1>3. CASE ToggleHelp
  <2>1. /\ "help" \in Fields /\ "help" # "handled"
        /\ StartEdit(Current, "help", ~shown[Current].help)
        /\ (~shown[Current].help) \in BOOLEAN
    BY <1>3 DEF ToggleHelp, Fields
  <2>. QED
    BY <2>1, StartKeeps
<1>4. ASSUME NEW s \in Students, EditSaved(s) \/ EditFails(s)
      PROVE  Inv'
  BY <1>4, SavedKeeps, FailsKeeps
<1>5. ASSUME SendLoad \/ (\E f \in Filters : SetFilter(f)) \/ (\E l \in loads : LoadFails(l))
             \/ Dial \/ HangUp \/ (\E i \in 1 .. Cardinality(Students) : Step(i))
             \/ UNCHANGED vars
      PROVE  Inv'
  <2>1. UNCHANGED <<row, rows, loaded, doubt>>
    BY <1>5 DEF SendLoad, SetFilter, LoadFails, Dial, HangUp, Step, vars
  <2>2. (\E f : Load(f)) \/ loads' \subseteq loads
    BY <1>5 DEF SendLoad, SetFilter, LoadFails, Dial, HangUp, Step, vars
  <2>3. ASSUME loads' \subseteq loads
        PROVE  Inv'
    <3>1. \A l \in loads' : Full(l)'
      BY <2>1, <2>3 DEF Inv, Full
    <3>. QED
      BY <2>1, <2>3, <3>1, LoadsChange DEF Inv, Types
  <2>. QED
    BY <2>1, <2>2, <2>3, AskedLoad
<1>. QED
  BY <1>1, <1>2, <1>3, <1>4, <1>5, TakenLoad, ShownLoad, CallKeeps DEF Next

\* The invariant.
LEMMA Invariant == Spec => []Inv
<1>1. Init => Inv
  BY InitInv
<1>2. Inv /\ [Next]_vars => Inv'
  BY StepInv
<1>. QED
  BY <1>1, <1>2, PTL DEF Spec

\* SettledRowIsTrue: once the edits of a row are answered it shows what the service holds,
\* however many edits of a student failed, were saved or were overtaken by newer ones and
\* by loads of the list (executeOptimisticUpdate).
THEOREM SettledRowsAreTrue == Spec => []SettledRowIsTrue
<1>1. Inv => SettledRowIsTrue
  <2> SUFFICES ASSUME Inv, NEW s \in Listed, Settled(s)
               PROVE  shown[s] = row[s]
    BY DEF SettledRowIsTrue
  <2>1. s \in Students /\ shown[s] \in Row /\ row[s] \in Row
    BY DEF Inv, Types
  <2>2. 1..Len(chain[s]) = {}
    <3>1. Len(chain[s]) = 0
      BY DEF Settled
    <3>. QED
      BY <3>1
  <2>3. \A f \in Fields : owner[s][f] = 0
    BY <2>1, <2>2 DEF Inv, Waits
  <2>4. \A f \in Fields : shown[s][f] = row[s][f]
    BY <2>3 DEF Inv, Backed, Settled
  <2>. QED
    BY <2>1, <2>4 DEF Row
<1>. QED
  BY <1>1, Invariant, PTL

\* NobodyDropped: a student who is not on the full list was handled, whatever failed, was
\* lost or came late.
THEOREM NobodyIsDropped == Spec => []NobodyDropped
<1>1. Inv => NobodyDropped
  BY DEF Inv, NobodyDropped
<1>. QED
  BY <1>1, Invariant, PTL

-----------------------------------------------------------------------------
(* The card. *)

\* No two cards have the same place.
LEMMA PlacesDiffer ==
  ASSUME NEW S \in SUBSET Nat, IsFiniteSet(S), NEW s \in S, NEW t \in S, s < t
  PROVE  Place(S, s) # Place(S, t)
<1> DEFINE A == {u \in S : u <= s}
           B == {u \in S : u <= t}
<1>0. s \in Nat /\ t \in Nat /\ \A u \in S : u \in Nat
  OBVIOUS
<1>1. A \subseteq B
  <2>1. ASSUME NEW u \in S, u <= s PROVE u <= t
    BY <1>0, <2>1
  <2>. QED
    BY <2>1, Zenon
<1>2. t \in B /\ t \notin A
  <2>1. t <= t /\ ~(t <= s)
    BY <1>0
  <2>. QED
    BY <2>1, Zenon
<1>3. IsFiniteSet(B)
  <2>1. B \subseteq S
    BY Zenon
  <2>. QED
    BY <2>1, FS_Subset
<1> HIDE DEF A, B
<1>4. Cardinality(A) = Cardinality(B) => A = B
  BY <1>1, <1>3, FS_Subset
<1>. QED
  BY <1>2, <1>4 DEF Place, A, B

\* A card is found again at its place.
LEMMA CardAtPlace ==
  ASSUME NEW S \in SUBSET Students, NEW s \in S
  PROVE  /\ Place(S, s) <= Cardinality(S)
         /\ Place(S, s) \in Nat /\ Cardinality(S) \in Nat
         /\ s = CHOOSE t \in S : Place(S, t) = Place(S, s)
<1>1. S \in SUBSET Nat /\ IsFiniteSet(S) /\ s \in Nat
  BY FS_Subset
<1>2. Place(S, s) <= Cardinality(S) /\ Place(S, s) \in Nat /\ Cardinality(S) \in Nat
  <2> DEFINE A == {u \in S : u <= s}
  <2>1. A \subseteq S
    BY Zenon
  <2> HIDE DEF A
  <2>2. Cardinality(A) <= Cardinality(S) /\ Cardinality(A) \in Nat /\ Cardinality(S) \in Nat
    BY <1>1, <2>1, FS_Subset, FS_CardinalityType
  <2>. QED
    BY <2>2 DEF Place, A
<1>3. ASSUME NEW t \in S, Place(S, t) = Place(S, s) PROVE t = s
  <2>1. ~(t < s) /\ ~(s < t)
    BY <1>1, <1>3, PlacesDiffer
  <2>2. t \in Nat
    BY <1>1
  <2>. QED
    BY <1>1, <2>1, <2>2
<1>. QED
  BY <1>2, <1>3

\* LoadKeepsCard: with no filter a load that has the student of the card leaves the card
\* on that student, wherever the list has it now (currentStudentIdRef).
THEOREM LoadsKeepTheCard == Spec => LoadKeepsCard
<1>1. ASSUME Inv, NEW l \in loads, LoadShown(l), filter = "all", Current # 0,
             Current \in DOMAIN l.answer[1]
      PROVE  Current' = Current
  <2> DEFINE new == l.answer[1]
             S == DOMAIN new
             c == Current
             n == Place(S, c)
  <2>1. S \in SUBSET Students /\ c \in S
    <3>1. l \in Loads /\ l.answer # <<>>
      BY <1>1 DEF Inv, Types, LoadShown
    <3>2. new \in Tables
      BY <3>1 DEF Loads
    <3>. QED
      BY <1>1, <3>2 DEF Tables
  <2>2. /\ n <= Cardinality(S) /\ n \in Nat /\ Cardinality(S) \in Nat
        /\ c = CHOOSE t \in S : Place(S, t) = n
    BY <2>1, CardAtPlace
  <2>3. Cards(new, "all") = S
    BY DEF Cards, Passes
  <2>4. shown' = new /\ filter' = "all" /\ idx' = Clamp(n, new, "all")
    BY <1>1, <2>1 DEF LoadShown, Kept
  <2> HIDE DEF new, S, c, n
  <2>5. idx' = n
    BY <2>2, <2>3, <2>4 DEF Clamp
  <2>6. Cards(shown', filter') = S
    BY <2>3, <2>4
  <2>7. Current' = CHOOSE t \in S : Place(S, t) = n
    BY <2>2, <2>5, <2>6 DEF Current
  <2>. QED
    BY <2>2, <2>7 DEF c
<1>2. Inv /\ [Next]_vars =>
        [\A l \in loads : LoadShown(l) /\ filter = "all" /\ Current # 0 /\ Current \in DOMAIN l.answer[1]
           => Current' = Current]_vars
  BY <1>1
<1>. QED
  BY <1>2, Invariant, PTL DEF Spec, LoadKeepsCard

=============================================================================
