------------------------- MODULE BrowserSessionProofs -------------------------
(***************************************************************************)
(* The tabs of one browser, for any tabs, accounts and operations: what a  *)
(* tab knows of the session, and the operations of the queue.              *)
(*                                                                         *)
(* TabKnowsSession is inductive with what is on its way: the answer of     *)
(* /auth/me that a loading tab holds, and the tokens that forms got from   *)
(* the service, which are either older than the account or say the truth   *)
(* about it.  ExactlyOnce is inductive with the runs: an operation that    *)
(* the browser can follow is in one run at most, and stays in the queue    *)
(* until that run has its answer.                                          *)
(***************************************************************************)
EXTENDS BrowserSession, WellFoundedInduction, FiniteSetTheorems, TLAPS

USE OpsAssumption, TabsAssumption, BoundsAssumption

-----------------------------------------------------------------------------
(* Types. *)

Users == [who : Accounts, must : BOOLEAN]
\* A cookie, the answers of the forms, and a run of the queue.
Tokens == [who : Accounts, version : Nat]
Refusal == [who |-> "nobody"]
LoginForms == [kind : {"login"}, who : Accounts,
               answer : {None} \cup [who : Accounts, must : BOOLEAN, version : Nat]]
ChangeForms == [kind : {"change"}, who : Accounts, answer : {None, Refusal} \cup Tokens]
Runs == [left : (SUBSET Ops) \ {{}}, answer : {"none", "done", "refused", "password", "session"}]
\* A tab.
TabRow == [path : {"login", "change", "home"}, user : {None} \cup Users, loading : BOOLEAN,
           me : {<<>>} \cup {<<m>> : m \in {None} \cup Users},
           form : {None} \cup LoginForms \cup ChangeForms, sync : {None} \cup Runs]

\* The types.
Types ==
  /\ acct \in [Accounts -> [version : Nat, must : BOOLEAN]]
  /\ cookie \in {None} \cup Tokens
  /\ Open \subseteq Tabs /\ tab \in [Open -> TabRow]
  /\ queue \subseteq Ops /\ done \in [Ops -> Nat] /\ refused \subseteq Ops
  /\ online \in BOOLEAN

\* The order of the queue is one: its operations have a first.
LEMMA FirstOp ==
  ASSUME NEW S \in SUBSET Ops, S # {}
  PROVE  Min(S) \in S
<1> DEFINE R == OpToRel(<, Nat)
<1>1. IsWellFoundedOn(R, Nat)
  BY NatLessThanWellFounded
<1>2. \A x, y \in Nat : y < x => <<y, x>> \in R
  BY DEF OpToRel
<1> HIDE DEF R
<1>3. S \subseteq Nat
  OBVIOUS
<1>4. PICK x \in S : \A y \in S : ~ (<<y, x>> \in R)
  BY <1>1, <1>3, WFMin
<1>5. ASSUME NEW y \in S
      PROVE  x <= y
  <2>1. x \in Nat /\ y \in Nat /\ ~ (y < x)
    BY <1>2, <1>3, <1>4
  <2>. QED
    BY <2>1
<1>. QED
  BY <1>5 DEF Min

\* A page that loads.
LEMMA LoadingType ==
  ASSUME Types, NEW path \in {"login", "change", "home"}
  PROVE  /\ Loading(path) \in TabRow /\ Loading(path).loading /\ Loading(path).me = <<>>
         /\ Loading(path).form = None /\ Loading(path).sync = Run /\ Run \in {None} \cup Runs
<1>1. Run \in {None} \cup Runs
  BY DEF Run, Runs, Types
<1>. QED
  BY <1>1 DEF Loading, TabRow

\* Where the router sends a tab.
LEMMA RoutedFacts ==
  ASSUME NEW r \in TabRow
  PROVE  /\ Routed(r) \in TabRow
         /\ Routed(r).user = r.user /\ Routed(r).loading = r.loading /\ Routed(r).me = r.me
         /\ Routed(r).form = r.form /\ Routed(r).sync = r.sync
         /\ Routed(r).path # "login" => r.user # None
<1> DEFINE p == CASE r.user = None -> "login"
                  [] r.user # None /\ r.path = "change" -> "change"
                  [] r.user # None /\ r.path # "change" -> IF r.user.must THEN "change" ELSE "home"
<1>1. p \in {"login", "change", "home"} /\ (p # "login" => r.user # None)
  OBVIOUS
<1>2. Routed(r) = [r EXCEPT !.path = p]
  BY DEF Routed
<1> HIDE DEF p
<1>. QED
  BY <1>1, <1>2 DEF TabRow

\* Changes of the parts of a tab.
LEMMA TabParts ==
  ASSUME NEW r \in TabRow
  PROVE  /\ \A m \in {None} \cup Users :
              LET q == [r EXCEPT !.me = <<m>>]
              IN  /\ q \in TabRow /\ q.me = <<m>> /\ q.path = r.path /\ q.user = r.user
                  /\ q.loading = r.loading /\ q.form = r.form /\ q.sync = r.sync
         /\ \A f \in {None} \cup LoginForms \cup ChangeForms :
              LET q == [r EXCEPT !.form = f]
              IN  /\ q \in TabRow /\ q.form = f /\ q.path = r.path /\ q.user = r.user
                  /\ q.loading = r.loading /\ q.me = r.me /\ q.sync = r.sync
         /\ \A x \in {None} \cup Runs :
              LET q == [r EXCEPT !.sync = x]
              IN  /\ q \in TabRow /\ q.sync = x /\ q.path = r.path /\ q.user = r.user
                  /\ q.loading = r.loading /\ q.me = r.me /\ q.form = r.form
BY DEF TabRow

\* None is no record of anything.
LEMMA Apart ==
  /\ None \notin Tokens /\ None \notin Users /\ None \notin LoginForms /\ None \notin ChangeForms
  /\ None \notin Runs /\ Refusal \notin Tokens /\ Refusal # None
  /\ \A f \in LoginForms : f.answer # None => f.answer \in [who : Accounts, must : BOOLEAN, version : Nat]
  /\ \A f \in LoginForms : f \notin ChangeForms
<1>1. \A x \in Tokens : DOMAIN x = {"who", "version"}
  BY DEF Tokens
<1>2. \A x \in Users : DOMAIN x = {"who", "must"}
  BY DEF Users
<1>3. \A x \in LoginForms \cup ChangeForms : DOMAIN x = {"kind", "who", "answer"}
  BY DEF LoginForms, ChangeForms
<1>4. \A x \in Runs : DOMAIN x = {"left", "answer"}
  BY DEF Runs
<1>5. DOMAIN None = {"none"} /\ DOMAIN Refusal = {"who"}
  BY DEF None, Refusal
<1>6. \A f \in LoginForms : f.answer # None => f.answer \in [who : Accounts, must : BOOLEAN, version : Nat]
  BY DEF LoginForms
<1>7. \A f \in LoginForms : f.kind = "login"
  BY DEF LoginForms
<1>8. \A f \in ChangeForms : f.kind = "change"
  BY DEF ChangeForms
<1>9. \A f \in LoginForms : f \notin ChangeForms
  BY <1>7, <1>8
<1>. QED
  BY <1>1, <1>2, <1>3, <1>4, <1>5, <1>6, <1>9

\* Rows that get or lose a user.
LEMMA UserParts ==
  ASSUME NEW r \in TabRow
  PROVE  \A u \in {None} \cup Users :
           /\ LET q == [r EXCEPT !.user = u, !.loading = FALSE, !.me = <<>>]
              IN  /\ q \in TabRow /\ q.user = u /\ ~q.loading /\ q.me = <<>>
                  /\ q.form = r.form /\ q.sync = r.sync
           /\ LET q == [r EXCEPT !.user = u, !.form = None]
              IN  /\ q \in TabRow /\ q.user = u /\ q.form = None /\ q.path = r.path
                  /\ q.loading = r.loading /\ q.me = r.me /\ q.sync = r.sync
           /\ LET q == [r EXCEPT !.user = u]
              IN  /\ q \in TabRow /\ q.user = u /\ q.form = r.form /\ q.path = r.path
                  /\ q.loading = r.loading /\ q.me = r.me /\ q.sync = r.sync
BY DEF TabRow

\* A row whose user changed the password.
LEMMA UpdatedParts ==
  ASSUME NEW r \in TabRow, r.user \in Users
  PROVE  LET q == UserUpdated([r EXCEPT !.form = None])
         IN  /\ q \in TabRow /\ q.user = [who |-> r.user.who, must |-> FALSE] /\ q.form = None
             /\ q.loading = r.loading /\ q.me = r.me /\ q.sync = r.sync
<1> DEFINE b == [r EXCEPT !.form = None]
           u == [who |-> r.user.who, must |-> FALSE]
<1>1. b \in TabRow /\ b.user = r.user /\ b.form = None /\ b.loading = r.loading /\ b.me = r.me
      /\ b.sync = r.sync
  BY DEF TabRow
<1>2. [r.user EXCEPT !.must = FALSE] = u /\ u \in Users
  <2> DEFINE y == [r.user EXCEPT !.must = FALSE]
  <2>1. y \in Users /\ y.who = r.user.who /\ y.must = FALSE
    BY DEF Users
  <2>2. u \in Users /\ u.who = r.user.who /\ u.must = FALSE
    BY DEF Users
  <2> HIDE DEF y, u
  <2>3. y = u
    BY <2>1, <2>2 DEF Users
  <2>. QED
    BY <2>2, <2>3 DEF y
<1>3. UserUpdated(b) = [b EXCEPT !.user = [b.user EXCEPT !.must = FALSE], !.path = "home"]
  BY <1>1 DEF UserUpdated, TabRow
<1>4. UserUpdated(b) = [b EXCEPT !.user = u, !.path = "home"]
  BY <1>1, <1>2, <1>3
<1> HIDE DEF b, u
<1>5. LET q == [b EXCEPT !.user = u, !.path = "home"]
      IN  q \in TabRow /\ q.user = u /\ q.form = b.form /\ q.loading = b.loading /\ q.me = b.me
          /\ q.sync = b.sync
  BY <1>1, <1>2 DEF TabRow
<1>6. UserUpdated(b) \in TabRow /\ UserUpdated(b).user = u /\ UserUpdated(b).form = None
      /\ UserUpdated(b).loading = r.loading /\ UserUpdated(b).me = r.me /\ UserUpdated(b).sync = r.sync
  BY <1>1, <1>4, <1>5
<1>. QED
  BY <1>6 DEF b, u

\* A run is sent one operation after the other.
LEMMA RunParts ==
  ASSUME NEW s \in Runs
  PROVE  /\ s.left \subseteq Ops /\ s.left # {} /\ Min(s.left) \in s.left
         /\ NextOp(s) \in {None} \cup Runs
         /\ NextOp(s) # None => NextOp(s).left = s.left \ {Min(s.left)} /\ NextOp(s).answer = "none"
         /\ \A x \in {"none", "done", "refused", "password", "session"} :
              /\ [s EXCEPT !.answer = x] \in Runs /\ [s EXCEPT !.answer = x].answer = x
              /\ [s EXCEPT !.answer = x].left = s.left
<1>1. s.left \in SUBSET Ops /\ s.left # {}
  BY DEF Runs
<1>2. Min(s.left) \in s.left
  BY <1>1, FirstOp
<1> DEFINE m == Min(s.left)
<1> HIDE DEF m
<1>3. /\ NextOp(s) \in {None} \cup Runs
      /\ NextOp(s) # None => NextOp(s).left = s.left \ {m} /\ NextOp(s).answer = "none"
  <2>1. NextOp(s) = IF s.left \ {m} = {} THEN None ELSE [left |-> s.left \ {m}, answer |-> "none"]
    BY DEF NextOp, m
  <2>2. CASE s.left \ {m} = {}
    BY <2>1, <2>2
  <2>3. CASE s.left \ {m} # {}
    <3>1. NextOp(s) = [left |-> s.left \ {m}, answer |-> "none"]
      BY <2>1, <2>3
    <3>. QED
      BY <1>1, <2>3, <3>1 DEF Runs
  <2>. QED
    BY <2>2, <2>3
<1>4. \A x \in {"none", "done", "refused", "password", "session"} :
        /\ [s EXCEPT !.answer = x] \in Runs /\ [s EXCEPT !.answer = x].answer = x
        /\ [s EXCEPT !.answer = x].left = s.left
  BY DEF Runs
<1>. QED
  BY <1>1, <1>2, <1>3, <1>4 DEF m

-----------------------------------------------------------------------------
(* What the tabs know of the session. *)

\* A token or an answer that is not older than the account says the truth about it.
TrueForm(f, ac) ==
  /\ f \in LoginForms /\ f.answer # None =>
       /\ f.answer.version <= ac[f.answer.who].version
       /\ f.answer.version = ac[f.answer.who].version => f.answer.must = ac[f.answer.who].must
  /\ f \in ChangeForms /\ f.answer \in Tokens =>
       /\ f.answer.version <= ac[f.answer.who].version
       /\ f.answer.version = ac[f.answer.who].version => ac[f.answer.who].must = FALSE

\* What a tab shows, as far as it has loaded.
Shape(r) ==
  /\ ~r.loading /\ r.path # "login" => r.user # None
  /\ r.form # None => ~r.loading
  /\ r.form \in ChangeForms => r.user # None
  /\ r.me # <<>> => r.loading

\* A tab knows who is logged in.
Knows(r, s) ==
  s # None => /\ ~r.loading /\ r.user # None => r.user = s
              /\ \A m \in {None} \cup Users : r.me = <<m>> => m \in {None, s}

\* A cookie is never ahead of its account.
Bound(c, ac) == c # None => c.version <= ac[c.who].version

\* The invariant of the session.
SessionInv ==
  /\ Bound(cookie, acct)
  /\ \A t \in Open : Shape(tab[t]) /\ TrueForm(tab[t].form, acct)
  /\ \A t \in Open : t \notin behind => Knows(tab[t], Session)

\* An account that changes gets a newer version.
Grows == \A a \in Accounts : acct'[a] = acct[a] \/ acct[a].version < acct'[a].version

\* One tab changes.
Moved(t) == Open' = Open /\ tab' \in [Open -> TabRow] /\ \A u \in Open \ {t} : tab'[u] = tab[u]

\* The row of a tab that changes.
LEMMA PutMoves ==
  ASSUME Types, NEW t \in Open, NEW r \in TabRow, Put(t, r)
  PROVE  Moved(t) /\ tab'[t] = r
BY DEF Put, Moved, Types, Open

\* The session is an account of the service, as the service knows it.
LEMMA SessionIsUser ==
  ASSUME Types
  PROVE  /\ Session \in {None} \cup Users
         /\ Session # None => /\ cookie \in Tokens /\ cookie # None
                              /\ cookie.version = acct[cookie.who].version
                              /\ Session = [who |-> cookie.who, must |-> acct[cookie.who].must]
<1>1. CASE Valid(cookie)
  <2>1. cookie \in Tokens /\ cookie # None /\ cookie.version = acct[cookie.who].version
    BY <1>1 DEF Valid, Types
  <2>2. cookie.who \in Accounts /\ acct[cookie.who].must \in BOOLEAN
    BY <2>1 DEF Types, Tokens
  <2>3. Session = [who |-> cookie.who, must |-> acct[cookie.who].must]
    BY <1>1 DEF Session
  <2>. QED
    BY <2>1, <2>2, <2>3 DEF Users
<1>2. CASE ~Valid(cookie)
  BY <1>2 DEF Session
<1>. QED
  BY <1>1, <1>2

\* Without a new cookie the session stays or ends, whatever becomes of the accounts.
LEMMA SessionKept ==
  ASSUME Types, acct' \in [Accounts -> [version : Nat, must : BOOLEAN]], Grows,
         Bound(cookie, acct), cookie' \in {cookie, None}
  PROVE  Session' \in {Session, None} /\ Bound(cookie', acct')
<1>1. CASE cookie' = None
  BY <1>1 DEF Session, Valid, Bound
<1>2. CASE cookie' # None
  <2>1. cookie' = cookie /\ cookie # None /\ cookie \in Tokens
    BY <1>2 DEF Types
  <2>2. PICK a \in Accounts, v \in Nat : a = cookie.who /\ v = cookie.version
    BY <2>1 DEF Tokens
  <2>3. v <= acct[a].version /\ acct[a].version \in Nat /\ acct'[a].version \in Nat
    BY <2>1, <2>2 DEF Bound, Types
  <2>4. /\ Session = IF v = acct[a].version THEN [who |-> a, must |-> acct[a].must] ELSE None
        /\ Session' = IF v = acct'[a].version THEN [who |-> a, must |-> acct'[a].must] ELSE None
    BY <2>1, <2>2 DEF Session, Valid
  <2>5. CASE acct'[a] = acct[a]
    <3>1. Session' = Session
      BY <2>4, <2>5
    <3>2. cookie'.version <= acct'[cookie'.who].version
      BY <2>1, <2>2, <2>3, <2>5
    <3>. QED
      BY <3>1, <3>2 DEF Bound
  <2>6. CASE acct[a].version < acct'[a].version
    <3>1. v < acct'[a].version
      BY <2>3, <2>6
    <3>2. Session' = None
      BY <2>3, <2>4, <3>1
    <3>3. cookie'.version <= acct'[cookie'.who].version
      BY <2>1, <2>2, <2>3, <3>1
    <3>. QED
      BY <3>2, <3>3 DEF Bound
  <2>. QED
    BY <2>5, <2>6 DEF Grows
<1>. QED
  BY <1>1, <1>2

\* What a form got stays true.
LEMMA FormsStayTrue ==
  ASSUME Types, acct' \in [Accounts -> [version : Nat, must : BOOLEAN]], Grows,
         NEW f \in {None} \cup LoginForms \cup ChangeForms, TrueForm(f, acct)
  PROVE  TrueForm(f, acct')
<1>1. ASSUME NEW a \in Accounts, NEW v \in Nat, v <= acct[a].version
      PROVE  v <= acct'[a].version /\ (v = acct'[a].version => acct'[a] = acct[a])
  <2>1. acct[a].version \in Nat /\ acct'[a].version \in Nat
    BY DEF Types
  <2>. QED
    BY <1>1, <2>1 DEF Grows
<1>2. ASSUME f \in LoginForms, f.answer # None
      PROVE  /\ f.answer.version <= acct'[f.answer.who].version
             /\ f.answer.version = acct'[f.answer.who].version => f.answer.must = acct'[f.answer.who].must
  <2>1. f.answer.who \in Accounts /\ f.answer.version \in Nat
    BY <1>2, Apart
  <2>2. /\ f.answer.version <= acct[f.answer.who].version
        /\ f.answer.version = acct[f.answer.who].version => f.answer.must = acct[f.answer.who].must
    BY <1>2 DEF TrueForm
  <2>. QED
    BY <1>1, <2>1, <2>2
<1>3. ASSUME f \in ChangeForms, f.answer \in Tokens
      PROVE  /\ f.answer.version <= acct'[f.answer.who].version
             /\ f.answer.version = acct'[f.answer.who].version => acct'[f.answer.who].must = FALSE
  <2>1. f.answer.who \in Accounts /\ f.answer.version \in Nat
    BY <1>3 DEF Tokens
  <2>2. /\ f.answer.version <= acct[f.answer.who].version
        /\ f.answer.version = acct[f.answer.who].version => acct[f.answer.who].must = FALSE
    BY <1>3 DEF TrueForm
  <2>. QED
    BY <1>1, <2>1, <2>2
<1>. QED
  BY <1>2, <1>3 DEF TrueForm

\* The step of one tab leaves the others what they know, or behind.
LEMMA RowStep ==
  ASSUME Types, SessionInv, acct' \in [Accounts -> [version : Nat, must : BOOLEAN]], Grows,
         NEW t \in Open, Moved(t), Bound(cookie', acct'),
         Shape(tab'[t]), TrueForm(tab'[t].form, acct'), t \notin behind' => Knows(tab'[t], Session'),
         \A u \in Open \ {t} : u \notin behind' => u \notin behind /\ Session' \in {Session, None}
  PROVE  SessionInv'
<1>1. ASSUME NEW u \in Open
      PROVE  /\ Shape(tab'[u]) /\ TrueForm(tab'[u].form, acct')
             /\ u \notin behind' => Knows(tab'[u], Session')
  <2>1. CASE u = t
    BY <2>1
  <2>2. CASE u # t
    <3>1. tab'[u] = tab[u] /\ tab[u] \in TabRow /\ tab[u].form \in {None} \cup LoginForms \cup ChangeForms
      BY <2>2 DEF Moved, Types, TabRow
    <3>2. Shape(tab[u]) /\ TrueForm(tab[u].form, acct) /\ (u \notin behind => Knows(tab[u], Session))
      BY DEF SessionInv
    <3>3. TrueForm(tab[u].form, acct')
      BY <3>1, <3>2, FormsStayTrue
    <3>4. ASSUME u \notin behind'
          PROVE  Knows(tab[u], Session')
      <4>1. Knows(tab[u], Session) /\ Session' \in {Session, None}
        BY <2>2, <3>2, <3>4
      <4>. QED
        BY <4>1 DEF Knows
    <3>. QED
      BY <3>1, <3>2, <3>3, <3>4
  <2>. QED
    BY <2>1, <2>2
<1>2. Open' = Open
  BY DEF Moved
<1>3. /\ \A u \in Open' : Shape(tab'[u]) /\ TrueForm(tab'[u].form, acct')
      /\ \A u \in Open' : u \notin behind' => Knows(tab'[u], Session')
  BY <1>1, <1>2
<1>. QED
  BY <1>3 DEF SessionInv

\* A step that leaves the account, the cookie and what the tabs are behind of to itself.
LEMMA QuietStep ==
  ASSUME Types, SessionInv, NEW t \in Open, Moved(t), UNCHANGED <<acct, cookie>>,
         behind \subseteq behind', Shape(tab'[t]), TrueForm(tab'[t].form, acct),
         t \notin behind => Knows(tab'[t], Session)
  PROVE  SessionInv'
<1>1. Session' = Session /\ acct' = acct /\ Bound(cookie', acct') /\ Grows
      /\ acct' \in [Accounts -> [version : Nat, must : BOOLEAN]]
  BY DEF Session, Valid, SessionInv, Grows, Types
<1>2. TrueForm(tab'[t].form, acct') /\ (t \notin behind' => Knows(tab'[t], Session'))
  BY <1>1
<1>3. \A u \in Open \ {t} : u \notin behind' => u \notin behind /\ Session' \in {Session, None}
  BY <1>1
<1>. QED
  BY <1>1, <1>2, <1>3, RowStep

\* What the session is made of keeps its type when one tab changes.
LEMMA TypesStep ==
  ASSUME Types, NEW t \in Open, Moved(t),
         acct' \in [Accounts -> [version : Nat, must : BOOLEAN]], cookie' \in {None} \cup Tokens,
         queue' \subseteq Ops, done' \in [Ops -> Nat], refused' \subseteq Ops, online' \in BOOLEAN
  PROVE  Types'
BY DEF Types, Moved

\* The row of a tab and its parts.
LEMMA RowFacts ==
  ASSUME Types, SessionInv, NEW t \in Open
  PROVE  /\ tab[t] \in TabRow /\ tab[t].path \in {"login", "change", "home"}
         /\ tab[t].form \in {None} \cup LoginForms \cup ChangeForms
         /\ tab[t].sync \in {None} \cup Runs /\ tab[t].user \in {None} \cup Users
         /\ tab[t].me = <<>> \/ \E m \in {None} \cup Users : tab[t].me = <<m>>
         /\ Shape(tab[t]) /\ TrueForm(tab[t].form, acct) /\ (t \notin behind => Knows(tab[t], Session))
         /\ Bound(cookie, acct)
BY DEF Types, TabRow, SessionInv

\* A page loads: it knows nothing.
LEMMA LoadStep ==
  ASSUME Types, SessionInv, NEW t \in Open, NEW path \in {"login", "change", "home"}, Load(t, path),
         UNCHANGED <<service, online, cookie, queue, behind>>
  PROVE  /\ Types' /\ SessionInv' /\ Moved(t) /\ tab'[t].sync = Run
         /\ blurred' = blurred \cup InRun(t) \cup Shared(t)
<1> DEFINE r == Loading(path)
<1>1. /\ r \in TabRow /\ r.loading /\ r.me = <<>> /\ r.form = None /\ r.sync = Run
  BY LoadingType
<1> HIDE DEF r
<1>2. Put(t, r) /\ blurred' = blurred \cup InRun(t) \cup Shared(t)
  BY DEF Load, r
<1>3. Moved(t) /\ tab'[t] = r
  BY <1>1, <1>2, PutMoves
<1>4. UNCHANGED <<acct, done, refused, online, cookie, queue, behind>>
  BY DEF service
<1>5. Types'
  BY <1>3, <1>4, TypesStep DEF Types
<1>6. Shape(r) /\ TrueForm(r.form, acct) /\ Knows(r, Session)
  <2>1. ~ (None \in LoginForms) /\ ~ (None \in ChangeForms) /\ \A m : ~ (<<>> = <<m>>)
    BY Apart
  <2>. QED
    BY <1>1, <2>1 DEF Shape, TrueForm, Knows
<1>7. SessionInv'
  BY <1>3, <1>4, <1>6, QuietStep
<1>. QED
  BY <1>1, <1>2, <1>3, <1>5, <1>7

\* The tab asks who is signed in, and keeps the answer.
LEMMA MeTakenStep ==
  ASSUME Types, SessionInv, NEW t \in Open, MeTaken(t)
  PROVE  Types' /\ SessionInv' /\ Moved(t) /\ tab'[t].sync = tab[t].sync
<1>1. Session \in {None} \cup Users
  BY SessionIsUser
<1> DEFINE r == [tab[t] EXCEPT !.me = <<Session>>]
<1>2. /\ tab[t] \in TabRow /\ Shape(tab[t]) /\ TrueForm(tab[t].form, acct) /\ tab[t].loading
  BY RowFacts DEF MeTaken
<1>3. /\ r \in TabRow /\ r.me = <<Session>> /\ r.path = tab[t].path /\ r.user = tab[t].user
      /\ r.loading = tab[t].loading /\ r.form = tab[t].form /\ r.sync = tab[t].sync
  BY <1>1, <1>2, TabParts
<1> HIDE DEF r
<1>4. Put(t, r) /\ UNCHANGED <<acct, done, refused, online, cookie, queue>> /\ behind' = behind \ {t}
  BY DEF MeTaken, r, service
<1>5. Moved(t) /\ tab'[t] = r
  BY <1>3, <1>4, PutMoves
<1>6. Types'
  BY <1>4, <1>5, TypesStep DEF Types
<1>7. Shape(r) /\ TrueForm(r.form, acct)
  BY <1>2, <1>3 DEF Shape
<1>8. Knows(r, Session)
  <2>1. \A m : r.me = <<m>> => m = Session
    BY <1>3
  <2>. QED
    BY <1>2, <1>3, <2>1 DEF Knows
<1>9. Session' = Session /\ acct' = acct /\ Bound(cookie', acct') /\ Grows
      /\ acct' \in [Accounts -> [version : Nat, must : BOOLEAN]]
  BY <1>4 DEF Session, Valid, SessionInv, Grows, Types
<1>10. \A u \in Open \ {t} : u \notin behind' => u \notin behind /\ Session' \in {Session, None}
  BY <1>4, <1>9
<1>11. /\ Shape(tab'[t]) /\ TrueForm(tab'[t].form, acct')
       /\ t \notin behind' => Knows(tab'[t], Session')
  BY <1>5, <1>7, <1>8, <1>9
<1>12. SessionInv'
  BY <1>5, <1>9, <1>10, <1>11, RowStep
<1>. QED
  BY <1>3, <1>5, <1>6, <1>12

\* The answer of /auth/me is shown, or none came.
LEMMA MeShownStep ==
  ASSUME Types, SessionInv, NEW t \in Open, MeShown(t)
  PROVE  Types' /\ SessionInv' /\ Moved(t) /\ tab'[t].sync = tab[t].sync
<1>1. /\ tab[t] \in TabRow /\ Shape(tab[t]) /\ TrueForm(tab[t].form, acct) /\ tab[t].loading
      /\ tab[t].me = <<>> \/ \E m \in {None} \cup Users : tab[t].me = <<m>>
      /\ t \notin behind => Knows(tab[t], Session)
  BY RowFacts DEF MeShown
<1>2. PICK user \in ToSet(tab[t].me) \cup {None} :
        Put(t, Routed([tab[t] EXCEPT !.user = user, !.loading = FALSE, !.me = <<>>]))
  BY DEF MeShown
<1>3. user = None \/ (user \in Users /\ tab[t].me = <<user>>)
  <2>1. CASE tab[t].me = <<>>
    BY <2>1 DEF ToSet
  <2>2. ASSUME NEW m \in {None} \cup Users, tab[t].me = <<m>>
        PROVE  user \in {None, m}
    BY <2>2 DEF ToSet
  <2>. QED
    BY <1>1, <2>1, <2>2
<1> DEFINE q == [tab[t] EXCEPT !.user = user, !.loading = FALSE, !.me = <<>>]
           r == Routed(q)
<1>4. /\ q \in TabRow /\ q.user = user /\ ~q.loading /\ q.me = <<>>
      /\ q.form = tab[t].form /\ q.sync = tab[t].sync
  <2>1. tab[t] \in TabRow /\ user \in {None} \cup Users
    BY <1>1, <1>3
  <2>. QED
    BY ZenonT(60), <2>1, UserParts
<1> HIDE DEF q
<1>5. /\ r \in TabRow /\ r.user = user /\ ~r.loading /\ r.me = <<>>
      /\ r.form = tab[t].form /\ r.sync = tab[t].sync /\ (r.path # "login" => r.user # None)
  BY <1>4, RoutedFacts
<1> HIDE DEF r
<1>6. Put(t, r) /\ UNCHANGED <<acct, done, refused, online, cookie, queue, behind>>
  BY <1>2 DEF MeShown, r, q, service
<1>7. Moved(t) /\ tab'[t] = r
  BY <1>5, <1>6, PutMoves
<1>8. Types'
  BY <1>6, <1>7, TypesStep DEF Types
<1>9. Shape(r) /\ TrueForm(r.form, acct)
  <2>1. r.form = None
    BY <1>1, <1>5 DEF Shape
  <2>. QED
    BY <1>1, <1>5, <2>1, Apart DEF Shape
<1>10. ASSUME t \notin behind
       PROVE  Knows(r, Session)
  <2>1. Session # None /\ user # None => user = Session
    BY <1>1, <1>3, <1>10 DEF Knows
  <2>2. \A m : ~ (<<>> = <<m>>)
    OBVIOUS
  <2>. QED
    BY <1>5, <2>1, <2>2 DEF Knows
<1>11. SessionInv'
  BY <1>6, <1>7, <1>9, <1>10, QuietStep
<1>. QED
  BY <1>5, <1>7, <1>8, <1>11

\* A form opens, gets an answer or fails, and the session stays as it is.
LEMMA FormStep ==
  ASSUME Types, SessionInv, NEW t \in Open, NEW f \in {None} \cup LoginForms \cup ChangeForms,
         FormTo(t, f), TrueForm(f, acct), f # None => ~tab[t].loading,
         f \in ChangeForms => tab[t].user # None,
         UNCHANGED <<service, online, cookie, queue, behind>>
  PROVE  Types' /\ SessionInv' /\ Moved(t) /\ tab'[t].sync = tab[t].sync
<1> DEFINE r == [tab[t] EXCEPT !.form = f]
<1>1. tab[t] \in TabRow /\ Shape(tab[t]) /\ (t \notin behind => Knows(tab[t], Session))
  BY RowFacts
<1>2. /\ r \in TabRow /\ r.form = f /\ r.path = tab[t].path /\ r.user = tab[t].user
      /\ r.loading = tab[t].loading /\ r.me = tab[t].me /\ r.sync = tab[t].sync
  BY <1>1, TabParts
<1> HIDE DEF r
<1>3. Put(t, r) /\ UNCHANGED <<acct, done, refused, online, cookie, queue, behind>>
  BY DEF FormTo, r, service
<1>4. Moved(t) /\ tab'[t] = r
  BY <1>2, <1>3, PutMoves
<1>5. Types'
  BY <1>3, <1>4, TypesStep DEF Types
<1>6. Shape(r) /\ TrueForm(r.form, acct)
  BY <1>1, <1>2 DEF Shape
<1>7. t \notin behind => Knows(r, Session)
  BY <1>1, <1>2 DEF Knows
<1>8. SessionInv'
  BY <1>3, <1>4, <1>6, <1>7, QuietStep
<1>. QED
  BY <1>2, <1>4, <1>5, <1>8

\* The user signs in.
LEMMA LoginSubmitStep ==
  ASSUME Types, SessionInv, NEW t \in Open, NEW a \in Accounts, LoginSubmit(t, a)
  PROVE  Types' /\ SessionInv' /\ Moved(t) /\ tab'[t].sync = tab[t].sync
<1> DEFINE f == [kind |-> "login", who |-> a, answer |-> None]
<1>1. f \in LoginForms /\ f.answer = None
  BY DEF LoginForms
<1>2. f \notin ChangeForms
  BY <1>1, Apart
<1> HIDE DEF f
<1>3. TrueForm(f, acct)
  BY <1>1, <1>2 DEF TrueForm
<1>4. FormTo(t, f) /\ ~tab[t].loading /\ UNCHANGED <<service, online, cookie, queue, behind>>
  BY DEF LoginSubmit, Free, f
<1>. QED
  BY <1>1, <1>2, <1>3, <1>4, FormStep

\* The service signs the user in.
LEMMA LoginTakenStep ==
  ASSUME Types, SessionInv, NEW t \in Open, LoginTaken(t)
  PROVE  Types' /\ SessionInv' /\ Moved(t) /\ tab'[t].sync = tab[t].sync
<1>1. /\ tab[t].form # None /\ tab[t].form.kind = "login"
      /\ tab[t].form \in {None} \cup LoginForms \cup ChangeForms /\ Shape(tab[t])
  BY RowFacts DEF LoginTaken
<1>2. tab[t].form \in LoginForms
  BY <1>1 DEF ChangeForms
<1>3. PICK a \in Accounts : a = tab[t].form.who
  BY <1>2 DEF LoginForms
<1> DEFINE x == [who |-> a, must |-> acct[a].must, version |-> acct[a].version]
           f == [tab[t].form EXCEPT !.answer = x]
<1>4. x \in [who : Accounts, must : BOOLEAN, version : Nat]
  BY DEF Types
<1>5. x.who = a /\ x.must = acct[a].must /\ x.version = acct[a].version
  OBVIOUS
<1> HIDE DEF x
<1>6. f \in LoginForms /\ f.answer = x
  BY <1>2, <1>4 DEF LoginForms
<1> HIDE DEF f
<1>7. f \notin ChangeForms
  BY <1>6, Apart
<1>8. TrueForm(f, acct)
  <2>1. acct[a].version \in Nat
    BY DEF Types
  <2>. QED
    BY <1>5, <1>6, <1>7, <2>1 DEF TrueForm
<1>9. FormTo(t, f) /\ ~tab[t].loading /\ UNCHANGED <<service, online, cookie, queue, behind>>
  BY <1>1, <1>3 DEF LoginTaken, f, x, Shape
<1>. QED
  BY <1>6, <1>7, <1>8, <1>9, FormStep

\* The user changes the password.
LEMMA ChangeSubmitStep ==
  ASSUME Types, SessionInv, NEW t \in Open, ChangeSubmit(t)
  PROVE  Types' /\ SessionInv' /\ Moved(t) /\ tab'[t].sync = tab[t].sync
<1>1. ~tab[t].loading /\ tab[t].path # "login" /\ tab[t].user # None
  <2>1. Shape(tab[t]) /\ ~tab[t].loading /\ tab[t].path \in {"change", "home"}
    BY RowFacts DEF ChangeSubmit, Free
  <2>. QED
    BY <2>1 DEF Shape
<1>2. tab[t].user \in Users
  BY <1>1, RowFacts
<1>3. PICK a \in Accounts : a = tab[t].user.who
  BY <1>2 DEF Users
<1> DEFINE f == [kind |-> "change", who |-> a, answer |-> None]
<1>4. f \in ChangeForms /\ f.answer = None
  BY DEF ChangeForms
<1> HIDE DEF f
<1>5. TrueForm(f, acct)
  BY <1>4, Apart DEF TrueForm
<1>6. FormTo(t, f) /\ UNCHANGED <<service, online, cookie, queue, behind>>
  BY <1>3 DEF ChangeSubmit, f
<1>. QED
  BY <1>1, <1>4, <1>5, <1>6, FormStep

\* A form fails.
LEMMA FormFailsStep ==
  ASSUME Types, SessionInv, NEW t \in Open, FormFails(t)
  PROVE  Types' /\ SessionInv' /\ Moved(t) /\ tab'[t].sync = tab[t].sync
<1>1. FormTo(t, None) /\ UNCHANGED <<service, online, cookie, queue, behind>>
  BY DEF FormFails
<1>2. None \notin ChangeForms /\ TrueForm(None, acct)
  BY Apart DEF TrueForm
<1>. QED
  BY <1>1, <1>2, FormStep

\* The browser takes the cookie of the login, and the tab shows its account.
LEMMA LoginShownStep ==
  ASSUME Types, SessionInv, NEW t \in Open, LoginShown(t)
  PROVE  Types' /\ SessionInv' /\ Moved(t) /\ tab'[t].sync = tab[t].sync
<1>1. /\ tab[t].form # None /\ tab[t].form.kind = "login" /\ tab[t].form.answer # None
      /\ tab[t].form \in {None} \cup LoginForms \cup ChangeForms
      /\ tab[t] \in TabRow /\ Shape(tab[t]) /\ TrueForm(tab[t].form, acct)
  BY RowFacts DEF LoginShown
<1>2. tab[t].form \in LoginForms
  BY <1>1 DEF ChangeForms
<1> DEFINE a == tab[t].form.answer
           u == [who |-> a.who, must |-> a.must]
           c == [who |-> a.who, version |-> a.version]
           q == [tab[t] EXCEPT !.user = u, !.form = None]
           r == Routed(q)
<1>3. /\ a.who \in Accounts /\ a.must \in BOOLEAN /\ a.version \in Nat
      /\ a.version <= acct[a.who].version
      /\ a.version = acct[a.who].version => a.must = acct[a.who].must
  <2>1. a \in [who : Accounts, must : BOOLEAN, version : Nat]
    BY <1>1, <1>2, Apart
  <2>. QED
    BY <1>1, <1>2, <2>1 DEF TrueForm
<1>4. u \in Users /\ c \in Tokens /\ c.who = a.who /\ c.version = a.version
  BY <1>3 DEF Users, Tokens
<1> HIDE DEF a
<1>5. /\ q \in TabRow /\ q.user = u /\ q.form = None /\ q.loading = tab[t].loading
      /\ q.me = tab[t].me /\ q.sync = tab[t].sync
  <2>1. tab[t] \in TabRow /\ u \in {None} \cup Users
    BY <1>1, <1>4
  <2> HIDE DEF u
  <2>. QED
    BY ZenonT(60), <2>1, UserParts
<1>6. ~tab[t].loading /\ tab[t].me = <<>>
  <2>1. ~tab[t].loading
    BY <1>1 DEF Shape
  <2>. QED
    BY <1>1, <2>1 DEF Shape
<1> HIDE DEF q
<1>7. /\ r \in TabRow /\ r.user = u /\ r.form = None /\ ~r.loading /\ r.me = <<>>
      /\ r.sync = tab[t].sync /\ (r.path # "login" => r.user # None)
  BY <1>5, <1>6, RoutedFacts
<1>8. Put(t, r) /\ cookie' = c /\ Ahead(t) /\ UNCHANGED <<acct, done, refused, online, queue>>
  BY DEF LoginShown, r, q, u, c, a, service
<1> HIDE DEF r
<1>9. Moved(t) /\ tab'[t] = r
  BY <1>7, <1>8, PutMoves
<1>10. Types'
  <2>1. cookie' \in {None} \cup Tokens
    BY <1>4, <1>8
  <2>. QED
    BY <1>8, <1>9, <2>1, TypesStep DEF Types
<1>11. Shape(r) /\ TrueForm(r.form, acct)
  BY <1>7, Apart DEF Shape, TrueForm
<1>12. Session' \in {None, u}
  <2>1. acct' = acct /\ cookie' = c
    BY <1>8
  <2>2. Session' = IF c # None /\ c.version = acct[c.who].version
                   THEN [who |-> c.who, must |-> acct[c.who].must] ELSE None
    BY <2>1 DEF Session, Valid
  <2>. QED
    BY <1>3, <1>4, <2>2
<1>13. Knows(r, Session')
  <2>1. \A m : ~ (<<>> = <<m>>)
    OBVIOUS
  <2>. QED
    BY <1>7, <1>12, <2>1 DEF Knows
<1>14. acct' = acct /\ Grows /\ acct' \in [Accounts -> [version : Nat, must : BOOLEAN]]
  BY <1>8 DEF Types, Grows
<1>15. Bound(cookie', acct')
  BY <1>3, <1>4, <1>8, <1>14 DEF Bound
<1>16. \A v \in Open \ {t} : v \in behind'
  BY <1>8 DEF Ahead
<1>17. SessionInv'
  BY <1>9, <1>11, <1>13, <1>14, <1>15, <1>16, RowStep
<1>. QED
  BY <1>7, <1>9, <1>10, <1>17

\* The service changes the password of the account of the cookie.
LEMMA ChangeTakenStep ==
  ASSUME Types, SessionInv, NEW t \in Open, ChangeTaken(t)
  PROVE  Types' /\ SessionInv' /\ Moved(t) /\ tab'[t].sync = tab[t].sync
<1>1. /\ tab[t].form # None /\ tab[t].form.kind = "change"
      /\ tab[t].form \in {None} \cup LoginForms \cup ChangeForms
      /\ tab[t] \in TabRow /\ Shape(tab[t]) /\ (t \notin behind => Knows(tab[t], Session))
  BY RowFacts DEF ChangeTaken
<1>2. tab[t].form \in ChangeForms
  BY <1>1 DEF LoginForms
<1>3. UNCHANGED <<done, refused, online, cookie, queue, behind>>
  BY DEF ChangeTaken
<1>4. ASSUME NEW x \in {Refusal} \cup Tokens, FormTo(t, [tab[t].form EXCEPT !.answer = x]),
             acct' \in [Accounts -> [version : Nat, must : BOOLEAN]], Grows,
             x \in Tokens => acct'[x.who] = [version |-> x.version, must |-> FALSE]
      PROVE  Types' /\ SessionInv' /\ Moved(t) /\ tab'[t].sync = tab[t].sync
  <2> DEFINE f == [tab[t].form EXCEPT !.answer = x]
             r == [tab[t] EXCEPT !.form = f]
  <2>1. f \in ChangeForms /\ f.answer = x
    BY <1>2 DEF ChangeForms
  <2> HIDE DEF f
  <2>2. /\ r \in TabRow /\ r.form = f /\ r.path = tab[t].path /\ r.user = tab[t].user
        /\ r.loading = tab[t].loading /\ r.me = tab[t].me /\ r.sync = tab[t].sync
    BY <1>1, <2>1, TabParts
  <2> HIDE DEF r
  <2>3. Put(t, r)
    BY <1>4 DEF FormTo, r, f
  <2>4. Moved(t) /\ tab'[t] = r
    BY <2>2, <2>3, PutMoves
  <2>5. Types'
    BY <1>3, <1>4, <2>4, TypesStep DEF Types
  <2>6. Shape(r)
    BY <1>1, <1>2, <2>1, <2>2 DEF Shape
  <2>7. TrueForm(r.form, acct')
    <3>1. f \notin LoginForms
      BY <2>1, Apart
    <3>2. ASSUME x \in Tokens
          PROVE  x.version <= acct'[x.who].version /\ acct'[x.who].must = FALSE
      <4>1. x.version \in Nat /\ acct'[x.who].version = x.version /\ acct'[x.who].must = FALSE
        BY <1>4, <3>2 DEF Tokens
      <4>. QED
        BY <4>1
    <3>. QED
      BY <2>1, <2>2, <3>1, <3>2 DEF TrueForm
  <2>8. Session' \in {Session, None} /\ Bound(cookie', acct')
    BY <1>3, <1>4, SessionKept DEF SessionInv
  <2>9. t \notin behind' => Knows(r, Session')
    BY <1>1, <1>3, <2>2, <2>8 DEF Knows
  <2>10. SessionInv'
    BY <1>3, <1>4, <2>4, <2>6, <2>7, <2>8, <2>9, RowStep
  <2>. QED
    BY <2>2, <2>4, <2>5, <2>10
<1>5. CASE Valid(cookie)
  <2>1. cookie \in Tokens
    BY <1>5 DEF Valid, Types
  <2>2. PICK a \in Accounts : a = cookie.who
    BY <2>1 DEF Tokens
  <2>3. PICK v \in Nat : v = acct[a].version + 1
    BY DEF Types
  <2> DEFINE x == [who |-> a, version |-> v]
             row == [version |-> v, must |-> FALSE]
  <2>4. acct' = [acct EXCEPT ![a] = row] /\ FormTo(t, [tab[t].form EXCEPT !.answer = x])
    BY <1>5, <2>2, <2>3 DEF ChangeTaken
  <2>5. x \in Tokens /\ x.who = a /\ x.version = v /\ row \in [version : Nat, must : BOOLEAN]
        /\ row.version = v
    BY DEF Tokens
  <2> HIDE DEF x, row
  <2>6. acct' \in [Accounts -> [version : Nat, must : BOOLEAN]] /\ acct'[a] = row
        /\ \A b \in Accounts \ {a} : acct'[b] = acct[b]
    BY <2>4, <2>5 DEF Types
  <2>7. Grows
    <3>1. acct[a].version < acct'[a].version
      <4>1. acct[a].version \in Nat /\ acct'[a].version = acct[a].version + 1
        BY <2>3, <2>5, <2>6 DEF Types
      <4>. QED
        BY <4>1
    <3>. QED
      BY <2>6, <3>1 DEF Grows
  <2>8. acct'[x.who] = [version |-> x.version, must |-> FALSE]
    BY <2>5, <2>6 DEF row
  <2>. QED
    BY <1>4, <2>4, <2>5, <2>6, <2>7, <2>8
<1>6. CASE ~Valid(cookie)
  <2>1. acct' = acct /\ FormTo(t, [tab[t].form EXCEPT !.answer = Refusal])
    BY <1>6 DEF ChangeTaken, Refusal
  <2>2. Grows /\ acct' \in [Accounts -> [version : Nat, must : BOOLEAN]]
    BY <2>1 DEF Grows, Types
  <2>3. Refusal \notin Tokens
    BY Apart
  <2>. QED
    BY <1>4, <2>1, <2>2, <2>3
<1>. QED
  BY <1>5, <1>6

\* The browser takes the cookie of the change.
LEMMA ChangeShownStep ==
  ASSUME Types, SessionInv, NEW t \in Open, ChangeShown(t)
  PROVE  /\ Types' /\ SessionInv' /\ Moved(t)
         /\ \/ tab'[t].sync = tab[t].sync /\ blurred' = blurred
            \/ tab'[t].sync = Run /\ blurred' = blurred \cup InRun(t) \cup Shared(t)
<1>1. /\ tab[t].form # None /\ tab[t].form.kind = "change" /\ tab[t].form.answer # None
      /\ tab[t].form \in {None} \cup LoginForms \cup ChangeForms
      /\ tab[t] \in TabRow /\ Shape(tab[t]) /\ TrueForm(tab[t].form, acct)
  BY RowFacts DEF ChangeShown
<1>2. tab[t].form \in ChangeForms
  BY <1>1 DEF LoginForms
<1> DEFINE a == tab[t].form.answer
<1>3. UNCHANGED <<service, online, queue>>
  BY DEF ChangeShown
<1>4. CASE a.who = "nobody"
  <2>1. Load(t, "login") /\ UNCHANGED <<cookie, behind>>
    BY <1>4 DEF ChangeShown, SignedOut
  <2>. QED
    BY <1>3, <2>1, LoadStep
<1>5. CASE a.who # "nobody"
  <2>1. a \in Tokens
    BY <1>1, <1>2, <1>5 DEF ChangeForms, Refusal
  <2>2. tab[t].user \in Users
    <3>1. tab[t].user # None
      BY <1>1, <1>2 DEF Shape
    <3>. QED
      BY <1>1, <3>1 DEF TabRow
  <2> DEFINE q == UserUpdated([tab[t] EXCEPT !.form = None])
             r == Routed(q)
             u == [who |-> tab[t].user.who, must |-> FALSE]
  <2>3. /\ q \in TabRow /\ q.user = u /\ q.form = None
        /\ q.loading = tab[t].loading /\ q.me = tab[t].me /\ q.sync = tab[t].sync
    BY <1>1, <2>2, UpdatedParts
  <2>4. ~tab[t].loading /\ tab[t].me = <<>>
    <3>1. ~tab[t].loading
      BY <1>1 DEF Shape
    <3>. QED
      BY <1>1, <3>1 DEF Shape
  <2> HIDE DEF q
  <2>5. /\ r \in TabRow /\ r.user = u /\ r.form = None /\ ~r.loading /\ r.me = <<>>
        /\ r.sync = tab[t].sync /\ (r.path # "login" => r.user # None)
    BY <2>3, <2>4, RoutedFacts
  <2>6. Put(t, r) /\ cookie' = a /\ blurred' = blurred /\ acct' = acct
        /\ UNCHANGED <<done, refused, online, queue>>
    BY <1>3, <1>5 DEF ChangeShown, r, q, service
  <2>7. IF a.who = tab[t].user.who THEN Ahead(t) ELSE behind' = Open
    BY <1>5 DEF ChangeShown
  <2> HIDE DEF r
  <2>8. Moved(t) /\ tab'[t] = r
    BY <2>5, <2>6, PutMoves
  <2>9. Types'
    <3>1. cookie' \in {None} \cup Tokens
      BY <2>1, <2>6
    <3>. QED
      BY <2>6, <2>8, <3>1, TypesStep DEF Types
  <2>10. Shape(r) /\ TrueForm(r.form, acct)
    BY <2>5, Apart DEF Shape, TrueForm
  <2>11. /\ a.who \in Accounts /\ a.version <= acct[a.who].version
         /\ a.version = acct[a.who].version => acct[a.who].must = FALSE
    BY <1>1, <1>2, <2>1 DEF TrueForm, Tokens
  <2>12. Session' \in {None, [who |-> a.who, must |-> FALSE]}
    <3>1. Session' = IF a # None /\ a.version = acct[a.who].version
                     THEN [who |-> a.who, must |-> acct[a.who].must] ELSE None
      BY <2>6 DEF Session, Valid
    <3>. QED
      BY <2>11, <3>1
  <2>13. ASSUME t \notin behind'
         PROVE  Knows(r, Session')
    <3>1. a.who = tab[t].user.who
      BY <2>7, <2>13
    <3>2. Session' \in {None, u}
      BY <2>12, <3>1
    <3>3. \A m : ~ (<<>> = <<m>>)
      OBVIOUS
    <3>. QED
      BY <2>5, <3>2, <3>3 DEF Knows
  <2>14. Grows /\ acct' \in [Accounts -> [version : Nat, must : BOOLEAN]]
    BY <2>6 DEF Types, Grows
  <2>15. Bound(cookie', acct')
    BY <2>6, <2>11 DEF Bound
  <2>16. \A v \in Open \ {t} : v \in behind'
    BY <2>7 DEF Ahead
  <2>17. SessionInv'
    BY <2>6, <2>8, <2>10, <2>13, <2>14, <2>15, <2>16, RowStep
  <2>. QED
    BY <2>5, <2>6, <2>8, <2>9, <2>17
<1>. QED
  BY <1>4, <1>5

\* The user signs out.
LEMMA LogoutStep ==
  ASSUME Types, SessionInv, NEW t \in Open, Logout(t)
  PROVE  Types' /\ SessionInv' /\ Moved(t) /\ tab'[t].sync = tab[t].sync
<1>1. ~tab[t].loading /\ tab[t].form = None /\ tab[t] \in TabRow /\ Shape(tab[t]) /\ tab[t].me = <<>>
  <2>1. ~tab[t].loading /\ tab[t].form = None /\ tab[t] \in TabRow /\ Shape(tab[t])
    BY RowFacts DEF Logout, Free
  <2>. QED
    BY <2>1 DEF Shape
<1>0. PICK u \in {None} \cup Users : u = None
  OBVIOUS
<1> DEFINE q == [tab[t] EXCEPT !.user = u]
           r == Routed(q)
<1>2. /\ q \in TabRow /\ q.user = None /\ q.form = None /\ ~q.loading /\ q.me = <<>>
      /\ q.sync = tab[t].sync
  <2>1. tab[t] \in TabRow /\ u \in {None} \cup Users
    BY <1>1
  <2>2. /\ q \in TabRow /\ q.user = u /\ q.form = tab[t].form /\ q.loading = tab[t].loading
        /\ q.me = tab[t].me /\ q.sync = tab[t].sync
    BY <2>1, UserParts
  <2> HIDE DEF q
  <2>. QED
    BY <1>0, <1>1, <2>2
<1> HIDE DEF q
<1>3. /\ r \in TabRow /\ r.user = None /\ r.form = None /\ ~r.loading /\ r.me = <<>>
      /\ r.sync = tab[t].sync /\ (r.path # "login" => r.user # None)
  BY <1>2, RoutedFacts
<1>4. Put(t, r) /\ cookie' \in {cookie, None}
      /\ UNCHANGED <<acct, done, refused, online, queue, behind>>
  BY <1>0 DEF Logout, r, q, service
<1> HIDE DEF r
<1>5. Moved(t) /\ tab'[t] = r
  BY <1>3, <1>4, PutMoves
<1>6. Types'
  <2>1. cookie' \in {None} \cup Tokens
    BY <1>4 DEF Types
  <2>. QED
    BY <1>4, <1>5, <2>1, TypesStep DEF Types
<1>7. Shape(r) /\ TrueForm(r.form, acct) /\ Knows(r, Session')
  <2>1. \A m : ~ (<<>> = <<m>>)
    OBVIOUS
  <2>. QED
    BY <1>3, <2>1, Apart DEF Shape, TrueForm, Knows
<1>8. Grows /\ acct' \in [Accounts -> [version : Nat, must : BOOLEAN]] /\ acct' = acct
  BY <1>4 DEF Types, Grows
<1>9. Session' \in {Session, None} /\ Bound(cookie', acct')
  BY <1>4, <1>8, SessionKept DEF SessionInv
<1>10. SessionInv'
  BY <1>4, <1>5, <1>7, <1>8, <1>9, RowStep
<1>. QED
  BY <1>3, <1>5, <1>6, <1>10

\* A run goes on: what the tab knows of the session stays.
LEMMA RunStep ==
  ASSUME Types, SessionInv, NEW t \in Open, NEW x \in {None} \cup Runs,
         Put(t, [tab[t] EXCEPT !.sync = x]), UNCHANGED <<acct, online, cookie, behind>>,
         queue' \subseteq Ops, done' \in [Ops -> Nat], refused' \subseteq Ops
  PROVE  Types' /\ SessionInv' /\ Moved(t) /\ tab'[t].sync = x
<1> DEFINE r == [tab[t] EXCEPT !.sync = x]
<1>1. /\ tab[t] \in TabRow /\ Shape(tab[t]) /\ TrueForm(tab[t].form, acct)
      /\ t \notin behind => Knows(tab[t], Session)
  BY RowFacts
<1>2. /\ r \in TabRow /\ r.sync = x /\ r.path = tab[t].path /\ r.user = tab[t].user
      /\ r.loading = tab[t].loading /\ r.me = tab[t].me /\ r.form = tab[t].form
  BY <1>1, TabParts
<1>3. Put(t, r)
  OBVIOUS
<1> HIDE DEF r
<1>4. Moved(t) /\ tab'[t] = r
  BY <1>2, <1>3, PutMoves
<1>5. Types'
  BY <1>4, TypesStep DEF Types
<1>6. Shape(r) /\ TrueForm(r.form, acct)
  BY <1>1, <1>2 DEF Shape
<1>7. t \notin behind => Knows(r, Session)
  BY <1>1, <1>2 DEF Knows
<1>8. SessionInv'
  BY <1>4, <1>6, <1>7, QuietStep
<1>. QED
  BY <1>2, <1>4, <1>5, <1>8

\* The service answers an operation: what becomes of the run and of the operation.
LEMMA OpTakenStep ==
  ASSUME Types, SessionInv, NEW t \in Open, OpTaken(t)
  PROVE  /\ Types' /\ SessionInv' /\ Moved(t) /\ tab[t].sync \in Runs /\ tab[t].sync.answer = "none"
         /\ \E x \in {"done", "refused", "password", "session"} :
              /\ tab'[t].sync \in Runs /\ tab'[t].sync.left = tab[t].sync.left
              /\ tab'[t].sync.answer = x
              /\ done' = IF x = "done" THEN [done EXCEPT ![Op(t)] = @ + 1] ELSE done
              /\ refused' = IF x = "refused" THEN refused \cup {Op(t)} ELSE refused
         /\ queue' = queue /\ blurred' = blurred
<1>1. tab[t] \in TabRow /\ tab[t].sync \in Runs /\ tab[t].sync.answer = "none"
  BY RowFacts DEF OpTaken, Sending
<1>2. PICK x \in {"done", "refused", "password", "session"} :
        /\ done' = IF x = "done" THEN [done EXCEPT ![Op(t)] = @ + 1] ELSE done
        /\ refused' = IF x = "refused" THEN refused \cup {Op(t)} ELSE refused
        /\ Put(t, [tab[t] EXCEPT !.sync.answer = x])
  BY DEF OpTaken
<1> DEFINE s == [tab[t].sync EXCEPT !.answer = x]
<1>3. s \in Runs /\ s.left = tab[t].sync.left /\ s.answer = x /\ Op(t) \in Ops
  <2>1. Op(t) \in Ops
    BY <1>1, RunParts DEF Op
  <2>2. s \in Runs /\ s.left = tab[t].sync.left /\ s.answer = x
    BY <1>1 DEF Runs
  <2>. QED
    BY <2>1, <2>2
<1>4. Put(t, [tab[t] EXCEPT !.sync = s])
  BY <1>2
<1> HIDE DEF s
<1>5. UNCHANGED <<acct, online, cookie, behind, queue, blurred>>
  BY DEF OpTaken
<1>6. done' \in [Ops -> Nat]
  <2>1. CASE x = "done"
    <3>1. done' = [done EXCEPT ![Op(t)] = done[Op(t)] + 1] /\ done[Op(t)] + 1 \in Nat
      BY <1>2, <1>3, <2>1 DEF Types
    <3>. QED
      BY <3>1 DEF Types
  <2>2. CASE x # "done"
    BY <1>2, <2>2 DEF Types
  <2>. QED
    BY <2>1, <2>2
<1>7. refused' \subseteq Ops /\ queue' \subseteq Ops
  BY <1>2, <1>3, <1>5 DEF Types
<1>8. Types' /\ SessionInv' /\ Moved(t) /\ tab'[t].sync = s
  BY <1>3, <1>4, <1>5, <1>6, <1>7, RunStep
<1>. QED
  BY <1>1, <1>2, <1>3, <1>5, <1>8

\* An answer reaches the tab: it is turned away, or its run goes on.
LEMMA OpAnsweredStep ==
  ASSUME Types, SessionInv, NEW t \in Open, OpAnswered(t)
  PROVE  /\ Types' /\ SessionInv' /\ Moved(t) /\ tab[t].sync \in Runs /\ UNCHANGED <<done, refused>>
         /\ \/ /\ tab'[t].sync = Run /\ queue' = queue
               /\ blurred' = blurred \cup InRun(t) \cup Shared(t)
            \/ /\ tab'[t].sync = NextOp(tab[t].sync) /\ blurred' = blurred /\ queue' = Marked(t)
<1>1. tab[t] \in TabRow /\ tab[t].sync \in Runs
  BY RowFacts DEF OpAnswered, Sending
<1>2. UNCHANGED <<service, online, cookie, behind>>
  BY DEF OpAnswered
<1>3. CASE Turned(t)
  <2>1. Load(t, "login") /\ queue' = queue
    BY <1>3 DEF OpAnswered, SignedOut
  <2>2. /\ Types' /\ SessionInv' /\ Moved(t) /\ tab'[t].sync = Run
        /\ blurred' = blurred \cup InRun(t) \cup Shared(t)
    BY <1>2, <2>1, LoadStep
  <2>. QED
    BY <1>1, <1>2, <2>1, <2>2 DEF service
<1>4. CASE ~Turned(t)
  <2> DEFINE s == NextOp(tab[t].sync)
  <2>1. s \in {None} \cup Runs
    BY <1>1, RunParts
  <2>2. Put(t, [tab[t] EXCEPT !.sync = s]) /\ queue' = Marked(t) /\ blurred' = blurred
    BY <1>4 DEF OpAnswered
  <2> HIDE DEF s
  <2>3. Marked(t) \subseteq Ops
    BY DEF Marked, Types
  <2>4. queue' \subseteq Ops /\ done' \in [Ops -> Nat] /\ refused' \subseteq Ops
    BY <1>2, <2>2, <2>3 DEF service, Types
  <2>5. UNCHANGED <<acct, online, cookie, behind>>
    BY <1>2 DEF service
  <2>6. Types' /\ SessionInv' /\ Moved(t) /\ tab'[t].sync = s
    BY <2>1, <2>2, <2>4, <2>5, RunStep
  <2>. QED
    BY <1>1, <1>2, <2>2, <2>6 DEF s, service
<1>. QED
  BY <1>3, <1>4

\* No answer comes: the run goes on.
LEMMA OpLostStep ==
  ASSUME Types, SessionInv, NEW t \in Open, OpLost(t)
  PROVE  /\ Types' /\ SessionInv' /\ Moved(t) /\ tab[t].sync \in Runs /\ UNCHANGED <<done, refused, queue>>
         /\ tab'[t].sync = NextOp(tab[t].sync) /\ blurred' = blurred \cup {Op(t)}
<1>1. tab[t] \in TabRow /\ tab[t].sync \in Runs
  BY RowFacts DEF OpLost, Sending
<1>2. UNCHANGED <<acct, done, refused, online, cookie, queue, behind>>
  BY DEF OpLost, service
<1> DEFINE s == NextOp(tab[t].sync)
<1>3. s \in {None} \cup Runs
  BY <1>1, RunParts
<1>4. Put(t, [tab[t] EXCEPT !.sync = s]) /\ blurred' = blurred \cup {Op(t)}
  BY DEF OpLost
<1> HIDE DEF s
<1>5. queue' \subseteq Ops /\ done' \in [Ops -> Nat] /\ refused' \subseteq Ops
  BY <1>2 DEF Types
<1>6. Types' /\ SessionInv' /\ Moved(t) /\ tab'[t].sync = s
  BY <1>2, <1>3, <1>4, <1>5, RunStep
<1>. QED
  BY <1>1, <1>2, <1>4, <1>6 DEF s

\* The steps that leave the session of every tab as it is: runs start, time goes by.
LEMMA AllQuiet ==
  ASSUME Types, SessionInv, Open' = Open, tab' \in [Open -> TabRow], UNCHANGED <<acct, cookie, behind>>,
         \A t \in Open : /\ tab'[t].path = tab[t].path /\ tab'[t].user = tab[t].user
                         /\ tab'[t].loading = tab[t].loading /\ tab'[t].me = tab[t].me
                         /\ tab'[t].form = tab[t].form
  PROVE  SessionInv'
<1>1. Session' = Session
  BY DEF Session, Valid
<1>2. \A t \in Open : Shape(tab'[t]) /\ TrueForm(tab'[t].form, acct)
  BY DEF SessionInv, Shape
<1>3. ASSUME NEW t \in Open, t \notin behind
      PROVE  Knows(tab'[t], Session)
  <2>1. Knows(tab[t], Session)
    BY <1>3 DEF SessionInv
  <2>. QED
    BY <2>1 DEF Knows
<1>4. /\ Bound(cookie', acct')
      /\ \A t \in Open' : Shape(tab'[t]) /\ TrueForm(tab'[t].form, acct')
      /\ \A t \in Open' : t \notin behind' => Knows(tab'[t], Session')
  BY <1>1, <1>2, <1>3 DEF SessionInv
<1>. QED
  BY <1>4 DEF SessionInv

\* The network is back: the tabs start their runs.
LEMMA OnlineStep ==
  ASSUME Types, SessionInv, Online
  PROVE  /\ Types' /\ SessionInv' /\ Open' = Open
         /\ \A t \in Open : \/ tab'[t].sync = tab[t].sync
                            \/ /\ tab[t].sync = None /\ tab'[t].sync \in Runs
                               /\ tab'[t].sync.left = queue /\ tab'[t].sync.answer = "none"
         /\ UNCHANGED <<done, refused, queue>>
         /\ blurred' = IF Cardinality(Open) > 1 THEN blurred \cup queue ELSE blurred
<1> DEFINE run == [left |-> queue, answer |-> "none"]
           row(t) == IF Sending(t) \/ queue = {} THEN tab[t] ELSE [tab[t] EXCEPT !.sync = run]
<1>1. /\ tab' = [t \in Open |-> row(t)] /\ online' = TRUE
      /\ UNCHANGED <<acct, done, refused, cookie, queue, behind>>
      /\ blurred' = IF Cardinality(Open) > 1 THEN blurred \cup queue ELSE blurred
  BY DEF Online, service
<1>2. queue # {} => run \in Runs
  BY DEF Types, Runs
<1>3. run.left = queue /\ run.answer = "none"
  OBVIOUS
<1> HIDE DEF run
<1>4. ASSUME NEW t \in Open
      PROVE  /\ row(t) \in TabRow /\ row(t).path = tab[t].path /\ row(t).user = tab[t].user
             /\ row(t).loading = tab[t].loading /\ row(t).me = tab[t].me /\ row(t).form = tab[t].form
             /\ row(t).sync = tab[t].sync \/ (tab[t].sync = None /\ row(t).sync \in Runs /\ row(t).sync = run)
  <2>1. tab[t] \in TabRow
    BY DEF Types
  <2>2. CASE Sending(t) \/ queue = {}
    BY <2>1, <2>2
  <2>3. CASE ~ (Sending(t) \/ queue = {})
    <3>1. row(t) = [tab[t] EXCEPT !.sync = run] /\ tab[t].sync = None /\ run \in {None} \cup Runs
          /\ run \in Runs
      BY <1>2, <2>3 DEF Sending
    <3> HIDE DEF row
    <3>. QED
      BY <2>1, <3>1, TabParts
  <2>. QED
    BY <2>2, <2>3
<1> HIDE DEF row
<1>5. Open' = Open
  BY <1>1 DEF Open
<1>6. tab' \in [Open -> TabRow] /\ \A t \in Open : tab'[t] = row(t)
  BY <1>1, <1>4
<1>7. Types'
  BY <1>1, <1>5, <1>6 DEF Types
<1>8. SessionInv'
  BY <1>1, <1>4, <1>5, <1>6, AllQuiet
<1>9. ASSUME NEW t \in Open
      PROVE  \/ tab'[t].sync = tab[t].sync
             \/ /\ tab[t].sync = None /\ tab'[t].sync \in Runs
                /\ tab'[t].sync.left = queue /\ tab'[t].sync.answer = "none"
  BY <1>3, <1>4, <1>6
<1>. QED
  BY <1>1, <1>5, <1>7, <1>8, <1>9

\* The network is gone.
LEMMA OfflineStep ==
  ASSUME Types, SessionInv, Offline
  PROVE  /\ Types' /\ SessionInv' /\ Open' = Open /\ UNCHANGED <<tab, done, refused, queue, blurred>>
<1>1. UNCHANGED <<acct, done, refused, cookie, queue, tab, blurred, behind>> /\ online' = FALSE
  BY DEF Offline, service
<1>2. Open' = Open
  BY <1>1 DEF Open
<1>3. Types'
  BY <1>1, <1>2 DEF Types
<1>4. SessionInv'
  BY <1>1, <1>2, AllQuiet DEF Types
<1>. QED
  BY <1>1, <1>2, <1>3, <1>4

\* An administrator resets a password: the cookie and the forms that knew the account are old.
LEMMA ResetStep ==
  ASSUME Types, SessionInv, NEW a \in Accounts, AdminResets(a)
  PROVE  /\ Types' /\ SessionInv' /\ Open' = Open /\ UNCHANGED <<tab, done, refused, queue, blurred>>
<1>1. UNCHANGED <<done, refused, online, cookie, queue, tab, blurred, behind>>
      /\ acct' = [acct EXCEPT ![a] = [version |-> acct[a].version + 1, must |-> TRUE]]
  BY DEF AdminResets
<1>2. acct[a].version \in Nat /\ acct[a].version + 1 \in Nat /\ acct[a].version < acct[a].version + 1
  <2>1. acct[a].version \in Nat
    BY DEF Types
  <2>. QED
    BY <2>1
<1>3. acct' \in [Accounts -> [version : Nat, must : BOOLEAN]] /\ acct'[a].version = acct[a].version + 1
      /\ \A b \in Accounts \ {a} : acct'[b] = acct[b]
  <2>1. PICK v \in Nat : v = acct[a].version + 1
    BY <1>2
  <2>2. acct' = [acct EXCEPT ![a] = [version |-> v, must |-> TRUE]]
    BY <1>1, <2>1
  <2>3. [version |-> v, must |-> TRUE] \in [version : Nat, must : BOOLEAN]
    OBVIOUS
  <2>4. acct' \in [Accounts -> [version : Nat, must : BOOLEAN]] /\ acct'[a] = [version |-> v, must |-> TRUE]
        /\ \A b \in Accounts \ {a} : acct'[b] = acct[b]
    BY <2>2, <2>3 DEF Types
  <2>. QED
    BY <2>1, <2>4
<1>4. Grows
  BY <1>2, <1>3 DEF Grows
<1>5. Open' = Open
  BY <1>1 DEF Open
<1>6. Types'
  BY <1>1, <1>3, <1>5 DEF Types
<1>7. Session' \in {Session, None} /\ Bound(cookie', acct')
  BY <1>1, <1>3, <1>4, SessionKept DEF SessionInv
<1>8. ASSUME NEW t \in Open
      PROVE  /\ Shape(tab[t]) /\ TrueForm(tab[t].form, acct')
             /\ t \notin behind => Knows(tab[t], Session')
  <2>1. /\ Shape(tab[t]) /\ TrueForm(tab[t].form, acct) /\ (t \notin behind => Knows(tab[t], Session))
        /\ tab[t].form \in {None} \cup LoginForms \cup ChangeForms
    BY RowFacts
  <2>2. TrueForm(tab[t].form, acct')
    BY <1>3, <1>4, <2>1, FormsStayTrue
  <2>3. t \notin behind => Knows(tab[t], Session')
    BY <1>7, <2>1 DEF Knows
  <2>. QED
    BY <2>1, <2>2, <2>3
<1>9. SessionInv'
  <2>1. /\ \A t \in Open' : Shape(tab'[t]) /\ TrueForm(tab'[t].form, acct')
        /\ \A t \in Open' : t \notin behind' => Knows(tab'[t], Session')
    BY <1>1, <1>5, <1>8
  <2>. QED
    BY <1>7, <2>1 DEF SessionInv
<1>. QED
  BY <1>1, <1>5, <1>6, <1>9

\* The pages load for the first time.
LEMMA SessionInit ==
  ASSUME Init
  PROVE  Types /\ SessionInv
<1>1. PICK open \in SUBSET Tabs \ {{}} : tab = [t \in open |-> Loading("home")]
  BY DEF Init
<1>2. PICK must \in BOOLEAN : acct = [a \in Accounts |-> [version |-> 0, must |-> must]]
  BY DEF Init
<1>3. acct \in [Accounts -> [version : Nat, must : BOOLEAN]] /\ \A a \in Accounts : acct[a].version = 0
  <2>1. [version |-> 0, must |-> must] \in [version : Nat, must : BOOLEAN]
    OBVIOUS
  <2>. QED
    BY <1>2, <2>1
<1>4. /\ queue \subseteq Ops /\ done \in [Ops -> Nat] /\ refused \subseteq Ops /\ online \in BOOLEAN
      /\ cookie \in {None} \cup {[who |-> a, version |-> 0] : a \in Accounts} /\ behind = {}
  BY DEF Init
<1>5. cookie \in {None} \cup Tokens /\ (cookie # None => cookie.version = 0 /\ cookie.who \in Accounts)
  BY <1>4 DEF Tokens
<1>6. Run \in {None} \cup Runs
  BY <1>4 DEF Run, Runs
<1> DEFINE r == Loading("home")
<1>7. r \in TabRow /\ r.loading /\ r.me = <<>> /\ r.form = None
  BY <1>6 DEF Loading, TabRow
<1> HIDE DEF r
<1>8. Open = open /\ tab = [t \in open |-> r]
  BY <1>1 DEF Open, r
<1>9. Types
  BY <1>3, <1>4, <1>5, <1>7, <1>8 DEF Types
<1>10. Shape(r) /\ TrueForm(r.form, acct) /\ Knows(r, Session)
  <2>1. ~ (None \in LoginForms) /\ ~ (None \in ChangeForms) /\ \A m : ~ (<<>> = <<m>>)
    BY Apart
  <2>. QED
    BY <1>7, <2>1 DEF Shape, TrueForm, Knows
<1>11. SessionInv
  BY <1>3, <1>5, <1>8, <1>10 DEF SessionInv, Bound
<1>. QED
  BY <1>9, <1>11

-----------------------------------------------------------------------------
(* The steps, as the queue sees them. *)

QuietRun == /\ Open' = Open /\ (\A t \in Open : tab'[t].sync = tab[t].sync)
            /\ UNCHANGED <<done, refused, queue, blurred>>

\* The run of a tab starts, is taken by the service, and goes on.
RunAgain(t) == /\ Moved(t) /\ tab'[t].sync = Run /\ UNCHANGED <<done, refused, queue>>
               /\ blurred' = blurred \cup InRun(t) \cup Shared(t)

RunTaken(t, x) ==
  /\ Moved(t) /\ tab[t].sync \in Runs /\ tab[t].sync.answer = "none"
  /\ tab'[t].sync \in Runs /\ tab'[t].sync.left = tab[t].sync.left /\ tab'[t].sync.answer = x
  /\ done' = IF x = "done" THEN [done EXCEPT ![Op(t)] = @ + 1] ELSE done
  /\ refused' = IF x = "refused" THEN refused \cup {Op(t)} ELSE refused
  /\ queue' = queue /\ blurred' = blurred

RunGoesOn(t) ==
  /\ Moved(t) /\ tab[t].sync \in Runs /\ tab'[t].sync = NextOp(tab[t].sync) /\ UNCHANGED <<done, refused>>
  /\ \/ queue' = Marked(t) /\ tab[t].sync.answer # "none" /\ blurred' = blurred
     \/ queue' = queue /\ blurred' = blurred \cup {Op(t)}

\* The runs of the tabs start when they are online again.
RunsStart ==
  /\ Open' = Open /\ UNCHANGED <<done, refused, queue>>
  /\ \A t \in Open : \/ tab'[t].sync = tab[t].sync
                     \/ /\ tab[t].sync = None /\ tab'[t].sync \in Runs
                        /\ tab'[t].sync.left = queue /\ tab'[t].sync.answer = "none"
  /\ blurred' = IF Cardinality(Open) > 1 THEN blurred \cup queue ELSE blurred

\* Every step keeps what the tabs know, and is one of these for the queue.
LEMMA StepKinds ==
  ASSUME Types, SessionInv, [Next]_sessionVars
  PROVE  /\ Types' /\ SessionInv'
         /\ \/ QuietRun \/ RunsStart
            \/ \E t \in Open : \/ RunAgain(t) \/ RunGoesOn(t)
                               \/ \E x \in {"done", "refused", "password", "session"} : RunTaken(t, x)
<1>1. CASE UNCHANGED sessionVars
  <2>1. UNCHANGED <<acct, done, refused, online, cookie, queue, tab, blurred, behind>>
    BY <1>1 DEF sessionVars, service
  <2>2. Open' = Open
    BY <2>1 DEF Open
  <2>3. Types'
    BY <2>1, <2>2 DEF Types
  <2>4. SessionInv'
    BY <2>1, <2>2, AllQuiet DEF Types
  <2>. QED
    BY <2>1, <2>2, <2>3, <2>4 DEF QuietRun
<1>2. ASSUME NEW t \in Open, Moved(t), tab'[t].sync = tab[t].sync,
             UNCHANGED <<done, refused, queue, blurred>>
      PROVE  QuietRun
  BY <1>2 DEF Moved, QuietRun
<1>3. ASSUME NEW t \in Open, MeTaken(t) \/ MeShown(t) \/ LoginTaken(t) \/ LoginShown(t) \/ ChangeTaken(t)
                             \/ FormFails(t) \/ Logout(t) \/ ChangeSubmit(t)
                             \/ \E a \in Accounts : LoginSubmit(t, a)
      PROVE  Types' /\ SessionInv' /\ QuietRun
  <2>1. UNCHANGED <<done, refused, queue, blurred>>
    BY <1>3 DEF MeTaken, MeShown, LoginTaken, LoginShown, ChangeTaken, FormFails, Logout, ChangeSubmit,
                LoginSubmit, service
  <2>2. Types' /\ SessionInv' /\ Moved(t) /\ tab'[t].sync = tab[t].sync
    <3>1. CASE MeTaken(t)
      BY <3>1, MeTakenStep
    <3>2. CASE MeShown(t)
      BY <3>2, MeShownStep
    <3>3. CASE LoginTaken(t)
      BY <3>3, LoginTakenStep
    <3>4. CASE LoginShown(t)
      BY <3>4, LoginShownStep
    <3>5. CASE ChangeTaken(t)
      BY <3>5, ChangeTakenStep
    <3>6. CASE FormFails(t)
      BY <3>6, FormFailsStep
    <3>7. CASE Logout(t)
      BY <3>7, LogoutStep
    <3>8. CASE ChangeSubmit(t)
      BY <3>8, ChangeSubmitStep
    <3>9. ASSUME NEW a \in Accounts, LoginSubmit(t, a)
          PROVE  Types' /\ SessionInv' /\ Moved(t) /\ tab'[t].sync = tab[t].sync
      BY <3>9, LoginSubmitStep
    <3>. QED
      BY <1>3, <3>1, <3>2, <3>3, <3>4, <3>5, <3>6, <3>7, <3>8, <3>9
  <2>. QED
    BY <1>2, <2>1, <2>2
<1>4. ASSUME NEW t \in Open, ChangeShown(t)
      PROVE  Types' /\ SessionInv' /\ (QuietRun \/ RunAgain(t))
  <2>1. UNCHANGED <<done, refused, queue>>
    BY <1>4 DEF ChangeShown, service
  <2>2. /\ Types' /\ SessionInv' /\ Moved(t)
        /\ \/ tab'[t].sync = tab[t].sync /\ blurred' = blurred
           \/ tab'[t].sync = Run /\ blurred' = blurred \cup InRun(t) \cup Shared(t)
    BY <1>4, ChangeShownStep
  <2>. QED
    BY <1>2, <2>1, <2>2 DEF RunAgain
<1>5. ASSUME NEW t \in Open, Reload(t)
      PROVE  Types' /\ SessionInv' /\ RunAgain(t)
  <2>1. PICK path \in {"login", "change", "home"} : path = tab[t].path
    BY RowFacts
  <2>2. Load(t, path) /\ UNCHANGED <<service, online, cookie, queue, behind>>
    BY <1>5, <2>1 DEF Reload
  <2>3. /\ Types' /\ SessionInv' /\ Moved(t) /\ tab'[t].sync = Run
        /\ blurred' = blurred \cup InRun(t) \cup Shared(t)
    BY <2>2, LoadStep
  <2>. QED
    BY <2>2, <2>3 DEF RunAgain, service
<1>6. ASSUME NEW t \in Open, OpTaken(t)
      PROVE  /\ Types' /\ SessionInv'
             /\ \E x \in {"done", "refused", "password", "session"} : RunTaken(t, x)
  BY <1>6, OpTakenStep DEF RunTaken
<1>7. ASSUME NEW t \in Open, OpAnswered(t)
      PROVE  Types' /\ SessionInv' /\ (RunAgain(t) \/ RunGoesOn(t))
  <2>1. tab[t].sync.answer # "none"
    BY <1>7 DEF OpAnswered
  <2>2. /\ Types' /\ SessionInv' /\ Moved(t) /\ tab[t].sync \in Runs /\ UNCHANGED <<done, refused>>
        /\ \/ /\ tab'[t].sync = Run /\ queue' = queue
              /\ blurred' = blurred \cup InRun(t) \cup Shared(t)
           \/ /\ tab'[t].sync = NextOp(tab[t].sync) /\ blurred' = blurred /\ queue' = Marked(t)
    BY <1>7, OpAnsweredStep
  <2>. QED
    BY <2>1, <2>2 DEF RunAgain, RunGoesOn
<1>8. ASSUME NEW t \in Open, OpLost(t)
      PROVE  Types' /\ SessionInv' /\ RunGoesOn(t)
  <2>1. /\ Types' /\ SessionInv' /\ Moved(t) /\ tab[t].sync \in Runs /\ UNCHANGED <<done, refused, queue>>
        /\ tab'[t].sync = NextOp(tab[t].sync) /\ blurred' = blurred \cup {Op(t)}
    BY <1>8, OpLostStep
  <2>. QED
    BY <2>1 DEF RunGoesOn
<1>9. CASE Offline
  <2>1. Types' /\ SessionInv' /\ Open' = Open /\ UNCHANGED <<tab, done, refused, queue, blurred>>
    BY <1>9, OfflineStep
  <2>. QED
    BY <2>1 DEF QuietRun
<1>10. CASE Online
  BY <1>10, OnlineStep DEF RunsStart
<1>11. ASSUME NEW a \in Accounts, AdminResets(a)
       PROVE  Types' /\ SessionInv' /\ QuietRun
  <2>1. Types' /\ SessionInv' /\ Open' = Open /\ UNCHANGED <<tab, done, refused, queue, blurred>>
    BY <1>11, ResetStep
  <2>. QED
    BY <2>1 DEF QuietRun
<1>. QED
  BY <1>1, <1>3, <1>4, <1>5, <1>6, <1>7, <1>8, <1>9, <1>10, <1>11 DEF Next, Answers

\* TabKnowsSession for any tabs and accounts: a tab that no other tab overtook shows
\* the account of the cookie, and whether its password must be changed, as long as the
\* service honours that cookie (AuthContext.jsx, the interceptor of api.js).
THEOREM TabsKnowTheSession == Spec => []TabKnowsSession
<1>1. Init => Types /\ SessionInv
  BY SessionInit
<1>2. Types /\ SessionInv /\ [Next]_sessionVars => (Types /\ SessionInv)'
  BY StepKinds
<1>3. Types /\ SessionInv => TabKnowsSession
  BY DEF SessionInv, Knows, TabKnowsSession
<1>. QED
  BY <1>1, <1>2, <1>3, PTL DEF Spec

-----------------------------------------------------------------------------
(* The operations of the queue. *)

Left(r) == IF r.sync # None THEN r.sync.left ELSE {}
\* An operation a run is at, and what the queue says of it.
At(r, o, x) == r.sync # None /\ Min(r.sync.left) = o /\ r.sync.answer = x

Alone(o) == \A t, u \in Open : o \in Left(tab[t]) /\ o \in Left(tab[u]) => t = u
Waiting(o) == \A t \in Open : o \in Left(tab[t]) => o \in queue
Gone(o) == done[o] <= 1 /\ (o \notin queue => done[o] = 1 \/ o \in refused)
Underway(o) == o \in queue /\ done[o] # 0 => \E t \in Open : At(tab[t], o, "done")
Answered(o) == \A t \in Open : /\ At(tab[t], o, "refused") => o \in refused
                               /\ At(tab[t], o, "done") => done[o] = 1

Followed(o) == Alone(o) /\ Waiting(o) /\ Gone(o) /\ Underway(o) /\ Answered(o)
\* The operations that were not blurred are followed.
QueueInv == \A o \in Ops \ blurred : Followed(o)

\* An operation on its way is in the run of its tab.
LEMMA AtIsLeft ==
  ASSUME NEW r, r.sync \in {None} \cup Runs, NEW o, NEW x, At(r, o, x)
  PROVE  o \in Left(r) /\ r.sync \in Runs
<1>1. r.sync \in Runs /\ r.sync # None /\ o = Min(r.sync.left)
  BY DEF At
<1>2. Min(r.sync.left) \in r.sync.left
  BY <1>1, RunParts
<1>. QED
  BY <1>1, <1>2 DEF Left

\* What the runs of the tabs are.
LEMMA SyncTypes ==
  ASSUME Types, NEW t \in Open
  PROVE  tab[t] \in TabRow /\ tab[t].sync \in {None} \cup Runs
BY DEF Types, TabRow

\* Runs and queue stay.
LEMMA QuietRunKeeps ==
  ASSUME Types, Types', QueueInv, QuietRun
  PROVE  QueueInv'
<1>1. SUFFICES ASSUME NEW o \in Ops \ blurred
               PROVE  Followed(o)'
  BY DEF QueueInv, QuietRun
<1>2. Followed(o)
  BY DEF QueueInv
<1>3. Open' = Open /\ done' = done /\ refused' = refused /\ queue' = queue
  BY DEF QuietRun
<1>4. \A t \in Open : /\ Left(tab'[t]) = Left(tab[t])
                      /\ \A x : At(tab'[t], o, x) <=> At(tab[t], o, x)
  BY DEF QuietRun, Left, At
<1>5. Alone(o)' /\ Waiting(o)'
  BY <1>2, <1>3, <1>4 DEF Followed, Alone, Waiting
<1>6. Gone(o)'
  BY <1>2, <1>3 DEF Followed, Gone
<1>7. Underway(o)' /\ Answered(o)'
  BY <1>2, <1>3, <1>4 DEF Followed, Underway, Answered
<1>. QED
  BY <1>5, <1>6, <1>7 DEF Followed

\* A page loads and starts a run: what it had on its way, and what the others hold, is blurred.
LEMMA RunAgainKeeps ==
  ASSUME Types, Types', QueueInv, NEW t \in Open, RunAgain(t)
  PROVE  QueueInv'
<1>1. SUFFICES ASSUME NEW o \in Ops \ (blurred \cup InRun(t) \cup Shared(t))
               PROVE  Followed(o)'
  BY DEF QueueInv, RunAgain
<1>2. Followed(o)
  BY DEF QueueInv
<1>3. /\ Open' = Open /\ done' = done /\ refused' = refused /\ queue' = queue
      /\ tab'[t].sync = Run /\ \A u \in Open \ {t} : tab'[u] = tab[u]
  BY DEF RunAgain, Moved
<1>4. o \in Left(tab'[t]) => o \in queue /\ \A u \in Open \ {t} : o \notin Left(tab[u])
  <2>1. SUFFICES ASSUME Run # None, o \in queue, NEW u \in Open \ {t}, o \in Left(tab[u])
                 PROVE  FALSE
    BY <1>3 DEF Left, Run
  <2>2. Sending(u) /\ o \in tab[u].sync.left
    BY <2>1 DEF Left, Sending
  <2>3. o \in UNION {tab[v].sync.left : v \in {w \in Open \ {t} : Sending(w)}}
    BY <2>2
  <2>4. o \in Shared(t)
    BY <2>1, <2>3 DEF Shared
  <2>. QED
    BY <1>1, <2>4
<1>5. \A x : At(tab'[t], o, x) => x = "none"
  BY <1>3 DEF At, Run
<1>6. \A x : ~At(tab[t], o, x)
  BY <1>1 DEF At, InRun, Sending, Op
<1>7. Alone(o)' /\ Waiting(o)'
  <2>1. ASSUME NEW u \in Open, NEW v \in Open, o \in Left(tab'[u]), o \in Left(tab'[v])
        PROVE  u = v
    <3>1. CASE u = t \/ v = t
      BY <1>3, <1>4, <2>1, <3>1
    <3>2. CASE u # t /\ v # t
      BY <1>2, <1>3, <2>1, <3>2 DEF Followed, Alone
    <3>. QED
      BY <3>1, <3>2
  <2>2. ASSUME NEW u \in Open, o \in Left(tab'[u])
        PROVE  o \in queue
    BY <1>2, <1>3, <1>4, <2>2 DEF Followed, Waiting
  <2>. QED
    BY <1>3, <2>1, <2>2 DEF Alone, Waiting
<1>8. Gone(o)'
  BY <1>2, <1>3 DEF Followed, Gone
<1>9. Underway(o)'
  <2>1. SUFFICES ASSUME o \in queue, done[o] # 0
                 PROVE  \E u \in Open : At(tab'[u], o, "done")
    BY <1>3 DEF Underway
  <2>2. PICK u \in Open : At(tab[u], o, "done")
    BY <1>2, <2>1 DEF Followed, Underway
  <2>3. u # t
    BY <1>6, <2>2
  <2>. QED
    BY <1>3, <2>2, <2>3
<1>10. Answered(o)'
  <2>1. ASSUME NEW u \in Open
        PROVE  /\ At(tab'[u], o, "refused") => o \in refused
               /\ At(tab'[u], o, "done") => done[o] = 1
    <3>1. CASE u = t
      BY <1>5, <3>1
    <3>2. CASE u # t
      BY <1>2, <1>3, <3>2 DEF Followed, Answered
    <3>. QED
      BY <3>1, <3>2
  <2>. QED
    BY <1>3, <2>1 DEF Answered
<1>. QED
  BY <1>7, <1>8, <1>9, <1>10 DEF Followed

\* The service answers an operation: it was not done before.
LEMMA RunTakenKeeps ==
  ASSUME Types, Types', QueueInv, NEW t \in Open, NEW x \in {"done", "refused", "password", "session"},
         RunTaken(t, x)
  PROVE  QueueInv'
<1>1. SUFFICES ASSUME NEW o \in Ops \ blurred
               PROVE  Followed(o)'
  BY DEF QueueInv, RunTaken
<1>2. Followed(o)
  BY DEF QueueInv
<1>3. PICK p \in Ops : p = Op(t)
  <2>1. tab[t].sync \in Runs
    BY DEF RunTaken
  <2>. QED
    BY <2>1, RunParts DEF Op
<1>4. /\ Open' = Open /\ queue' = queue /\ \A u \in Open \ {t} : tab'[u] = tab[u]
      /\ tab[t].sync \in Runs /\ tab[t].sync.answer = "none" /\ Min(tab[t].sync.left) = p
      /\ tab'[t].sync \in Runs /\ tab'[t].sync.left = tab[t].sync.left /\ tab'[t].sync.answer = x
  BY <1>3 DEF RunTaken, Moved, Op
<1>5. /\ done' = IF x = "done" THEN [done EXCEPT ![p] = done[p] + 1] ELSE done
      /\ refused' = IF x = "refused" THEN refused \cup {p} ELSE refused
  BY <1>3 DEF RunTaken
<1>6. tab[t].sync # None /\ tab'[t].sync # None
  BY <1>4, Apart
<1>7. \A u \in Open : Left(tab'[u]) = Left(tab[u])
  BY <1>4, <1>6 DEF Left
<1>8. Alone(o)' /\ Waiting(o)'
  BY <1>2, <1>4, <1>7 DEF Followed, Alone, Waiting
<1>9. \A y : At(tab'[t], o, y) <=> p = o /\ y = x
  BY <1>4, <1>6 DEF At
<1>10. CASE o # p
  <2>1. done'[o] = done[o] /\ (o \in refused' <=> o \in refused)
    BY <1>5, <1>10 DEF Types
  <2>2. \A u \in Open, y \in {"done", "refused"} : At(tab'[u], o, y) <=> At(tab[u], o, y)
    <3>1. \A y : ~At(tab[t], o, y)
      BY <1>4, <1>10 DEF At
    <3>. QED
      BY <1>4, <1>9, <1>10, <3>1
  <2>3. Gone(o)'
    BY <1>2, <1>4, <2>1 DEF Followed, Gone
  <2>4. Underway(o)' /\ Answered(o)'
    BY <1>2, <1>4, <2>1, <2>2 DEF Followed, Underway, Answered
  <2>. QED
    BY <1>8, <2>3, <2>4 DEF Followed
<1>11. CASE o = p
  <2>1. o \in Left(tab[t])
    <3>1. Min(tab[t].sync.left) \in tab[t].sync.left
      BY <1>4, RunParts
    <3>. QED
      BY <1>4, <1>6, <1>11, <3>1 DEF Left
  <2>2. ASSUME NEW u \in Open, NEW y, At(tab[u], o, y)
        PROVE  u = t
    <3>1. o \in Left(tab[u])
      BY <2>2, SyncTypes, AtIsLeft
    <3>. QED
      BY <1>2, <2>1, <3>1 DEF Followed, Alone
  <2>3. o \in queue
    BY <1>2, <2>1 DEF Followed, Waiting
  <2>4. done[o] = 0
    <3>1. SUFFICES ASSUME done[o] # 0
                   PROVE  FALSE
      OBVIOUS
    <3>2. PICK u \in Open : At(tab[u], o, "done")
      BY <1>2, <2>3, <3>1 DEF Followed, Underway
    <3>3. u = t
      BY <2>2, <3>2
    <3>. QED
      BY <1>4, <3>2, <3>3 DEF At
  <2>5. done'[o] = IF x = "done" THEN 1 ELSE 0
    BY <1>5, <1>11, <2>4 DEF Types
  <2>6. x = "refused" => o \in refused'
    BY <1>5, <1>11
  <2>7. Gone(o)'
    BY <1>4, <2>3, <2>5 DEF Gone
  <2>8. Underway(o)'
    BY <1>4, <1>9, <1>11, <2>5 DEF Underway
  <2>9. Answered(o)'
    <3>1. ASSUME NEW u \in Open, NEW y \in {"done", "refused"}, At(tab'[u], o, y)
          PROVE  u = t /\ y = x
      <4>1. CASE u = t
        BY <1>9, <3>1, <4>1
      <4>2. CASE u # t
        <5>1. At(tab[u], o, y)
          BY <1>4, <3>1, <4>2
        <5>. QED
          BY <2>2, <4>2, <5>1
      <4>. QED
        BY <4>1, <4>2
    <3>. QED
      BY <1>4, <2>5, <2>6, <3>1 DEF Answered
  <2>. QED
    BY <1>8, <2>7, <2>8, <2>9 DEF Followed
<1>. QED
  BY <1>10, <1>11

\* A run goes on after an answer, which marks the operation, or after none, which blurs it.
LEMMA RunGoesOnKeeps ==
  ASSUME Types, Types', QueueInv, NEW t \in Open, RunGoesOn(t)
  PROVE  QueueInv'
<1>1. SUFFICES ASSUME NEW o \in Ops \ blurred, o \notin blurred'
               PROVE  Followed(o)'
  BY DEF QueueInv, RunGoesOn
<1>2. Followed(o)
  BY DEF QueueInv
<1>3. tab[t].sync \in Runs /\ tab[t].sync # None
  BY Apart DEF RunGoesOn
<1>4. PICK p \in Ops : p = Op(t)
  BY <1>3, RunParts DEF Op
<1>5. /\ Open' = Open /\ done' = done /\ refused' = refused
      /\ tab'[t].sync = NextOp(tab[t].sync) /\ \A u \in Open \ {t} : tab'[u] = tab[u]
      /\ Min(tab[t].sync.left) = p
  BY <1>4 DEF RunGoesOn, Moved, Op
<1>6. o \in Left(tab'[t]) => o \in Left(tab[t]) /\ o # p
  <2>1. tab'[t].sync # None => tab'[t].sync.left = tab[t].sync.left \ {p}
    BY ZenonT(60), <1>3, <1>5, RunParts
  <2>. QED
    BY <1>3, <2>1 DEF Left
<1>7. \A x \in {"done", "refused"} : ~At(tab'[t], o, x)
  BY ZenonT(60), <1>3, <1>5, RunParts DEF At
<1>8. Alone(o)'
  <2>1. ASSUME NEW u \in Open, NEW v \in Open, o \in Left(tab'[u]), o \in Left(tab'[v])
        PROVE  u = v
    <3>1. o \in Left(tab[u]) /\ o \in Left(tab[v])
      BY <1>5, <1>6, <2>1
    <3>. QED
      BY <1>2, <3>1 DEF Followed, Alone
  <2>. QED
    BY <1>5, <2>1 DEF Alone
<1>9. Answered(o)'
  <2>1. ASSUME NEW u \in Open
        PROVE  /\ At(tab'[u], o, "refused") => o \in refused
               /\ At(tab'[u], o, "done") => done[o] = 1
    <3>1. CASE u = t
      BY <1>7, <3>1
    <3>2. CASE u # t
      BY <1>2, <1>5, <3>2 DEF Followed, Answered
    <3>. QED
      BY <3>1, <3>2
  <2>. QED
    BY <1>5, <2>1 DEF Answered
<1>10. CASE o # p
  <2>1. o \in queue' <=> o \in queue
    BY <1>4, <1>10 DEF RunGoesOn, Marked
  <2>2. Waiting(o)'
    <3>1. ASSUME NEW u \in Open, o \in Left(tab'[u])
          PROVE  o \in queue
      <4>1. o \in Left(tab[u])
        BY <1>5, <1>6, <3>1
      <4>. QED
        BY <1>2, <4>1 DEF Followed, Waiting
    <3>. QED
      BY <1>5, <2>1, <3>1 DEF Waiting
  <2>3. Gone(o)'
    BY <1>2, <1>5, <2>1 DEF Followed, Gone
  <2>4. Underway(o)'
    <3>1. SUFFICES ASSUME o \in queue, done[o] # 0
                   PROVE  \E u \in Open : At(tab'[u], o, "done")
      BY <1>5, <2>1 DEF Underway
    <3>2. PICK u \in Open : At(tab[u], o, "done")
      BY <1>2, <3>1 DEF Followed, Underway
    <3>3. u # t
      BY <1>5, <1>10, <3>2 DEF At
    <3>. QED
      BY <1>5, <3>2, <3>3
  <2>. QED
    BY <1>8, <1>9, <2>2, <2>3, <2>4 DEF Followed
<1>11. CASE o = p
  <2>1. queue' = Marked(t) /\ tab[t].sync.answer # "none"
    BY <1>1, <1>4, <1>11 DEF RunGoesOn
  <2>2. o \in Left(tab[t])
    <3>1. Min(tab[t].sync.left) \in tab[t].sync.left
      BY <1>3, RunParts
    <3>. QED
      BY <1>3, <1>5, <1>11, <3>1 DEF Left
  <2>3. \A u \in Open : o \notin Left(tab'[u])
    <3>1. ASSUME NEW u \in Open, o \in Left(tab'[u])
          PROVE  FALSE
      <4>1. u # t /\ o \in Left(tab[u])
        BY <1>5, <1>6, <1>11, <3>1
      <4>. QED
        BY <1>2, <2>2, <4>1 DEF Followed, Alone
    <3>. QED
      BY <3>1
  <2>4. Waiting(o)'
    BY <1>5, <2>3 DEF Waiting
  <2>5. CASE tab[t].sync.answer \in {"done", "refused"}
    <3>1. o \notin queue'
      BY <1>4, <1>11, <2>1, <2>5 DEF Marked
    <3>2. done[o] = 1 \/ o \in refused
      <4>1. At(tab[t], o, "done") \/ At(tab[t], o, "refused")
        BY <1>3, <1>5, <1>11, <2>5 DEF At
      <4>. QED
        BY <1>2, <4>1 DEF Followed, Answered
    <3>3. Gone(o)' /\ Underway(o)'
      BY <1>2, <1>5, <3>1, <3>2 DEF Followed, Gone, Underway
    <3>. QED
      BY <1>8, <1>9, <2>4, <3>3 DEF Followed
  <2>6. CASE tab[t].sync.answer \notin {"done", "refused"}
    <3>1. queue' = queue
      BY <2>1, <2>6 DEF Marked
    <3>2. o \in queue
      BY <1>2, <2>2 DEF Followed, Waiting
    <3>3. done[o] = 0
      <4>1. SUFFICES ASSUME done[o] # 0
                     PROVE  FALSE
        OBVIOUS
      <4>2. PICK u \in Open : At(tab[u], o, "done")
        BY <1>2, <3>2, <4>1 DEF Followed, Underway
      <4>3. o \in Left(tab[u])
        BY <4>2, SyncTypes, AtIsLeft
      <4>4. u = t
        BY <1>2, <2>2, <4>3 DEF Followed, Alone
      <4>. QED
        BY <2>6, <4>2, <4>4 DEF At
    <3>4. Gone(o)' /\ Underway(o)'
      BY <1>5, <3>1, <3>2, <3>3 DEF Gone, Underway
    <3>. QED
      BY <1>8, <1>9, <2>4, <3>4 DEF Followed
  <2>. QED
    BY <2>5, <2>6
<1>. QED
  BY <1>10, <1>11

\* Where one tab is open, there is one.
LEMMA OneTab ==
  ASSUME Types, ~ (Cardinality(Open) > 1), NEW t \in Open, NEW u \in Open
  PROVE  t = u
<1>1. IsFiniteSet(Open)
  BY FS_Subset DEF Types
<1> DEFINE S == Open
<1> HIDE DEF S
<1>2. IsFiniteSet(S) /\ t \in S /\ u \in S /\ ~ (Cardinality(S) > 1)
  BY <1>1 DEF S
<1>3. IsFiniteSet(S \ {t}) /\ Cardinality(S \ {t}) = Cardinality(S) - 1
  BY <1>2, FS_RemoveElement
<1>4. Cardinality(S) \in Nat
  BY <1>2, FS_CardinalityType
<1>5. Cardinality(S \ {t}) \in Nat
  BY <1>3, FS_CardinalityType
<1>6. Cardinality(S \ {t}) = 0
  BY <1>2, <1>3, <1>4, <1>5
<1>7. S \ {t} = {}
  BY <1>3, <1>6, FS_EmptySet
<1>. QED
  BY <1>2, <1>7

\* The tabs start their runs: with more than one, the whole queue is blurred.
LEMMA RunsStartKeeps ==
  ASSUME Types, Types', QueueInv, RunsStart
  PROVE  QueueInv'
<1>1. SUFFICES ASSUME NEW o \in Ops \ blurred, o \notin blurred'
               PROVE  Followed(o)'
  BY DEF QueueInv, RunsStart
<1>2. Followed(o)
  BY DEF QueueInv
<1>3. Open' = Open /\ done' = done /\ refused' = refused /\ queue' = queue
  BY DEF RunsStart
<1>4. ASSUME NEW t \in Open
      PROVE  \/ tab'[t].sync = tab[t].sync
             \/ /\ tab[t].sync = None /\ tab'[t].sync # None
                /\ tab'[t].sync.left = queue /\ tab'[t].sync.answer = "none"
  BY Apart DEF RunsStart
<1>5. ASSUME NEW t \in Open, o \in Left(tab'[t])
      PROVE  o \in queue
  <2>1. CASE tab'[t].sync = tab[t].sync
    <3>1. o \in Left(tab[t])
      BY <1>5, <2>1 DEF Left
    <3>. QED
      BY <1>2, <3>1 DEF Followed, Waiting
  <2>2. CASE tab'[t].sync.left = queue
    BY <1>5, <2>2 DEF Left
  <2>. QED
    BY <1>4, <2>1, <2>2
<1>6. ASSUME NEW t \in Open, NEW x \in {"done", "refused"}
      PROVE  At(tab'[t], o, x) <=> At(tab[t], o, x)
  BY <1>4 DEF At
<1>7. Alone(o)'
  <2>1. ASSUME NEW t \in Open, NEW u \in Open, o \in Left(tab'[t]), o \in Left(tab'[u])
        PROVE  t = u
    <3>1. ~ (Cardinality(Open) > 1)
      BY <1>1, <1>5, <2>1 DEF RunsStart
    <3>. QED
      BY <3>1, OneTab
  <2>. QED
    BY <1>3, <2>1 DEF Alone
<1>8. Waiting(o)'
  BY <1>3, <1>5 DEF Waiting
<1>9. Gone(o)'
  BY <1>2, <1>3 DEF Followed, Gone
<1>10. Underway(o)' /\ Answered(o)'
  BY <1>2, <1>3, <1>6 DEF Followed, Underway, Answered
<1>. QED
  BY <1>7, <1>8, <1>9, <1>10 DEF Followed

\* The first runs: one tab's, or blurred.
LEMMA QueueInit ==
  ASSUME Init, Types
  PROVE  QueueInv
<1>1. SUFFICES ASSUME NEW o \in Ops \ blurred
               PROVE  Followed(o)
  BY DEF QueueInv
<1>2. PICK open \in SUBSET Tabs \ {{}} :
        /\ tab = [t \in open |-> Loading("home")]
        /\ blurred = IF Cardinality(open) > 1 THEN queue ELSE {}
  BY DEF Init
<1>3. Open = open
  BY <1>2 DEF Open
<1>4. done[o] = IF o \in queue THEN 0 ELSE 1
  BY DEF Init
<1>5. \A t \in Open : tab[t].sync = Run
  BY <1>2, <1>3 DEF Loading
<1>6. \A t \in Open : /\ o \in Left(tab[t]) => o \in queue
                      /\ \A x \in {"done", "refused"} : ~At(tab[t], o, x)
  BY <1>5 DEF Left, At, Run
<1>7. Alone(o)
  <2>1. ASSUME NEW t \in Open, NEW u \in Open, o \in Left(tab[t])
        PROVE  t = u
    <3>1. ~ (Cardinality(Open) > 1)
      BY <1>1, <1>2, <1>3, <1>6, <2>1
    <3>. QED
      BY <3>1, OneTab
  <2>. QED
    BY <2>1 DEF Alone
<1>8. Waiting(o) /\ Answered(o)
  BY <1>6 DEF Waiting, Answered
<1>9. Gone(o) /\ Underway(o)
  BY <1>4 DEF Gone, Underway
<1>. QED
  BY <1>7, <1>8, <1>9 DEF Followed

\* ExactlyOnce for any tabs and operations: what the browser can follow leaves the queue
\* done or refused, and is done once, whatever is lost, turned away or loaded again
\* (syncPendingOperations and markSynced of useSyncManager.js, useOfflineStorage.js).
THEOREM OperationsAreDoneOnce == Spec => []ExactlyOnce
<1> DEFINE I == Types /\ SessionInv /\ QueueInv
<1>1. Init => I
  BY SessionInit, QueueInit
<1>2. I /\ [Next]_sessionVars => I'
  <2>1. SUFFICES ASSUME Types, SessionInv, QueueInv, [Next]_sessionVars
                 PROVE  Types' /\ SessionInv' /\ QueueInv'
    OBVIOUS
  <2>2. Types' /\ SessionInv'
    BY <2>1, StepKinds
  <2>3. \/ QuietRun \/ RunsStart
        \/ \E t \in Open : \/ RunAgain(t) \/ RunGoesOn(t)
                           \/ \E x \in {"done", "refused", "password", "session"} : RunTaken(t, x)
    BY <2>1, StepKinds
  <2>4. CASE QuietRun
    BY <2>1, <2>2, <2>4, QuietRunKeeps
  <2>5. CASE RunsStart
    BY <2>1, <2>2, <2>5, RunsStartKeeps
  <2>6. ASSUME NEW t \in Open, RunAgain(t)
        PROVE  QueueInv'
    BY <2>1, <2>2, <2>6, RunAgainKeeps
  <2>7. ASSUME NEW t \in Open, RunGoesOn(t)
        PROVE  QueueInv'
    BY <2>1, <2>2, <2>7, RunGoesOnKeeps
  <2>8. ASSUME NEW t \in Open, NEW x \in {"done", "refused", "password", "session"}, RunTaken(t, x)
        PROVE  QueueInv'
    BY <2>1, <2>2, <2>8, RunTakenKeeps
  <2>. QED
    BY <2>2, <2>3, <2>4, <2>5, <2>6, <2>7, <2>8
<1>3. I => ExactlyOnce
  BY DEF QueueInv, Followed, Gone, ExactlyOnce
<1>. QED
  BY <1>1, <1>2, <1>3, PTL DEF Spec

=============================================================================
