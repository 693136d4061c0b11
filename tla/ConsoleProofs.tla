----------------------------- MODULE ConsoleProofs -----------------------------
(***************************************************************************)
(* The promises of the console's desks, for any accounts, leads, records   *)
(* and any number of clicks.  A request is known by its number, so that an *)
(* answer is the answer to one request; each desk has an invariant of its  *)
(* own, and keeps it while its page is open.                               *)
(***************************************************************************)
EXTENDS AdminConsole, FiniteSetTheorems, SequenceTheorems, TLAPS

-----------------------------------------------------------------------------
(* Requests. *)

\* What a request is.
IsRequest(r) ==
  /\ r = [kind |-> r.kind, of |-> r.of, answer |-> r.answer, id |-> r.id]
  /\ r.id \in Nat

\* Requests under way, each with a number of its own.
Requests(R) ==
  /\ IsFiniteSet(R)
  /\ \A r \in R : IsRequest(r)
  /\ \A r, q \in R : r.id = q.id => r = q

\* S is what R becomes by answers that are taken in and requests, of the kinds
\* in K, that are sent.
Follows(R, S, K) == Requests(S) /\ \A q \in S \ R : q.answer = <<>> /\ q.kind \in K

\* An answer tells an answered request from one that waits.
LEMMA OneIsNotNone ==
  ASSUME NEW a
  PROVE  <<a>> # <<>>
  OBVIOUS

\* A request with an answer differs in the answer alone.
LEMMA AnswerOf ==
  ASSUME NEW r, IsRequest(r), NEW x
  PROVE  LET q == [r EXCEPT !.answer = x]
         IN  q.kind = r.kind /\ q.of = r.of /\ q.answer = x /\ q.id = r.id /\ IsRequest(q)
  BY DEF IsRequest

\* Among as many numbers as there are requests and one, there is a free one.
LEMMA FreeNumber ==
  ASSUME NEW R, Requests(R)
  PROVE  \E i \in 0 .. Cardinality(R) : \A r \in R : r.id # i
<1> DEFINE n == Cardinality(R)
           ids == {r.id : r \in R}
           f == [r \in R |-> r.id]
<1>1. IsFiniteSet(R) /\ n \in Nat
  BY FS_CardinalityType DEF Requests
<1>2. f \in Surjection(R, ids)
  BY DEF Surjection
<1>3. IsFiniteSet(ids) /\ Cardinality(ids) <= n
  BY <1>1, <1>2, FS_Surjection
<1>4. IsFiniteSet(0 .. n) /\ Cardinality(0 .. n) = n + 1
  <2>1. IsFiniteSet(0 .. n) /\ Cardinality(0 .. n) = IF 0 > n THEN 0 ELSE n - 0 + 1
    BY <1>1, FS_Interval
  <2>. QED
    BY <1>1, <2>1
<1>5. ~(0 .. n \subseteq ids)
  <2>. SUFFICES ASSUME 0 .. n \subseteq ids PROVE FALSE
    OBVIOUS
  <2>1. Cardinality(0 .. n) <= Cardinality(ids)
    BY <1>3, FS_Subset
  <2>2. Cardinality(ids) \in Nat
    BY <1>3, FS_CardinalityType
  <2>. QED
    BY <1>1, <1>3, <1>4, <2>1, <2>2
<1>. QED
  BY <1>5

\* The request that is sent, with a number that is free.
NewRequest(R, kind, of) ==
  [kind |-> kind, of |-> of, answer |-> <<>>,
   id |-> CHOOSE i \in 0 .. Cardinality(R) : \A r \in R : r.id # i]

\* A request that is sent is told from all of those under way.
LEMMA AskAdds ==
  ASSUME NEW R, Requests(R), NEW kind, NEW of
  PROVE  /\ Ask(R, kind, of) = R \cup {NewRequest(R, kind, of)}
         /\ Requests(Ask(R, kind, of))
         /\ NewRequest(R, kind, of).kind = kind /\ NewRequest(R, kind, of).of = of
         /\ NewRequest(R, kind, of).answer = <<>>
<1> DEFINE i == CHOOSE i \in 0 .. Cardinality(R) : \A r \in R : r.id # i
           q == [kind |-> kind, of |-> of, answer |-> <<>>, id |-> i]
<1>1. i \in 0 .. Cardinality(R) /\ \A r \in R : r.id # i
  BY FreeNumber
<1>2. NewRequest(R, kind, of) = q /\ Ask(R, kind, of) = R \cup {q}
  BY DEF Ask, NewRequest
<1>3. i \in Nat
  BY <1>1, FS_CardinalityType DEF Requests
<1> HIDE DEF i
<1>4. IsRequest(q) /\ q.id = i
  BY <1>3 DEF IsRequest
<1>5. IsFiniteSet(R \cup {q})
  BY FS_AddElement DEF Requests
<1>6. q.kind = kind /\ q.of = of /\ q.answer = <<>>
  OBVIOUS
<1> HIDE DEF q
<1>7. Requests(R \cup {q})
  BY <1>1, <1>4, <1>5 DEF Requests
<1>. QED
  BY <1>2, <1>6, <1>7

\* The requests that are left.
LEMMA FewerRequests ==
  ASSUME NEW R, Requests(R), NEW S \in SUBSET R
  PROVE  Requests(S)
  BY FS_Subset DEF Requests

\* Sending, taking in, and the one after the other.
LEMMA FollowsFacts ==
  ASSUME NEW R, Requests(R), NEW K
  PROVE  /\ Follows(R, R, K)
         /\ \A r : Follows(R, R \ {r}, K)
         /\ \A kind \in K : \A of : Follows(R, Ask(R, kind, of), K)
         /\ \A r : \A kind \in K : \A of : Follows(R, Ask(R \ {r}, kind, of), K)
<1>1. ASSUME NEW r PROVE Requests(R \ {r})
  BY FewerRequests
<1>2. ASSUME NEW S \in SUBSET R, NEW kind \in K, NEW of
      PROVE  Follows(R, Ask(S, kind, of), K)
  <2>1. Requests(S)
    BY FewerRequests
  <2>2. /\ Ask(S, kind, of) = S \cup {NewRequest(S, kind, of)} /\ Requests(Ask(S, kind, of))
        /\ NewRequest(S, kind, of).kind = kind /\ NewRequest(S, kind, of).answer = <<>>
    BY <2>1, AskAdds
  <2>. QED
    BY <2>2 DEF Follows
<1>. QED
  BY <1>1, <1>2 DEF Follows

\* What follows from what follows.
LEMMA FollowsOn ==
  ASSUME NEW R, NEW S, NEW T, NEW K, Follows(R, S, K), Follows(S, T, K)
  PROVE  Follows(R, T, K)
  BY DEF Follows

\* A request with its answer.
WithAnswer(r, a) == [r EXCEPT !.answer = <<a>>]

\* The service's answer to one of the requests.
LEMMA AnsweredStep ==
  ASSUME Requests(view.reqs), "reqs" \in DOMAIN view, NEW r, NEW a, Answered(r, a)
  PROVE  /\ r \in view.reqs /\ r.answer = <<>> /\ UNCHANGED <<page, clicks, elsewhere>>
         /\ view' = [view EXCEPT !.reqs = (view.reqs \ {r}) \cup {WithAnswer(r, a)}]
         /\ view'.reqs = (view.reqs \ {r}) \cup {WithAnswer(r, a)} /\ DOMAIN view' = DOMAIN view
         /\ Requests(view'.reqs)
         /\ WithAnswer(r, a).kind = r.kind /\ WithAnswer(r, a).of = r.of
         /\ WithAnswer(r, a).answer = <<a>> /\ WithAnswer(r, a).id = r.id
         /\ WithAnswer(r, a) \notin view.reqs
<1> DEFINE q == WithAnswer(r, a)
<1>1. /\ r \in view.reqs /\ r.answer = <<>> /\ UNCHANGED <<page, clicks, elsewhere>>
      /\ view' = [view EXCEPT !.reqs = (view.reqs \ {r}) \cup {q}]
  BY DEF Answered, Served, WithAnswer
<1>2. IsRequest(r)
  BY <1>1 DEF Requests
<1>3. q.kind = r.kind /\ q.of = r.of /\ q.answer = <<a>> /\ q.id = r.id /\ IsRequest(q)
  BY <1>2, AnswerOf DEF WithAnswer
<1> HIDE DEF q
<1>4. view'.reqs = (view.reqs \ {r}) \cup {q} /\ DOMAIN view' = DOMAIN view
  BY <1>1
<1>5. q \notin view.reqs
  BY <1>1, <1>3, OneIsNotNone DEF Requests
<1>6. IsFiniteSet(view'.reqs)
  <2>1. IsFiniteSet(view.reqs \ {r})
    BY FS_Subset DEF Requests
  <2>. QED
    BY <1>4, <2>1, FS_AddElement
<1>7. Requests(view'.reqs)
  BY <1>1, <1>3, <1>4, <1>6 DEF Requests
<1>. QED
  BY <1>1, <1>3, <1>4, <1>5, <1>7 DEF q

\* A request that waits is answered by no step but its own.
LEMMA OwnAnswer ==
  ASSUME NEW R, Requests(R), NEW S, NEW K, Follows(R, S, K), NEW r \in R, NEW x,
         WithAnswer(r, x) \in S
  PROVE  r = WithAnswer(r, x) /\ r.answer # <<>>
<1> DEFINE q == WithAnswer(r, x)
<1>1. q.answer = <<x>> /\ q.id = r.id
  BY AnswerOf DEF Requests, WithAnswer
<1> HIDE DEF q
<1>2. q \in R
  BY <1>1, OneIsNotNone DEF Follows, q
<1>. QED
  BY <1>1, <1>2, OneIsNotNone DEF Requests, q

\* The request that an answer is put on is the one that was answered.
LEMMA AnswersOne ==
  ASSUME Requests(view.reqs), "reqs" \in DOMAIN view, NEW r \in view.reqs, r.answer = <<>>,
         NEW x, WithAnswer(r, x) \in view'.reqs, NEW p, NEW a, Answered(p, a)
  PROVE  p = r /\ a = x
<1> DEFINE q == WithAnswer(r, x)
<1>1. q.answer = <<x>> /\ q.id = r.id
  BY AnswerOf DEF Requests, WithAnswer
<1> HIDE DEF q
<1>2. /\ p \in view.reqs /\ view'.reqs = (view.reqs \ {p}) \cup {WithAnswer(p, a)}
      /\ WithAnswer(p, a).answer = <<a>> /\ WithAnswer(p, a).id = p.id
  BY AnsweredStep
<1>3. q \notin view.reqs
  BY <1>1, OneIsNotNone DEF Requests
<1>4. q = WithAnswer(p, a)
  BY <1>2, <1>3 DEF q
<1>5. p.id = r.id /\ <<a>> = <<x>>
  BY <1>1, <1>2, <1>4
<1>. QED
  BY <1>2, <1>5 DEF Requests

-----------------------------------------------------------------------------
(* The visits: the first record stands. *)

\* What is relied on of the visits as the service has them.
VisitsHeld == page = "visits" => DOMAIN world = {"visit", "record", "booked"}

\* The steps of the visits' desk that change what the service holds.
LEMMA VisitsMoves ==
  ASSUME VisitsNext
  PROVE  /\ page' = page
         /\ \/ world' = world
            \/ \E r \in view.reqs : VisitTaken(r) \/ ScheduleTaken(r) \/ EnrollTaken(r)
            \/ \E v \in Visits : OthersFinish(v)
            \/ OthersRecord
<1>1. ASSUME \/ \E f \in {"all", "open", "done"} : FilterVisits(f)
             \/ \E v \in Visits : \/ \E s \in VisitStatuses(view.kind), t \in VisitResults : UpdateResultForm(v, s, t)
                                 \/ UpdateEnrollmentForm(v) \/ SaveVisit(v) \/ ScheduleCampusVisit(v)
                                 \/ CreateEnrollment(v)
             \/ RefreshVisits
      PROVE  page' = page /\ world' = world
  BY <1>1 DEF FilterVisits, UpdateResultForm, UpdateEnrollmentForm, SaveVisit, ScheduleCampusVisit,
         CreateEnrollment, StartVisit, RefreshVisits, Click
<1>2. ASSUME NEW r \in view.reqs, VisitsTaken(r) \/ VisitsCome(r) \/ VisitsFail(r) \/ VisitSaved(r) \/ VisitRefused(r)
      PROVE  page' = page /\ world' = world
  BY <1>2 DEF VisitsTaken, VisitsCome, VisitsFail, VisitSaved, VisitRefused, Answered, Served, Came,
         Failed, Told
<1>3. ASSUME \/ \E r \in view.reqs : VisitTaken(r) \/ ScheduleTaken(r) \/ EnrollTaken(r)
             \/ \E v \in Visits : OthersFinish(v)
             \/ OthersRecord
      PROVE  page' = page
  BY <1>3 DEF VisitTaken, ScheduleTaken, EnrollTaken, OthersFinish, OthersRecord, Answered, Served,
         Elsewhere
<1>. QED
  BY <1>1, <1>2, <1>3 DEF VisitsNext

\* A step of the visits' desk keeps the record there is.
LEMMA VisitsStep ==
  ASSUME VisitsHeld, page = "visits", VisitsNext
  PROVE  VisitsHeld' /\ (world.record # None => world'.record = world.record)
<1> DEFINE Fields == {"visit", "record", "booked"}
<1>1. DOMAIN world = Fields /\ page' = page
  BY VisitsMoves DEF VisitsHeld
<1>2. SUFFICES DOMAIN world' = Fields /\ (world.record # None => world'.record = world.record)
  BY DEF VisitsHeld
<1>3. CASE world' = world
  BY <1>1, <1>3
<1>4. ASSUME NEW r \in view.reqs, VisitTaken(r)
      PROVE  DOMAIN world' = Fields /\ (world.record # None => world'.record = world.record)
  <2> DEFINE put == [world EXCEPT !.visit[r.of.visit] =
                       [status |-> r.of.status, result |-> IF r.of.result = "none" THEN @.result ELSE r.of.result]]
  <2>1. world' = put \/ world' = Recorded(put, r.of.visit)
    BY <1>4 DEF VisitTaken, VisitPut
  <2>2. DOMAIN put = Fields /\ put.record = world.record
    BY <1>1
  <2> HIDE DEF put
  <2>. QED
    BY <2>1, <2>2 DEF Recorded
<1>5. ASSUME NEW r \in view.reqs, ScheduleTaken(r) \/ EnrollTaken(r)
      PROVE  DOMAIN world' = Fields /\ (world.record # None => world'.record = world.record)
  BY <1>1, <1>5 DEF ScheduleTaken, EnrollTaken
<1>6. ASSUME \/ \E v \in Visits : OthersFinish(v)
             \/ OthersRecord
      PROVE  DOMAIN world' = Fields /\ (world.record # None => world'.record = world.record)
  BY <1>1, <1>6 DEF OthersFinish, OthersRecord
<1>. QED
  BY <1>3, <1>4, <1>5, <1>6, VisitsMoves

-----------------------------------------------------------------------------
(* The settlements: what a settled record was paid stays. *)

\* A record of an enrollment, whatever it says, and the students who have one.
IsBill(b) == DOMAIN b = {"status", "paid", "agent"}
\* Records that have a bill.
Billed == {s \in Enrolling : IsBill(world.record[s])}

\* What is relied on of the records as the service has them.
BillsWorld ==
  /\ DOMAIN world = {"record", "report"} /\ DOMAIN world.record = Enrolling
  /\ \A s \in Enrolling : world.record[s] # None => IsBill(world.record[s])

\* The page shows records there are, is told of no others, and saves no others.
BillsView ==
  /\ {"reqs", "rows"} \subseteq DOMAIN view /\ Requests(view.reqs)
  /\ DOMAIN view.rows \subseteq Billed
  /\ \A r \in view.reqs :
       /\ r.kind = "save" => r.of.of \in Billed
       /\ r.kind = "records" /\ r.answer # <<>> => DOMAIN r.answer[1] \subseteq Billed

\* The invariant of the desk.
BillsHeld == page = "settlement" => BillsWorld /\ BillsView

\* The requests of the desk that save nothing.
BillKinds == {"records", "reports", "file", "confirm", "reject"}

\* The steps of the settlements' desk that change what the service holds.
LEMMA BillsMoves ==
  ASSUME SettlementNext
  PROVE  /\ page' = page
         /\ \/ world' = world
            \/ \E r \in view.reqs : BillTaken(r) \/ ConfirmTaken(r) \/ RejectTaken(r)
            \/ \E s \in Enrolling : OthersReport(s) \/ OthersSettle(s) \/ \E a \in Sellers : OthersRegister(s, a)
<1>1. ASSUME \/ \E f \in {"all", "settled", "unsettled"} : FilterBills(f)
             \/ \E s \in Enrolling :
                  \/ SaveSettlement(s) \/ StartConfirm(s) \/ StartReject(s)
                  \/ \E to \in {"settled", "unsettled"} : TypeStatus(s, to)
                  \/ \E sum \in Paid : TypePaid(s, sum)
                  \/ \E a \in Sellers : ApplyRecommendation(s, a)
             \/ RefreshBills \/ GenerateSettlementBatch \/ CloseConfirm \/ SubmitConfirm \/ CancelReject \/ SubmitReject
      PROVE  page' = page /\ world' = world
  BY <1>1 DEF FilterBills, SaveSettlement, StartConfirm, StartReject, TypeStatus, TypePaid,
         ApplyRecommendation, RefreshBills, GenerateSettlementBatch, CloseConfirm, SubmitConfirm,
         CancelReject, SubmitReject, Click
<1>2. ASSUME NEW r \in view.reqs,
             \/ RecordsTaken(r) \/ RecordsShown(r) \/ RecordsFail(r) \/ BillSaved(r) \/ BillRefused(r)
             \/ FileDone(r) \/ ConfirmDone(r) \/ RejectDone(r) \/ AnswerLost(r)
             \/ ReportsTaken(r) \/ ReportsShown(r) \/ ReportsFail(r)
      PROVE  page' = page /\ world' = world
  BY <1>2 DEF RecordsTaken, RecordsShown, RecordsFail, BillSaved, BillRefused, FileDone, ConfirmDone,
         RejectDone, AnswerLost, ReportsTaken, ReportsShown, ReportsFail, Answered, Served, Came,
         Failed, Told
<1>3. ASSUME \/ \E r \in view.reqs : BillTaken(r) \/ ConfirmTaken(r) \/ RejectTaken(r)
             \/ \E s \in Enrolling : OthersReport(s) \/ OthersSettle(s) \/ \E a \in Sellers : OthersRegister(s, a)
      PROVE  page' = page
  BY <1>3 DEF BillTaken, ConfirmTaken, RejectTaken, OthersReport, OthersSettle, OthersRegister,
         Answered, Served, Elsewhere
<1>. QED
  BY <1>1, <1>2, <1>3 DEF SettlementNext

\* Saving a settled record leaves what it was paid.
LEMMA SettleKeeps ==
  ASSUME NEW rec, IsBill(rec), NEW q
  PROVE  /\ IsBill(Settle(rec, q))
         /\ q.paid = None /\ rec.paid # "nothing" => Settle(rec, q).paid = rec.paid
<1> DEFINE given == IF q.paid = None THEN rec ELSE [rec EXCEPT !.paid = q.paid]
           placed == IF q.agent = None THEN given ELSE [given EXCEPT !.agent = q.agent]
           put == [placed EXCEPT !.status = q.status]
<1>1. IsBill(given) /\ (q.paid = None => given.paid = rec.paid)
  BY DEF IsBill
<1> HIDE DEF given
<1>2. IsBill(placed) /\ (q.paid = None => placed.paid = rec.paid)
  BY <1>1 DEF IsBill
<1> HIDE DEF placed
<1>3. IsBill(put) /\ (q.paid = None => put.paid = rec.paid)
  BY <1>2 DEF IsBill
<1>4. Settle(rec, q) = IF q.status = "settled" /\ q.paid = None /\ put.paid = "nothing"
                       THEN [put EXCEPT !.paid = "due"] ELSE put
  BY DEF Settle, given, placed
<1> HIDE DEF put
<1>. QED
  BY <1>3, <1>4 DEF IsBill

\* What a step may do to the records: those there are stay, and a settled one
\* keeps what it was paid.
BillsKept ==
  /\ Billed \subseteq Billed'
  /\ \A s \in Enrolling :
       LET now == world.record[s]
           then == world'.record[s]
       IN  now # None /\ now.status = "settled" /\ then.status = "settled" /\ now.paid # "nothing"
             => then.paid = now.paid

\* A step that leaves the records alone.
LEMMA SameBills ==
  ASSUME BillsWorld, world' = world
  PROVE  BillsWorld' /\ BillsKept
  BY DEF BillsWorld, BillsKept, Billed

\* One record that changes, and the others as they were.
LEMMA OneBill ==
  ASSUME BillsWorld, NEW s \in Enrolling, NEW b, IsBill(b),
         DOMAIN world' = DOMAIN world, world'.record = [world.record EXCEPT ![s] = b],
         world.record[s] # None /\ world.record[s].status = "settled" /\ world.record[s].paid # "nothing"
           => b.paid = world.record[s].paid
  PROVE  BillsWorld' /\ BillsKept
  BY DEF BillsWorld, BillsKept, Billed

\* The service's step of saving a bill.
LEMMA BillStep ==
  ASSUME BillsWorld, BillsView, NEW r \in view.reqs, BillTaken(r)
  PROVE  BillsWorld' /\ BillsKept
<1> DEFINE s == r.of.of
           rec == world.record[s]
<1>1. CASE world' = world
  BY <1>1, SameBills
<1>2. CASE /\ ~(r.of.paid # None /\ ~(AmountsOpen(rec) /\ r.of.reason))
           /\ world' = [world EXCEPT !.record[s] = Settle(rec, r.of)]
  <2>1. DOMAIN world' = DOMAIN world /\ world'.record = [world.record EXCEPT ![s] = Settle(rec, r.of)]
    BY <1>2 DEF BillsWorld
  <2>2. s \in Enrolling /\ IsBill(rec)
    BY DEF BillsView, Billed, BillTaken
  <2>3. rec.status = "settled" => r.of.paid = None
    BY <1>2 DEF AmountsOpen
  <2>4. /\ IsBill(Settle(rec, r.of))
        /\ r.of.paid = None /\ rec.paid # "nothing" => Settle(rec, r.of).paid = rec.paid
    BY <2>2, SettleKeeps
  <2>. QED
    BY <2>1, <2>2, <2>3, <2>4, OneBill
<1>. QED
  BY <1>1, <1>2 DEF BillTaken

\* A record is made where there is none, and settled by others while it is open.
LEMMA BillsElsewhere ==
  ASSUME BillsWorld,
         \/ \E r \in view.reqs : ConfirmTaken(r) \/ RejectTaken(r)
         \/ \E s \in Enrolling : OthersReport(s) \/ OthersSettle(s) \/ \E a \in Sellers : OthersRegister(s, a)
  PROVE  BillsWorld' /\ BillsKept
<1>1. ASSUME NEW s, NEW a, world' = Enrolled(world, s, a), ~HasRecord(world, s)
      PROVE  BillsWorld' /\ BillsKept
  <2>1. DOMAIN world' = DOMAIN world /\ world'.record = [world.record EXCEPT ![s] = Fresh(a)]
    BY <1>1 DEF Enrolled, BillsWorld
  <2>2. IsBill(Fresh(a)) /\ world.record[s] = None
    BY <1>1 DEF IsBill, Fresh, HasRecord
  <2>3. CASE s \in Enrolling
    BY <2>1, <2>2, <2>3, OneBill
  <2>4. CASE s \notin Enrolling
    BY <2>1, <2>4 DEF BillsWorld, BillsKept, Billed
  <2>. QED
    BY <2>3, <2>4
<1>2. ASSUME NEW s \in Enrolling, OthersSettle(s)
      PROVE  BillsWorld' /\ BillsKept
  <2> DEFINE b == [world.record[s] EXCEPT !.status = "settled", !.paid = IF @ = "nothing" THEN "due" ELSE @]
  <2>1. /\ HasRecord(world, s) /\ AmountsOpen(world.record[s])
        /\ world' = [world EXCEPT !.record[s].status = "settled",
                                  !.record[s].paid = IF @ = "nothing" THEN "due" ELSE @]
    BY <1>2 DEF OthersSettle
  <2>2. IsBill(world.record[s]) /\ world.record[s].status # "settled"
    BY <2>1 DEF HasRecord, AmountsOpen, BillsWorld
  <2>3. IsBill(b)
    BY <2>2 DEF IsBill
  <2>4. DOMAIN world' = DOMAIN world /\ world'.record = [world.record EXCEPT ![s] = b]
    BY <2>1 DEF BillsWorld
  <2> HIDE DEF b
  <2>. QED
    BY <2>2, <2>3, <2>4, OneBill
<1>3. ASSUME DOMAIN world' = DOMAIN world, world'.record = world.record
      PROVE  BillsWorld' /\ BillsKept
  BY <1>3 DEF BillsWorld, BillsKept, Billed
<1>4. ASSUME NEW r \in view.reqs, ConfirmTaken(r) \/ RejectTaken(r)
      PROVE  BillsWorld' /\ BillsKept
  <2>1. \/ world' = world
        \/ world' = [world EXCEPT !.report[r.of] = "rejected"]
        \/ ~HasRecord(world, r.of) /\ \E a \in Sellers : world' = Enrolled(world, r.of, a)
    BY <1>4 DEF ConfirmTaken, RejectTaken
  <2>. QED
    BY <1>1, <1>3, <2>1, SameBills DEF BillsWorld
<1>5. ASSUME NEW s \in Enrolling, OthersReport(s) \/ \E a \in Sellers : OthersRegister(s, a)
      PROVE  BillsWorld' /\ BillsKept
  <2>1. \/ world' = [world EXCEPT !.report[s] = "pending"]
        \/ ~HasRecord(world, s) /\ \E a \in Sellers : world' = Enrolled(world, s, a)
    BY <1>5 DEF OthersReport, OthersRegister
  <2>. QED
    BY <1>1, <1>3, <2>1 DEF BillsWorld
<1>. QED
  BY <1>2, <1>4, <1>5

\* A step of the page: requests that save nothing are sent or done with.
LEMMA BillsPage ==
  ASSUME BillsView, Billed \subseteq Billed', {"reqs", "rows"} \subseteq DOMAIN view',
         DOMAIN view'.rows \subseteq Billed', Follows(view.reqs, view'.reqs, BillKinds)
  PROVE  BillsView'
<1>1. ASSUME NEW r \in view'.reqs
      PROVE  /\ r.kind = "save" => r.of.of \in Billed'
             /\ r.kind = "records" /\ r.answer # <<>> => DOMAIN r.answer[1] \subseteq Billed'
  <2>1. CASE r \in view.reqs
    BY <2>1 DEF BillsView
  <2>2. CASE r \notin view.reqs
    BY <2>2 DEF Follows, BillKinds
  <2>. QED
    BY <2>1, <2>2
<1>. QED
  BY <1>1 DEF BillsView, Follows

\* An answer of the service to the desk.
LEMMA BillsAnswered ==
  ASSUME BillsView, Billed \subseteq Billed', NEW r, NEW a, Answered(r, a),
         r.kind = "records" => DOMAIN a \subseteq Billed'
  PROVE  BillsView'
<1> DEFINE q == WithAnswer(r, a)
<1>1. /\ r \in view.reqs /\ view' = [view EXCEPT !.reqs = (view.reqs \ {r}) \cup {q}]
      /\ view'.reqs = (view.reqs \ {r}) \cup {q} /\ DOMAIN view' = DOMAIN view
      /\ Requests(view'.reqs) /\ q.kind = r.kind /\ q.of = r.of /\ q.answer = <<a>>
  <2>1. Requests(view.reqs) /\ "reqs" \in DOMAIN view
    BY DEF BillsView
  <2>. QED
    BY <2>1, AnsweredStep
<1> HIDE DEF q
<1>2. view'.rows = view.rows
  BY <1>1 DEF BillsView
<1>3. q.answer[1] = a
  BY <1>1
<1>. QED
  BY <1>1, <1>2, <1>3 DEF BillsView

\* The steps of the page keep the invariant of its desk.
LEMMA BillsPageStep ==
  ASSUME BillsView, BillsWorld, world' = world,
         \/ \E f \in {"all", "settled", "unsettled"} : FilterBills(f)
         \/ \E s \in Enrolling :
              \/ SaveSettlement(s) \/ StartConfirm(s) \/ StartReject(s)
              \/ \E to \in {"settled", "unsettled"} : TypeStatus(s, to)
              \/ \E sum \in Paid : TypePaid(s, sum)
              \/ \E a \in Sellers : ApplyRecommendation(s, a)
         \/ RefreshBills \/ GenerateSettlementBatch \/ CloseConfirm \/ SubmitConfirm \/ CancelReject \/ SubmitReject
  PROVE  BillsView'
<1>1. Billed' = Billed
  BY DEF Billed
<1>2. ASSUME view'.reqs = view.reqs \/ \E kind \in BillKinds : \E of : view'.reqs = Ask(view.reqs, kind, of),
             view'.rows = view.rows, DOMAIN view' = DOMAIN view
      PROVE  BillsView'
  <2>1. Follows(view.reqs, view'.reqs, BillKinds)
    BY <1>2, FollowsFacts DEF BillsView
  <2>. QED
    BY <1>1, <1>2, <2>1, BillsPage DEF BillsView
<1>3. ASSUME \/ \E f \in {"all", "settled", "unsettled"} : FilterBills(f)
             \/ \E s \in Enrolling :
                  \/ StartConfirm(s) \/ StartReject(s)
                  \/ \E to \in {"settled", "unsettled"} : TypeStatus(s, to)
                  \/ \E sum \in Paid : TypePaid(s, sum)
                  \/ \E a \in Sellers : ApplyRecommendation(s, a)
             \/ CloseConfirm \/ CancelReject
      PROVE  BillsView'
  <2>1. view'.reqs = view.reqs /\ view'.rows = view.rows /\ DOMAIN view' = DOMAIN view
    BY <1>3 DEF FilterBills, StartConfirm, StartReject, TypeStatus, TypePaid, ApplyRecommendation,
           Typed, CloseConfirm, CancelReject, BillsView
  <2>. QED
    BY <1>2, <2>1
<1>4. ASSUME RefreshBills \/ GenerateSettlementBatch \/ SubmitConfirm \/ SubmitReject
      PROVE  BillsView'
  <2>1. /\ \E kind \in BillKinds : \E of : view'.reqs = Ask(view.reqs, kind, of)
        /\ view'.rows = view.rows /\ DOMAIN view' = DOMAIN view
    BY <1>4 DEF RefreshBills, GenerateSettlementBatch, SubmitConfirm, SubmitReject, Load, SendBill,
           BillKinds, BillsView
  <2>. QED
    BY <1>2, <2>1
<1>5. ASSUME NEW s \in Enrolling, SaveSettlement(s)
      PROVE  BillsView'
  <2>1. PICK of : /\ view' = SendBill([view EXCEPT !.saving = s], "save", of)
                  /\ of.of = s /\ s \in RowsShown
    BY <1>5 DEF SaveSettlement
  <2>2. view'.reqs = Ask(view.reqs, "save", of) /\ view'.rows = view.rows /\ DOMAIN view' = DOMAIN view
    BY <2>1 DEF SendBill, BillsView
  <2> DEFINE q == NewRequest(view.reqs, "save", of)
  <2>3. /\ Ask(view.reqs, "save", of) = view.reqs \cup {q} /\ Requests(Ask(view.reqs, "save", of))
        /\ q.kind = "save" /\ q.of = of /\ q.answer = <<>>
    BY AskAdds DEF BillsView
  <2> HIDE DEF q
  <2>4. s \in Billed
    BY <2>1 DEF RowsShown, BillsView
  <2>. QED
    BY <1>1, <2>1, <2>2, <2>3, <2>4 DEF BillsView
<1>. QED
  BY <1>3, <1>4, <1>5

\* The answers that come, and those that do not.
LEMMA BillsToldStep ==
  ASSUME BillsView, world' = world, NEW r \in view.reqs,
         \/ RecordsShown(r) \/ RecordsFail(r) \/ BillSaved(r) \/ BillRefused(r)
         \/ FileDone(r) \/ ConfirmDone(r) \/ RejectDone(r) \/ AnswerLost(r)
         \/ ReportsShown(r) \/ ReportsFail(r)
  PROVE  BillsView'
<1>1. Billed' = Billed
  BY DEF Billed
<1>2. ASSUME \/ view'.reqs = view.reqs \ {r}
             \/ \E kind \in BillKinds : \E of : view'.reqs = Ask(view.reqs \ {r}, kind, of),
             DOMAIN view'.rows \subseteq Billed, DOMAIN view' = DOMAIN view
      PROVE  BillsView'
  <2>1. Follows(view.reqs, view'.reqs, BillKinds)
    BY <1>2, FollowsFacts DEF BillsView
  <2>. QED
    BY <1>1, <1>2, <2>1, BillsPage DEF BillsView
<1>3. ASSUME RecordsFail(r) \/ BillRefused(r) \/ FileDone(r) \/ AnswerLost(r)
      PROVE  BillsView'
  <2>1. view'.reqs = view.reqs \ {r} /\ view'.rows = view.rows /\ DOMAIN view' = DOMAIN view
    BY <1>3 DEF RecordsFail, BillRefused, FileDone, AnswerLost, Saved, Without, BillsView
  <2>. QED
    BY <1>2, <2>1 DEF BillsView
<1>4. CASE RecordsShown(r)
  <2>1. view'.reqs = view.reqs \ {r} /\ view'.rows = r.answer[1] /\ DOMAIN view' = DOMAIN view
    BY <1>4 DEF RecordsShown, Saved, Without, BillsView
  <2>2. DOMAIN r.answer[1] \subseteq Billed
    BY <1>4 DEF RecordsShown, Came, BillsView
  <2>. QED
    BY <1>2, <2>1, <2>2
<1>5. ASSUME BillSaved(r) \/ ConfirmDone(r) \/ RejectDone(r)
      PROVE  BillsView'
  <2>1. /\ \E kind \in BillKinds : \E of : view'.reqs = Ask(view.reqs \ {r}, kind, of)
        /\ view'.rows = view.rows /\ DOMAIN view' = DOMAIN view
    BY <1>5 DEF BillSaved, ConfirmDone, RejectDone, LoadReports, Load, SendBill, Without, BillKinds,
           BillsView
  <2>. QED
    BY <1>2, <2>1 DEF BillsView
<1>6. ASSUME ReportsShown(r) \/ ReportsFail(r)
      PROVE  BillsView'
  <2>1. /\ \/ view'.reqs = view.reqs \ {r}
           \/ \E kind \in BillKinds : \E of : view'.reqs = Ask(view.reqs \ {r}, kind, of)
        /\ view'.rows = view.rows /\ DOMAIN view' = DOMAIN view
    BY <1>6 DEF ReportsShown, ReportsFail, Followed, Load, SendBill, Without, BillKinds, BillsView
  <2>. QED
    BY <1>2, <2>1 DEF BillsView
<1>. QED
  BY <1>3, <1>4, <1>5, <1>6

\* A step of the desk keeps its invariant, and what settled records were paid.
LEMMA BillsStep ==
  ASSUME BillsHeld, page = "settlement", SettlementNext
  PROVE  BillsHeld' /\ BillsKept
<1>1. BillsWorld /\ BillsView /\ page' = page
  BY BillsMoves DEF BillsHeld
<1>. SUFFICES BillsWorld' /\ BillsView' /\ BillsKept
  BY DEF BillsHeld
<1>2. ASSUME \/ \E f \in {"all", "settled", "unsettled"} : FilterBills(f)
             \/ \E s \in Enrolling :
                  \/ SaveSettlement(s) \/ StartConfirm(s) \/ StartReject(s)
                  \/ \E to \in {"settled", "unsettled"} : TypeStatus(s, to)
                  \/ \E sum \in Paid : TypePaid(s, sum)
                  \/ \E a \in Sellers : ApplyRecommendation(s, a)
             \/ RefreshBills \/ GenerateSettlementBatch \/ CloseConfirm \/ SubmitConfirm \/ CancelReject \/ SubmitReject
      PROVE  BillsWorld' /\ BillsView' /\ BillsKept
  <2>1. world' = world
    BY <1>2 DEF FilterBills, SaveSettlement, StartConfirm, StartReject, TypeStatus, TypePaid,
           ApplyRecommendation, RefreshBills, GenerateSettlementBatch, CloseConfirm, SubmitConfirm,
           CancelReject, SubmitReject, Click
  <2>. QED
    BY <1>1, <1>2, <2>1, BillsPageStep, SameBills
<1>3. ASSUME NEW r \in view.reqs,
             \/ RecordsShown(r) \/ RecordsFail(r) \/ BillSaved(r) \/ BillRefused(r)
             \/ FileDone(r) \/ ConfirmDone(r) \/ RejectDone(r) \/ AnswerLost(r)
             \/ ReportsShown(r) \/ ReportsFail(r)
      PROVE  BillsWorld' /\ BillsView' /\ BillsKept
  <2>1. world' = world
    BY <1>3 DEF RecordsShown, RecordsFail, BillSaved, BillRefused, FileDone, ConfirmDone, RejectDone,
           AnswerLost, ReportsShown, ReportsFail, Came, Failed, Told
  <2>. QED
    BY <1>1, <1>3, <2>1, BillsToldStep, SameBills
<1>4. ASSUME NEW r \in view.reqs, RecordsTaken(r) \/ ReportsTaken(r)
      PROVE  BillsWorld' /\ BillsView' /\ BillsKept
  <2>1. world' = world
    BY <1>4 DEF RecordsTaken, ReportsTaken
  <2>2. BillsWorld' /\ BillsKept
    BY <1>1, <2>1, SameBills
  <2>3. DOMAIN Records(world) \subseteq Billed'
    BY <1>1, <2>2 DEF Records, HasRecord, BillsWorld, BillsKept, Billed
  <2>4. \/ r.kind = "records" /\ Answered(r, Records(world))
        \/ r.kind = "reports" /\ Answered(r, PendingReports(world))
    BY <1>4 DEF RecordsTaken, ReportsTaken
  <2>. QED
    BY <1>1, <2>2, <2>3, <2>4, BillsAnswered DEF BillsKept
<1>5. ASSUME NEW r \in view.reqs, BillTaken(r) \/ ConfirmTaken(r) \/ RejectTaken(r)
      PROVE  BillsWorld' /\ BillsView' /\ BillsKept
  <2>1. BillsWorld' /\ BillsKept
    BY <1>1, <1>5, BillStep, BillsElsewhere
  <2>2. r.kind # "records" /\ \E a : Answered(r, a)
    BY <1>5 DEF BillTaken, ConfirmTaken, RejectTaken
  <2>. QED
    BY <1>1, <2>1, <2>2, BillsAnswered DEF BillsKept
<1>6. ASSUME \E s \in Enrolling : OthersReport(s) \/ OthersSettle(s) \/ \E a \in Sellers : OthersRegister(s, a)
      PROVE  BillsWorld' /\ BillsView' /\ BillsKept
  <2>1. BillsWorld' /\ BillsKept
    BY <1>1, <1>6, BillsElsewhere
  <2>2. view' = view
    BY <1>6 DEF OthersReport, OthersSettle, OthersRegister
  <2>3. Follows(view.reqs, view'.reqs, BillKinds)
    BY <1>1, <2>2, FollowsFacts DEF BillsView
  <2>. QED
    BY <1>1, <2>1, <2>2, <2>3, BillsPage DEF BillsView, BillsKept
<1>. QED
  BY <1>2, <1>3, <1>4, <1>5, <1>6 DEF SettlementNext

-----------------------------------------------------------------------------
(* The accounts: what is changed was seen, and a start is found again. *)

\* The requests of the desk that neither change an employment nor start a handover.
AgentKinds == {"list", "tasks", "detail", "batch", "unlock", "save", "stale", "reset", "reassign"}

\* What is relied on of the page: a change of an employment is sent with the
\* version the administrator saw, and a question is about an account.
AgentsView ==
  /\ {"reqs", "kept", "away", "blurred", "asking"} \subseteq DOMAIN view
  /\ Requests(view.reqs) /\ DOMAIN view.kept = Agents
  /\ view.asking # None => view.asking.agent \in Agents /\ view.asking.what \in {"suspend", "start", "reset"}
  /\ \A r \in view.reqs : r.kind = "toggle" => r.of.version = r.of.seen

\* What is relied on of the accounts as the service has them.
AgentsWorld == {"acc", "owner", "started"} \subseteq DOMAIN world

\* As long as the page is open and has not lost track of an employee: a start
\* that was carried out is the one it keeps for the employee.
StartedIsKept ==
  \A t \in world.started :
    \/ view.away
    \/ t.agent \in view.blurred
    \/ t.agent \in Agents /\ view.kept[t.agent] # <<>> /\ view.kept[t.agent][1].key = t.key

\* What is known of a start that is under way.
StartKnown(r) ==
  /\ view.kept[r.of.agent] = <<r.of.request>> /\ r.of.agent \in Agents
  /\ \A q \in view.reqs : q.kind = "start" /\ q.of.agent = r.of.agent => q = r
  /\ r.answer = <<"conflict">> => \A t \in world.started : t.agent # r.of.agent

\* The starts under way: each is the only one of its employee and the one that
\* is kept, and it is refused only when the employee was never started here.
StartsKnown == \A r \in view.reqs : r.kind = "start" /\ r.of.agent \notin view.blurred => StartKnown(r)

\* The invariant of the desk.
AgentsHeld == page = "agents" => AgentsWorld /\ AgentsView /\ StartedIsKept /\ StartsKnown

\* A change of an employment that the service carries out is one that was seen.
SeenStep ==
  \A r \in view.reqs :
    r.kind = "toggle" /\ r.answer = <<>> /\ (\E q \in view'.reqs : q = [r EXCEPT !.answer = <<"ok">>])
      => world.acc[r.of.agent].version = r.of.seen

\* A start that is refused is of an employee who was not started here.
FoundStep ==
  \A r \in view.reqs :
    r.kind = "start" /\ (\E q \in view'.reqs : q = [r EXCEPT !.answer = <<"conflict">>])
      => r.of.agent \in view.blurred \/ \A t \in world.started : t.agent # r.of.agent

\* The clicks that send neither a change of an employment nor a start.
AgentsClicks ==
  \/ \E f \in {"all", "active", "suspended", "handover_pending"} : FilterStatus(f)
  \/ \E a \in Agents : ViewAgentTasks(a) \/ HandleResetPassword(a) \/ RecycleTo(a)
  \/ \E a \in Agents : \E acc \in CopiesOf(a) :
       \/ Suspend(a, acc) \/ StartHandover(a, acc) \/ OpenBatch(a, acc)
       \/ Unlock(a, acc) \/ OpenEditModal(a, acc) \/ OpenRecycle(a, acc)
  \/ \E l \in Leads : ToggleTaskDetail(l) \/ RetryDetail(l) \/ RecycleTick(l)
  \/ \E m \in {"auto", "manual"} : Reassign(m)
  \/ OpenCreateModal \/ ConfirmNo \/ EditForm \/ CloseForm \/ HandleSave \/ CloseRecycle \/ RecycleTickAll

\* The answers that are not those to a start, and a start that is lost.
AgentsTold(r) ==
  \/ AgentsShown(r) \/ AgentsFail(r) \/ TasksShown(r) \/ TasksFail(r) \/ DetailShown(r) \/ DetailFails(r)
  \/ ToggleAnswered(r) \/ ToggleLost(r) \/ StartLost(r) \/ BatchShown(r) \/ BatchFails(r)
  \/ UnlockShown(r) \/ UnlockFails(r) \/ SaveShown(r) \/ SaveFails(r) \/ StaleShown(r) \/ StaleFails(r)
  \/ ResetDone(r) \/ ReassignShown(r) \/ ReassignFails(r)

\* What the service carries out, other than an employment's change and a start.
AgentsTakes(r) ==
  \/ AgentsTaken(r) \/ TasksTaken(r) \/ DetailTaken(r) \/ BatchTaken(r) \/ UnlockTaken(r) \/ SaveTaken(r)
  \/ StaleTaken(r) \/ ResetTaken(r) \/ ReassignTaken(r)

\* What others do.
AgentsOthers ==
  \/ \E a \in Agents : OthersToggle(a) \/ OthersStart(a)
  \/ \E l \in Leads, a \in Agents : OthersAssign(l, a)

\* A step of the page that leaves the starts alone.
AgentsPass ==
  /\ Follows(view.reqs, view'.reqs, AgentKinds) /\ DOMAIN view' = DOMAIN view
  /\ view'.kept = view.kept /\ view'.blurred = view.blurred
  /\ view'.away = view.away \/ ~view.away
  /\ \/ view'.asking = view.asking \/ view'.asking = None
     \/ view'.asking.agent \in Agents /\ view'.asking.what \in {"suspend", "start", "reset"}

\* The steps of the desk.
LEMMA AgentsSteps ==
  ASSUME AgentsNext
  PROVE  \/ AgentsClicks \/ AgentsOthers \/ ConfirmYes
         \/ \E a \in Agents : \E acc \in CopiesOf(a) : Resume(a, acc)
         \/ ~view.away /\ \E r \in view.reqs :
              \/ AgentsTold(r) \/ AgentsTakes(r) \/ ToggleTaken(r)
              \/ StartTaken(r) \/ StartShown(r) \/ StartRefused(r) \/ StartCutShort(r)
  BY DEF AgentsNext, AgentsClicks, AgentsTold, AgentsTakes, AgentsOthers

\* None of them leaves the page.
LEMMA AgentsMoves ==
  ASSUME AgentsNext
  PROVE  page' = page
<1>1. ASSUME AgentsClicks PROVE page' = page /\ world' = world
  BY <1>1 DEF AgentsClicks, FilterStatus, ViewAgentTasks, HandleResetPassword, RecycleTo, Suspend,
         StartHandover, OpenBatch, Unlock, OpenEditModal, OpenRecycle, ToggleTaskDetail, RetryDetail,
         RecycleTick, Reassign, OpenCreateModal, ConfirmNo, EditForm, CloseForm, HandleSave,
         CloseRecycle, RecycleTickAll, Click
<1>2. ASSUME NEW r, AgentsTold(r) PROVE page' = page /\ world' = world
  BY <1>2 DEF AgentsTold, AgentsShown, AgentsFail, TasksShown, TasksFail, DetailShown, DetailFails,
         ToggleAnswered, ToggleLost, StartLost, BatchShown, BatchFails, UnlockShown, UnlockFails,
         SaveShown, SaveFails, StaleShown, StaleFails, ResetDone, ReassignShown, ReassignFails, Came,
         Failed, Told
<1>3. ASSUME NEW r, AgentsTakes(r) \/ ToggleTaken(r) \/ StartTaken(r) PROVE page' = page
  BY <1>3 DEF AgentsTakes, AgentsTaken, TasksTaken, DetailTaken, BatchTaken, UnlockTaken, SaveTaken,
         StaleTaken, ResetTaken, ReassignTaken, ToggleTaken, StartTaken, Answered, Served
<1>4. ASSUME NEW r, StartShown(r) \/ StartRefused(r) \/ StartCutShort(r) PROVE page' = page
  BY <1>4 DEF StartShown, StartRefused, StartCutShort, Came, Failed, Told
<1>5. ASSUME AgentsOthers PROVE page' = page
  BY <1>5 DEF AgentsOthers, OthersToggle, OthersStart, OthersAssign, Elsewhere
<1>6. ASSUME ConfirmYes \/ \E a \in Agents : \E acc \in CopiesOf(a) : Resume(a, acc) PROVE page' = page
  BY <1>6 DEF ConfirmYes, Resume, Click
<1>. QED
  BY <1>1, <1>2, <1>3, <1>4, <1>5, <1>6, AgentsSteps

\* A step that answers nothing carries out and refuses nothing.
LEMMA NothingAnswered ==
  ASSUME Requests(view.reqs), StartsKnown, NEW K, Follows(view.reqs, view'.reqs, K)
  PROVE  SeenStep /\ FoundStep
<1>1. ASSUME NEW r \in view.reqs, NEW x, [r EXCEPT !.answer = <<x>>] \in view'.reqs
      PROVE  r = [r EXCEPT !.answer = <<x>>] /\ r.answer = <<x>> /\ r.answer # <<>>
  <2>1. r = WithAnswer(r, x) /\ r.answer # <<>>
    BY <1>1, OwnAnswer DEF WithAnswer
  <2>2. WithAnswer(r, x).answer = <<x>>
    BY AnswerOf DEF Requests, WithAnswer
  <2>. QED
    BY <2>1, <2>2 DEF WithAnswer
<1>2. SeenStep
  BY <1>1 DEF SeenStep
<1>3. FoundStep
  <2>1. ASSUME NEW r \in view.reqs, r.kind = "start", [r EXCEPT !.answer = <<"conflict">>] \in view'.reqs,
               r.of.agent \notin view.blurred
        PROVE  \A t \in world.started : t.agent # r.of.agent
    <3>1. r.answer = <<"conflict">>
      BY <1>1, <2>1
    <3>2. StartKnown(r)
      BY <2>1 DEF StartsKnown
    <3>. QED
      BY <3>1, <3>2 DEF StartKnown
  <2>. QED
    BY <2>1 DEF FoundStep
<1>. QED
  BY <1>2, <1>3

\* A step that leaves the starts alone keeps what is known of them.
LEMMA AgentsQuiet ==
  ASSUME AgentsView, StartedIsKept, StartsKnown, AgentsPass, world'.started = world.started
  PROVE  AgentsView' /\ StartedIsKept' /\ StartsKnown' /\ SeenStep /\ FoundStep
<1>1. ASSUME NEW r \in view'.reqs, r.kind \in {"toggle", "start"}
      PROVE  r \in view.reqs
  BY <1>1 DEF AgentsPass, Follows, AgentKinds
<1>2. AgentsView'
  BY <1>1 DEF AgentsView, AgentsPass, Follows
<1>3. StartedIsKept'
  BY DEF StartedIsKept, AgentsPass
<1>4. StartsKnown'
  BY <1>1 DEF StartsKnown, StartKnown, AgentsPass
<1>5. SeenStep /\ FoundStep
  BY NothingAnswered DEF AgentsView, AgentsPass
<1>. QED
  BY <1>2, <1>3, <1>4, <1>5

\* Loading the accounts, the leads in the pane, or those in the dialog asks for them and
\* leaves the starts alone.
LEMMA AgentsLoads ==
  ASSUME NEW v, {"reqs", "kept", "away", "blurred", "asking"} \subseteq DOMAIN v
  PROVE  /\ \E of : FetchAgents(v).reqs = Ask(v.reqs, "list", of)
         /\ DOMAIN FetchAgents(v) = DOMAIN v /\ FetchAgents(v).kept = v.kept
         /\ FetchAgents(v).away = v.away /\ FetchAgents(v).blurred = v.blurred
         /\ FetchAgents(v).asking = v.asking
         /\ \A a, acc : /\ \E of : Viewed(v, a, acc).reqs = Ask(v.reqs, "tasks", of)
                        /\ DOMAIN Viewed(v, a, acc) = DOMAIN v /\ Viewed(v, a, acc).kept = v.kept
                        /\ Viewed(v, a, acc).away = v.away /\ Viewed(v, a, acc).blurred = v.blurred
                        /\ Viewed(v, a, acc).asking = v.asking
  BY DEF FetchAgents, Viewed, Send

\* The clicks leave the starts alone.
LEMMA AgentsClicked ==
  ASSUME AgentsView, AgentsClicks
  PROVE  AgentsPass /\ world' = world
<1> DEFINE Same(v) == /\ DOMAIN v = DOMAIN view /\ v.kept = view.kept /\ v.blurred = view.blurred
                      /\ v.away = view.away
                      /\ \/ v.asking = view.asking \/ v.asking = None
                         \/ v.asking.agent \in Agents /\ v.asking.what \in {"suspend", "start", "reset"}
<1>1. ASSUME \/ \E f \in {"all", "active", "suspended", "handover_pending"} : FilterStatus(f)
             \/ \E a \in Agents : RecycleTo(a)
             \/ \E a \in Agents : \E acc \in CopiesOf(a) : OpenEditModal(a, acc)
             \/ \E l \in Leads : RecycleTick(l)
             \/ OpenCreateModal \/ ConfirmNo \/ EditForm \/ CloseForm \/ CloseRecycle \/ RecycleTickAll
      PROVE  view'.reqs = view.reqs /\ Same(view') /\ world' = world
  BY <1>1 DEF FilterStatus, RecycleTo, OpenEditModal, RecycleTick,
         OpenCreateModal, ConfirmNo, EditForm, CloseForm, CloseRecycle, RecycleTickAll, Click, AgentsView
<1>6. ASSUME NEW a \in Agents, HandleResetPassword(a) \/ \E acc \in CopiesOf(a) : Suspend(a, acc) \/ StartHandover(a, acc)
      PROVE  view'.reqs = view.reqs /\ Same(view') /\ world' = world
  <2>1. PICK what \in {"suspend", "start", "reset"} :
          \E acc : view' = [view EXCEPT !.asking = [what |-> what, agent |-> a, acc |-> acc]] /\ world' = world
    BY <1>6 DEF HandleResetPassword, Suspend, StartHandover, Click
  <2>. QED
    BY <2>1 DEF AgentsView
<1>2. ASSUME NEW a, ViewAgentTasks(a) \/ (\E acc : OpenRecycle(a, acc)) \/ RetryDetail(a)
      PROVE  (\E kind \in AgentKinds : \E of : view'.reqs = Ask(view.reqs, kind, of)) /\ Same(view') /\ world' = world
  <2>1. CASE ViewAgentTasks(a)
    <3>1. view' = Viewed(view, a, view.list[a]) /\ world' = world
      BY <2>1 DEF ViewAgentTasks, Click
    <3>2. \E of : view'.reqs = Ask(view.reqs, "tasks", of)
      BY <3>1, AgentsLoads DEF AgentsView
    <3>3. Same(view')
      BY <3>1, AgentsLoads DEF AgentsView
    <3>. QED
      BY <3>1, <3>2, <3>3 DEF AgentKinds
  <2>2. CASE \E acc : OpenRecycle(a, acc)
    <3>1. PICK acc : view' = FetchRecycle([view EXCEPT !.recycle = [Closed EXCEPT !.agent = a, !.acc = acc]], a, FALSE)
                     /\ world' = world
      BY <2>2 DEF OpenRecycle, Click
    <3>2. view'.reqs = Ask(view.reqs, "stale", [agent |-> a, after |-> FALSE]) /\ Same(view')
      BY <3>1 DEF FetchRecycle, Send, AgentsView
    <3>. QED
      BY <3>1, <3>2 DEF AgentKinds
  <2>3. CASE RetryDetail(a)
    <3>1. view'.reqs = Ask(view.reqs, "detail", a) /\ Same(view') /\ world' = world
      BY <2>3 DEF RetryDetail, LoadTaskDetail, Send, Click, AgentsView
    <3>. QED
      BY <3>1 DEF AgentKinds
  <2>. QED
    BY <1>2, <2>1, <2>2, <2>3
<1>7. ASSUME \/ \E a \in Agents : \E acc \in CopiesOf(a) : OpenBatch(a, acc) \/ Unlock(a, acc)
             \/ \E m \in {"auto", "manual"} : Reassign(m)
             \/ HandleSave
      PROVE  (\E kind \in AgentKinds : \E of : view'.reqs = Ask(view.reqs, kind, of)) /\ Same(view') /\ world' = world
  <2>1. ASSUME NEW a, NEW acc, OpenBatch(a, acc)
        PROVE  view'.reqs = Ask(view.reqs, "batch", a) /\ Same(view') /\ world' = world
    BY <2>1 DEF OpenBatch, Send, Click, AgentsView
  <2>2. ASSUME NEW a, NEW acc, Unlock(a, acc)
        PROVE  /\ view'.reqs = Ask(view.reqs, "unlock", [agent |-> a, paned |-> view.pane # None /\ view.pane.agent = a])
               /\ Same(view') /\ world' = world
    BY <2>2 DEF Unlock, Send, Click, AgentsView
  <2>3. ASSUME NEW m, Reassign(m)
        PROVE  /\ view'.reqs = Ask(view.reqs, "reassign",
                                  [agent |-> view.recycle.agent, leads |-> view.recycle.picked,
                                   to |-> IF m = "manual" THEN view.recycle.to ELSE None])
               /\ Same(view') /\ world' = world
    BY <2>3 DEF Reassign, Send, Click, AgentsView
  <2>4. ASSUME HandleSave
        PROVE  view'.reqs = Ask(view.reqs, "save", view.form) /\ Same(view') /\ world' = world
    BY <2>4 DEF HandleSave, Send, Click, AgentsView
  <2>. QED
    BY <1>7, <2>1, <2>2, <2>3, <2>4 DEF AgentKinds
<1>3. ASSUME NEW l \in Leads, ToggleTaskDetail(l)
      PROVE  /\ view'.reqs = view.reqs \/ \E kind \in AgentKinds : \E of : view'.reqs = Ask(view.reqs, kind, of)
             /\ Same(view') /\ world' = world
  BY <1>3 DEF ToggleTaskDetail, LoadTaskDetail, Send, Click, AgentsView, AgentKinds
<1>4. /\ view'.reqs = view.reqs \/ \E kind \in AgentKinds : \E of : view'.reqs = Ask(view.reqs, kind, of)
      /\ Same(view') /\ world' = world
  BY <1>1, <1>2, <1>3, <1>6, <1>7 DEF AgentsClicks
<1>5. Follows(view.reqs, view'.reqs, AgentKinds)
  BY <1>4, FollowsFacts DEF AgentsView
<1>. QED
  BY <1>4, <1>5 DEF AgentsPass

\* The answers leave the starts that are still under way alone.
LEMMA AgentsAnswers ==
  ASSUME AgentsView, ~view.away, NEW r \in view.reqs, AgentsTold(r)
  PROVE  AgentsPass /\ world' = world
<1> DEFINE Same(v) == /\ DOMAIN v = DOMAIN view /\ v.kept = view.kept /\ v.blurred = view.blurred
                      /\ v.asking = view.asking
           One(S) == S = view.reqs \ {r} \/ \E kind \in AgentKinds : \E of : S = Ask(view.reqs \ {r}, kind, of)
<1>1. ASSUME \/ AgentsShown(r) \/ AgentsFail(r) \/ TasksShown(r) \/ TasksFail(r) \/ DetailShown(r) \/ DetailFails(r)
             \/ ToggleLost(r) \/ StartLost(r) \/ BatchShown(r) \/ BatchFails(r)
             \/ UnlockFails(r) \/ SaveFails(r) \/ ResetDone(r) \/ ReassignFails(r)
      PROVE  view'.reqs = view.reqs \ {r} /\ Same(view') /\ world' = world
  BY <1>1 DEF AgentsShown, AgentsFail, TasksShown, TasksFail, DetailShown, DetailFails, ToggleLost, StartLost,
         BatchShown, BatchFails, UnlockFails, SaveFails, ResetDone, ReassignFails, Without, Came, Failed,
         Told, AgentsView
<1>2. ASSUME ToggleAnswered(r) \/ UnlockShown(r) \/ SaveShown(r) \/ ReassignShown(r)
      PROVE  (\E kind \in AgentKinds : \E of : view'.reqs = Ask(view.reqs \ {r}, kind, of)) /\ Same(view') /\ world' = world
  BY <1>2 DEF ToggleAnswered, UnlockShown, SaveShown, ReassignShown, FetchAgents, FetchRecycle, Send,
         Without, Came, Told, AgentsView, AgentKinds
<1>3. ASSUME StaleShown(r) \/ StaleFails(r)
      PROVE  /\ \/ One(view'.reqs)
                \/ \E S : One(S) /\ \E of : view'.reqs = Ask(S, "tasks", of)
             /\ Same(view') /\ world' = world
  <2> DEFINE Fine(v) == v.reqs = view.reqs \ {r} /\ Same(v) /\ v.away = view.away
             shown == [Without(view, r) EXCEPT !.recycle.rows = r.answer[1], !.recycle.picked = {},
                                               !.recycle.loading = FALSE]
             gone == [Without(view, r) EXCEPT !.recycle.rows = {}, !.recycle.loading = FALSE]
  <2>4. (view' = Continued(shown, r) \/ view' = Continued(gone, r)) /\ world' = world
    BY <1>3 DEF StaleShown, StaleFails, Came, Failed, Told
  <2>5. Fine(shown)
    BY DEF Without, AgentsView
  <2>6. Fine(gone)
    BY DEF Without, AgentsView
  <2> HIDE DEF shown, gone
  <2>1. PICK v : view' = Continued(v, r) /\ Fine(v) /\ world' = world
    BY <2>4, <2>5, <2>6
  <2>2. CASE ~r.of.after
    BY <2>1, <2>2 DEF Continued
  <2>3. CASE r.of.after
    <3> DEFINE freed == [v EXCEPT !.recycle.acting = FALSE]
               done == FetchAgents(freed)
    <3>1. freed.reqs = view.reqs \ {r} /\ Same(freed) /\ {"reqs", "kept", "away", "blurred", "asking"} \subseteq DOMAIN freed
      BY <2>1 DEF AgentsView
    <3>2. view' = done \/ \E a, acc : view' = Viewed(done, a, acc)
      BY <2>1, <2>3 DEF Continued
    <3> HIDE DEF freed
    <3>3. (\E of : done.reqs = Ask(view.reqs \ {r}, "list", of)) /\ Same(done)
      BY <3>1, AgentsLoads
    <3> HIDE DEF done
    <3>4. One(done.reqs) /\ {"reqs", "kept", "away", "blurred", "asking"} \subseteq DOMAIN done
      BY <3>3 DEF AgentKinds, AgentsView
    <3>5. CASE view' = done
      BY <2>1, <3>3, <3>4, <3>5
    <3>6. ASSUME NEW a, NEW acc, view' = Viewed(done, a, acc)
          PROVE  (\E of : view'.reqs = Ask(done.reqs, "tasks", of)) /\ Same(view')
      BY <3>3, <3>4, <3>6, AgentsLoads
    <3>. QED
      BY <2>1, <3>2, <3>4, <3>5, <3>6
  <2>. QED
    BY <2>2, <2>3
<1>4. ASSUME NEW S, One(S) PROVE Follows(view.reqs, S, AgentKinds)
  <2> DEFINE R == view.reqs
  <2>1. Requests(R)
    BY DEF AgentsView
  <2> HIDE DEF R
  <2>2. S = R \ {r} \/ \E kind \in AgentKinds : \E of : S = Ask(R \ {r}, kind, of)
    BY <1>4 DEF R
  <2>3. Follows(R, S, AgentKinds)
    BY <2>1, <2>2, FollowsFacts, Zenon
  <2>. QED
    BY <2>3 DEF R
<1>5. ASSUME NEW S, One(S), NEW of PROVE Follows(view.reqs, Ask(S, "tasks", of), AgentKinds)
  <2>1. Follows(view.reqs, S, AgentKinds) /\ Requests(S)
    BY <1>4, <1>5 DEF Follows
  <2>2. Follows(S, Ask(S, "tasks", of), AgentKinds)
    BY <2>1, FollowsFacts DEF AgentKinds
  <2>. QED
    BY <2>1, <2>2, FollowsOn
<1>6. Follows(view.reqs, view'.reqs, AgentKinds) /\ Same(view') /\ world' = world
  BY <1>1, <1>2, <1>3, <1>4, <1>5 DEF AgentsTold
<1>. QED
  BY <1>6 DEF AgentsPass

\* A change of an employment that is asked for is one that was seen.
LEMMA AgentsToggles ==
  ASSUME AgentsView, StartedIsKept, StartsKnown, NEW v, NEW a, NEW acc,
         {"reqs", "kept", "away", "blurred", "asking"} \subseteq DOMAIN v,
         DOMAIN v = DOMAIN view, v.reqs = view.reqs, v.kept = view.kept, v.blurred = view.blurred,
         v.away = view.away, v.asking \in {view.asking, None},
         view' = Toggled(v, a, acc), world'.started = world.started
  PROVE  AgentsView' /\ StartedIsKept' /\ StartsKnown' /\ SeenStep /\ FoundStep
<1> DEFINE of == [agent |-> a, to |-> IF acc.status = "active" THEN "suspended" ELSE "active",
                  version |-> acc.version, seen |-> acc.version]
           q == NewRequest(view.reqs, "toggle", of)
<1>1. /\ view'.reqs = Ask(view.reqs, "toggle", of) /\ DOMAIN view' = DOMAIN view
      /\ view'.kept = view.kept /\ view'.blurred = view.blurred /\ view'.away = view.away
      /\ view'.asking = view.asking \/ view'.asking = None
  BY DEF Toggled, Basis, Send
<1>2. of.version = of.seen
  OBVIOUS
<1> HIDE DEF of
<1>3. /\ Requests(view'.reqs) /\ view'.reqs = view.reqs \cup {q}
      /\ q.kind = "toggle" /\ q.of = of /\ q.answer = <<>>
  BY <1>1, AskAdds DEF AgentsView
<1> HIDE DEF q
<1>4. AgentsView'
  BY <1>1, <1>2, <1>3 DEF AgentsView
<1>5. StartedIsKept'
  BY <1>1 DEF StartedIsKept
<1>6. StartsKnown'
  BY <1>1, <1>3 DEF StartsKnown, StartKnown
<1>7. Follows(view.reqs, view'.reqs, {"toggle"})
  BY <1>3 DEF Follows
<1>. QED
  BY <1>4, <1>5, <1>6, <1>7, NothingAnswered DEF AgentsView

\* A start that is sent is kept; when it crosses another one of the employee, the
\* page loses track.
LEMMA AgentsStarts ==
  ASSUME AgentsView, StartedIsKept, StartsKnown, ~view.away, NEW v, NEW a \in Agents, NEW acc,
         v = [view EXCEPT !.asking = None], view' = Started(v, a, acc), world'.started = world.started
  PROVE  AgentsView' /\ StartedIsKept' /\ StartsKnown' /\ SeenStep /\ FoundStep
<1> DEFINE request == StartRequest(v, a, acc)
           of == [agent |-> a, request |-> request]
           q == NewRequest(view.reqs, "start", of)
           crossed == \E r \in view.reqs : r.kind = "start" /\ r.of.agent = a
<1>1. /\ v.reqs = view.reqs /\ v.kept = view.kept /\ v.blurred = view.blurred /\ v.away = view.away
      /\ v.asking = None /\ DOMAIN v = DOMAIN view
  BY DEF AgentsView
<1>2. view.kept[a] # <<>> => request = view.kept[a][1]
  BY <1>1 DEF StartRequest
<1> HIDE DEF request
<1>3. /\ view'.reqs = Ask(view.reqs, "start", of) /\ DOMAIN view' = DOMAIN view
      /\ view'.kept = [view.kept EXCEPT ![a] = <<request>>] /\ view'.away = view.away
      /\ view'.blurred = IF crossed THEN view.blurred \cup {a} ELSE view.blurred
      /\ view'.asking = None
  BY <1>1 DEF Started, Send, AgentsView, request
<1>4. of.agent = a /\ of.request = request
  OBVIOUS
<1> HIDE DEF of
<1>5. /\ Requests(view'.reqs) /\ view'.reqs = view.reqs \cup {q}
      /\ q.kind = "start" /\ q.of = of /\ q.answer = <<>>
  BY <1>3, AskAdds DEF AgentsView
<1> HIDE DEF q
<1>6. view'.kept[a] = <<request>> /\ \A b \in Agents : b # a => view'.kept[b] = view.kept[b]
  BY <1>3 DEF AgentsView
<1>7. AgentsView'
  BY <1>3, <1>5 DEF AgentsView
<1>8. StartedIsKept'
  <2>1. ASSUME NEW t \in world.started, ~view.away, t.agent \notin view'.blurred
        PROVE  t.agent \in Agents /\ view'.kept[t.agent] # <<>> /\ view'.kept[t.agent][1].key = t.key
    <3>1. t.agent \in Agents /\ view.kept[t.agent] # <<>> /\ view.kept[t.agent][1].key = t.key
      BY <1>3, <2>1 DEF StartedIsKept
    <3>2. CASE t.agent = a
      <4>1. view'.kept[t.agent] # <<>>
        BY <1>6, <3>2, OneIsNotNone
      <4>2. view'.kept[t.agent][1] = view.kept[t.agent][1]
        BY <1>2, <1>6, <3>1, <3>2
      <4>. QED
        BY <3>1, <4>1, <4>2
    <3>3. CASE t.agent # a
      <4>1. view'.kept[t.agent] = view.kept[t.agent]
        BY <1>6, <3>1, <3>3
      <4>. QED
        BY <3>1, <4>1
    <3>. QED
      BY <3>2, <3>3
  <2>. QED
    BY <1>3, <2>1 DEF StartedIsKept
<1>9. StartsKnown'
  <2>1. SUFFICES ASSUME NEW r \in view'.reqs, r.kind = "start", r.of.agent \notin view'.blurred
                 PROVE  StartKnown(r)'
    BY DEF StartsKnown
  <2>2. CASE r = q
    <3>1. ~crossed
      BY <1>3, <1>4, <1>5, <2>1, <2>2
    <3>2. r.answer # <<"conflict">>
      BY <1>5, <2>2, OneIsNotNone
    <3>. QED
      BY <1>4, <1>5, <1>6, <2>2, <3>1, <3>2 DEF StartKnown
  <2>3. CASE r \in view.reqs
    <3>1. r.of.agent # a
      BY <1>3, <2>1, <2>3
    <3>2. StartKnown(r)
      BY <1>3, <2>1, <2>3 DEF StartsKnown
    <3>. QED
      BY <1>4, <1>5, <1>6, <3>1, <3>2 DEF StartKnown
  <2>. QED
    BY <1>5, <2>2, <2>3
<1>10. Follows(view.reqs, view'.reqs, {"start"})
  BY <1>5 DEF Follows
<1>. QED
  BY <1>7, <1>8, <1>9, <1>10, NothingAnswered DEF AgentsView

\* An answer of the service: a change is carried out at the version it was sent
\* with, and a start is refused when its key is none of those carried out.
LEMMA AgentsAnswered ==
  ASSUME AgentsView, StartedIsKept, StartsKnown, ~view.away, NEW r, NEW a, Answered(r, a),
         r.kind = "toggle" /\ a = "ok" => world.acc[r.of.agent].version = r.of.version,
         r.kind = "start" /\ a = "conflict" => \A t \in world.started : t.key # r.of.request.key,
         \/ world'.started = world.started
         \/ /\ world'.started = world.started \cup {[agent |-> r.of.agent, key |-> r.of.request.key]}
            /\ r.kind = "start" /\ a = "ok"
  PROVE  AgentsView' /\ StartedIsKept' /\ StartsKnown' /\ SeenStep /\ FoundStep
<1> DEFINE q == WithAnswer(r, a)
           new == [agent |-> r.of.agent, key |-> r.of.request.key]
<1>1. /\ r \in view.reqs /\ r.answer = <<>> /\ view' = [view EXCEPT !.reqs = (view.reqs \ {r}) \cup {q}]
      /\ view'.reqs = (view.reqs \ {r}) \cup {q} /\ DOMAIN view' = DOMAIN view /\ Requests(view'.reqs)
      /\ q.kind = r.kind /\ q.of = r.of /\ q.answer = <<a>> /\ q.id = r.id /\ q \notin view.reqs
  BY AnsweredStep DEF AgentsView
<1> HIDE DEF q
<1>2. /\ view'.kept = view.kept /\ view'.away = view.away /\ view'.blurred = view.blurred
      /\ view'.asking = view.asking
  BY <1>1 DEF AgentsView
<1>3. AgentsView'
  BY <1>1, <1>2 DEF AgentsView
<1>4. new.agent = r.of.agent /\ new.key = r.of.request.key
  OBVIOUS
<1> HIDE DEF new
<1>5. world'.started = world.started \/ (world'.started = world.started \cup {new} /\ r.kind = "start" /\ a = "ok")
  BY DEF new
<1>6. StartedIsKept'
  <2>1. ASSUME NEW t \in world'.started, t = new, r.kind = "start", r.of.agent \notin view.blurred
        PROVE  t.agent \in Agents /\ view.kept[t.agent] # <<>> /\ view.kept[t.agent][1].key = t.key
    <3>1. view.kept[r.of.agent] = <<r.of.request>> /\ r.of.agent \in Agents
      BY <1>1, <2>1 DEF StartsKnown, StartKnown
    <3>. QED
      BY <1>4, <2>1, <3>1, OneIsNotNone
  <2>. QED
    BY <1>2, <1>4, <1>5, <2>1 DEF StartedIsKept
<1>7. ASSUME r.kind = "start", a = "conflict", r.of.agent \notin view.blurred
      PROVE  \A t \in world.started : t.agent # r.of.agent
  <2>1. SUFFICES ASSUME NEW t \in world.started, t.agent = r.of.agent PROVE FALSE
    OBVIOUS
  <2>2. view.kept[r.of.agent] = <<r.of.request>>
    BY <1>1, <1>7 DEF StartsKnown, StartKnown
  <2>3. view.kept[t.agent][1].key = t.key
    BY <1>7, <2>1 DEF StartedIsKept
  <2>. QED
    BY <1>7, <2>1, <2>2, <2>3
<1>8. ASSUME NEW p \in view.reqs, p # r, p.kind = "start", p.of.agent \notin view.blurred
      PROVE  StartKnown(p) /\ (r.kind = "start" => r.of.agent # p.of.agent)
  BY <1>1, <1>8 DEF StartsKnown, StartKnown
<1>9. StartsKnown'
  <2>1. SUFFICES ASSUME NEW p \in view'.reqs, p.kind = "start", p.of.agent \notin view'.blurred
                 PROVE  StartKnown(p)'
    BY DEF StartsKnown
  <2>2. CASE p = q
    <3>1. StartKnown(r)
      BY <1>1, <1>2, <2>1, <2>2 DEF StartsKnown
    <3>2. \A o \in view'.reqs : o.kind = "start" /\ o.of.agent = p.of.agent => o = p
      BY <1>1, <2>1, <2>2, <3>1 DEF StartKnown
    <3>3. p.answer = <<"conflict">> => a = "conflict"
      BY <1>1, <2>2
    <3>4. p.answer = <<"conflict">> => \A t \in world'.started : t.agent # p.of.agent
      BY <1>1, <1>2, <1>5, <1>7, <2>1, <2>2, <3>3
    <3>. QED
      BY <1>1, <1>2, <2>2, <3>1, <3>2, <3>4 DEF StartKnown
  <2>3. CASE p \in view.reqs /\ p # r
    <3>1. StartKnown(p) /\ (r.kind = "start" => r.of.agent # p.of.agent)
      BY <1>2, <1>8, <2>1, <2>3
    <3>2. \A o \in view'.reqs : o.kind = "start" /\ o.of.agent = p.of.agent => o = p
      BY <1>1, <3>1 DEF StartKnown
    <3>3. p.answer = <<"conflict">> => \A t \in world'.started : t.agent # p.of.agent
      BY <1>4, <1>5, <3>1 DEF StartKnown
    <3>. QED
      BY <1>2, <3>1, <3>2, <3>3 DEF StartKnown
  <2>. QED
    BY <1>1, <2>2, <2>3
<1>10. SeenStep
  <2>1. ASSUME NEW p \in view.reqs, p.kind = "toggle", p.answer = <<>>, WithAnswer(p, "ok") \in view'.reqs
        PROVE  world.acc[p.of.agent].version = p.of.seen
    <3>1. r = p /\ a = "ok"
      BY <2>1, AnswersOne DEF AgentsView
    <3>. QED
      BY <2>1, <3>1 DEF AgentsView
  <2>. QED
    BY <2>1 DEF SeenStep, WithAnswer
<1>11. FoundStep
  <2>1. ASSUME NEW p \in view.reqs, p.kind = "start", WithAnswer(p, "conflict") \in view'.reqs,
               p.of.agent \notin view.blurred
        PROVE  \A t \in world.started : t.agent # p.of.agent
    <3>1. CASE p.answer = <<>>
      <4>1. r = p /\ a = "conflict"
        BY <2>1, <3>1, AnswersOne DEF AgentsView
      <4>. QED
        BY <1>7, <2>1, <4>1
    <3>2. CASE p.answer # <<>>
      <4>1. p # r /\ p \in view'.reqs
        BY <1>1, <3>2
      <4>2. WithAnswer(p, "conflict").id = p.id /\ WithAnswer(p, "conflict").answer = <<"conflict">>
        BY AnswerOf DEF AgentsView, Requests, WithAnswer
      <4>3. p = WithAnswer(p, "conflict")
        BY <1>1, <2>1, <4>1, <4>2 DEF Requests
      <4>4. StartKnown(p) /\ p.answer = <<"conflict">>
        BY <1>8, <2>1, <4>1, <4>2, <4>3
      <4>. QED
        BY <4>4 DEF StartKnown
    <3>. QED
      BY <3>1, <3>2
  <2>. QED
    BY <2>1 DEF FoundStep, WithAnswer
<1>. QED
  BY <1>3, <1>6, <1>9, <1>10, <1>11

\* A start that was carried out gives the page away; one that was refused, or
\* given up, is kept no more.
LEMMA AgentsEnds ==
  ASSUME AgentsView, StartedIsKept, StartsKnown, ~view.away, NEW r \in view.reqs,
         StartShown(r) \/ StartRefused(r) \/ StartCutShort(r)
  PROVE  AgentsView' /\ StartedIsKept' /\ StartsKnown' /\ SeenStep /\ FoundStep
<1> DEFINE a == r.of.agent
           free == [view.kept EXCEPT ![a] = <<>>]
<1>1. /\ world' = world /\ r.kind = "start" /\ DOMAIN view' = DOMAIN view /\ view'.kept = free
      /\ view'.asking = view.asking
      /\ \/ view'.reqs = view.reqs \ {r} /\ view'.blurred = view.blurred /\ view'.away
         \/ /\ r.answer = <<"conflict">> /\ view'.reqs = Ask(view.reqs \ {r}, "list", None)
            /\ view'.blurred = view.blurred /\ view'.away = view.away
         \/ view'.reqs = view.reqs \ {r} /\ view'.blurred = view.blurred \cup {a} /\ view'.away = view.away
  <2>1. CASE StartShown(r)
    BY <2>1 DEF StartShown, Came, Told, Without, AgentsView
  <2>2. CASE StartRefused(r)
    BY <2>2 DEF StartRefused, FetchAgents, Send, Came, Told, Without, AgentsView
  <2>3. CASE StartCutShort(r)
    BY <2>3 DEF StartCutShort, Failed, Told, Without, AgentsView
  <2>. QED
    BY <2>1, <2>2, <2>3
<1>2. Follows(view.reqs, view'.reqs, {"list"})
  <2>1. view'.reqs = view.reqs \ {r} \/ view'.reqs = Ask(view.reqs \ {r}, "list", None)
    BY <1>1
  <2>2. Follows(view.reqs, view.reqs \ {r}, {"list"}) /\ Follows(view.reqs, Ask(view.reqs \ {r}, "list", None), {"list"})
    BY FollowsFacts DEF AgentsView
  <2>. QED
    BY <2>1, <2>2
<1>3. ASSUME NEW p \in view'.reqs, p.kind \in {"toggle", "start"} PROVE p \in view.reqs
  BY <1>2, <1>3 DEF Follows
<1>4. DOMAIN free = Agents /\ \A b \in Agents : b # a => free[b] = view.kept[b]
  BY DEF AgentsView
<1> HIDE DEF free
<1>5. AgentsView'
  BY <1>1, <1>2, <1>3, <1>4 DEF AgentsView, Follows
<1>6. ASSUME view'.away \/ a \in view'.blurred \/ \A t \in world.started : t.agent # a
      PROVE  StartedIsKept'
  BY <1>1, <1>4, <1>6 DEF StartedIsKept
<1>7. StartedIsKept'
  <2>1. r.answer = <<"conflict">> /\ a \notin view.blurred => \A t \in world.started : t.agent # a
    BY <1>1 DEF StartsKnown, StartKnown
  <2>. QED
    BY <1>1, <1>6, <2>1
<1>8. r \notin view'.reqs
  <2>1. ASSUME r \in Ask(view.reqs \ {r}, "list", None)
        PROVE  FALSE
    <3>1. Requests(view.reqs \ {r})
      BY FewerRequests DEF AgentsView
    <3>. QED
      BY <1>1, <2>1, <3>1, AskAdds
  <2>. QED
    BY <1>1, <2>1
<1>9. StartsKnown'
  <2>1. SUFFICES ASSUME NEW p \in view'.reqs, p.kind = "start", p.of.agent \notin view'.blurred
                 PROVE  StartKnown(p)'
    BY DEF StartsKnown
  <2>2. p \in view.reqs /\ p # r /\ p.of.agent \notin view.blurred
    BY <1>1, <1>3, <1>8, <2>1
  <2>3. StartKnown(p)
    BY <2>1, <2>2 DEF StartsKnown
  <2>4. p.of.agent # a
    BY <1>1, <2>2, <2>3 DEF StartKnown
  <2>. QED
    BY <1>1, <1>3, <1>4, <2>3, <2>4 DEF StartKnown
<1>10. SeenStep /\ FoundStep
  BY <1>2, NothingAnswered DEF AgentsView
<1>. QED
  BY <1>5, <1>7, <1>9, <1>10

\* What the service carries out for the desk, apart from the starts.
LEMMA AgentsServed ==
  ASSUME AgentsWorld, AgentsView, StartedIsKept, StartsKnown, ~view.away, NEW r \in view.reqs,
         AgentsTakes(r) \/ ToggleTaken(r) \/ StartTaken(r)
  PROVE  AgentsWorld' /\ AgentsView' /\ StartedIsKept' /\ StartsKnown' /\ SeenStep /\ FoundStep
<1>1. CASE AgentsTakes(r)
  <2>1. r.kind \in AgentKinds /\ \E a : Answered(r, a)
    BY <1>1 DEF AgentsTakes, AgentsTaken, TasksTaken, DetailTaken, BatchTaken, UnlockTaken, SaveTaken,
           StaleTaken, ResetTaken, ReassignTaken, AgentKinds
  <2>2. DOMAIN world' = DOMAIN world /\ world'.started = world.started
    BY <1>1 DEF AgentsTakes, AgentsTaken, TasksTaken, DetailTaken, BatchTaken, UnlockTaken, SaveTaken,
           StaleTaken, ResetTaken, ReassignTaken, AgentsWorld
  <2>3. AgentsWorld'
    BY <2>2 DEF AgentsWorld
  <2>. QED
    BY <2>1, <2>2, <2>3, AgentsAnswered DEF AgentKinds
<1>2. CASE ToggleTaken(r)
  <2>1. PICK a : /\ r.kind = "toggle" /\ Answered(r, a)
                 /\ a = "ok" => world.acc[r.of.agent].version = r.of.version
    BY <1>2 DEF ToggleTaken
  <2>2. DOMAIN world' = DOMAIN world /\ world'.started = world.started
    BY <1>2 DEF ToggleTaken, AgentsWorld
  <2>3. AgentsWorld'
    BY <2>2 DEF AgentsWorld
  <2>. QED
    BY <2>1, <2>2, <2>3, AgentsAnswered
<1>3. CASE StartTaken(r)
  <2>1. PICK a : /\ r.kind = "start" /\ Answered(r, a)
                 /\ a = "conflict" => \A t \in world.started : t.key # r.of.request.key
                 /\ \/ world' = world
                    \/ /\ a = "ok" /\ DOMAIN world' = DOMAIN world
                       /\ world'.started = world.started \cup {[agent |-> r.of.agent, key |-> r.of.request.key]}
    BY <1>3 DEF StartTaken, AgentsWorld
  <2>2. AgentsWorld'
    BY <2>1 DEF AgentsWorld
  <2>. QED
    BY <2>1, <2>2, AgentsAnswered
<1>. QED
  BY <1>1, <1>2, <1>3

\* A step of the desk keeps its invariant, changes what was seen, and finds the
\* starts there were.
LEMMA AgentsStep ==
  ASSUME AgentsHeld, page = "agents", AgentsNext
  PROVE  AgentsHeld' /\ SeenStep /\ FoundStep
<1>1. AgentsWorld /\ AgentsView /\ StartedIsKept /\ StartsKnown /\ page' = page
  BY AgentsMoves DEF AgentsHeld
<1>. SUFFICES AgentsWorld' /\ AgentsView' /\ StartedIsKept' /\ StartsKnown' /\ SeenStep /\ FoundStep
  BY DEF AgentsHeld
<1>2. CASE AgentsClicks
  BY <1>1, <1>2, AgentsClicked, AgentsQuiet DEF AgentsWorld
<1>3. ASSUME ~view.away, NEW r \in view.reqs, AgentsTold(r)
      PROVE  AgentsWorld' /\ AgentsView' /\ StartedIsKept' /\ StartsKnown' /\ SeenStep /\ FoundStep
  BY <1>1, <1>3, AgentsAnswers, AgentsQuiet DEF AgentsWorld
<1>4. CASE AgentsOthers
  <2>1. view' = view /\ DOMAIN world' = DOMAIN world /\ world'.started = world.started
    BY <1>1, <1>4 DEF AgentsOthers, OthersToggle, OthersStart, OthersAssign, AgentsWorld
  <2>2. AgentsPass
    BY <1>1, <2>1, FollowsFacts DEF AgentsPass, AgentsView
  <2>. QED
    BY <1>1, <2>1, <2>2, AgentsQuiet DEF AgentsWorld
<1>5. ASSUME NEW a, NEW acc, Resume(a, acc)
      PROVE  AgentsWorld' /\ AgentsView' /\ StartedIsKept' /\ StartsKnown' /\ SeenStep /\ FoundStep
  <2>1. view' = Toggled(view, a, acc) /\ world' = world
    BY <1>5 DEF Resume, Click
  <2>. QED
    BY <1>1, <2>1, AgentsToggles DEF AgentsWorld, AgentsView
<1>6. CASE ConfirmYes
  <2> DEFINE v == [view EXCEPT !.asking = None]
             q == view.asking
  <2>1. /\ ~view.away /\ q # None /\ world' = world
        /\ view' = CASE q.what = "suspend" -> Toggled(v, q.agent, q.acc)
                     [] q.what = "start" -> Started(v, q.agent, q.acc)
                     [] q.what = "reset" -> Send(v, "reset", q.agent)
    BY <1>6 DEF ConfirmYes, Click
  <2>2. q.agent \in Agents /\ q.what \in {"suspend", "start", "reset"}
    BY <1>1, <2>1 DEF AgentsView
  <2>3. /\ DOMAIN v = DOMAIN view /\ v.reqs = view.reqs /\ v.kept = view.kept /\ v.blurred = view.blurred
        /\ v.away = view.away /\ v.asking = None
    BY <1>1 DEF AgentsView
  <2>4. CASE q.what = "suspend"
    <3>1. view' = Toggled(v, q.agent, q.acc)
      BY <2>1, <2>4
    <3>2. {"reqs", "kept", "away", "blurred", "asking"} \subseteq DOMAIN v
      BY <1>1, <2>3 DEF AgentsView
    <3> HIDE DEF v
    <3>. QED
      BY <1>1, <2>1, <2>3, <3>1, <3>2, AgentsToggles DEF AgentsWorld
  <2>5. CASE q.what = "start"
    <3>1. view' = Started(v, q.agent, q.acc)
      BY <2>1, <2>5
    <3>. QED
      BY <1>1, <2>1, <2>2, <3>1, AgentsStarts DEF AgentsWorld
  <2>6. CASE q.what = "reset"
    <3>1. view' = Send(v, "reset", q.agent)
      BY <2>1, <2>6
    <3>2. /\ view'.reqs = Ask(view.reqs, "reset", q.agent) /\ DOMAIN view' = DOMAIN view
          /\ view'.kept = view.kept /\ view'.blurred = view.blurred /\ view'.away = view.away
          /\ view'.asking = None
      BY <1>1, <3>1 DEF Send, AgentsView
    <3>3. Follows(view.reqs, view'.reqs, AgentKinds)
      BY <1>1, <3>2, FollowsFacts DEF AgentsView, AgentKinds
    <3>4. AgentsPass
      BY <3>2, <3>3 DEF AgentsPass
    <3>. QED
      BY <1>1, <2>1, <3>4, AgentsQuiet DEF AgentsWorld
  <2>. QED
    BY <2>2, <2>4, <2>5, <2>6
<1>7. ASSUME ~view.away, NEW r \in view.reqs, AgentsTakes(r) \/ ToggleTaken(r) \/ StartTaken(r)
      PROVE  AgentsWorld' /\ AgentsView' /\ StartedIsKept' /\ StartsKnown' /\ SeenStep /\ FoundStep
  BY <1>1, <1>7, AgentsServed
<1>8. ASSUME ~view.away, NEW r \in view.reqs, StartShown(r) \/ StartRefused(r) \/ StartCutShort(r)
      PROVE  AgentsWorld' /\ AgentsView' /\ StartedIsKept' /\ StartsKnown' /\ SeenStep /\ FoundStep
  <2>1. world' = world
    BY <1>8 DEF StartShown, StartRefused, StartCutShort, Came, Failed, Told
  <2>. QED
    BY <1>1, <1>8, <2>1, AgentsEnds DEF AgentsWorld
<1>. QED
  BY <1>2, <1>3, <1>4, <1>5, <1>6, <1>7, <1>8, AgentsSteps

-----------------------------------------------------------------------------
(* The leads: what the question named is assigned. *)

FormKinds == {"create", "import", "edit", "enroll"}

\* What is relied on of the page.
LeadsView ==
  /\ {"reqs", "forms", "asking"} \subseteq DOMAIN view /\ Requests(view.reqs)
  /\ \A f \in view.forms : f.what \in FormKinds

\* The invariant of the desk.
LeadsHeld == page = "leads" => LeadsView

\* What is assigned is what the question was about.
NamedStep ==
  \A r \in view'.reqs \ view.reqs :
    r.kind = "change" /\ r.of.what = "assign" /\ r.answer = <<>> => r.of = view.asking

\* S is what R becomes by answers that are taken in and requests that assign nothing.
NotAssigns(R, S) ==
  Requests(S) /\ \A q \in S \ R : q.answer = <<>> /\ (q.kind = "change" => q.of.what # "assign")

\* A page that holds what the desk's does, and has no other forms.
LikeLeads(v) == DOMAIN v = DOMAIN view /\ \A f \in v.forms : f.what \in FormKinds

\* Sending one request, or two, after an answer is taken in.
LEMMA NotAssignsFacts ==
  ASSUME NEW R, Requests(R)
  PROVE  /\ NotAssigns(R, R)
         /\ \A r : NotAssigns(R, R \ {r})
         /\ \A S : NotAssigns(R, S)
                  => \A kind, of : (kind = "change" => of.what # "assign") => NotAssigns(R, Ask(S, kind, of))
<1>1. ASSUME NEW r PROVE NotAssigns(R, R \ {r})
  BY FewerRequests DEF NotAssigns
<1>2. ASSUME NEW S, NotAssigns(R, S), NEW kind, NEW of, kind = "change" => of.what # "assign"
      PROVE  NotAssigns(R, Ask(S, kind, of))
  <2>1. /\ Ask(S, kind, of) = S \cup {NewRequest(S, kind, of)} /\ Requests(Ask(S, kind, of))
        /\ NewRequest(S, kind, of).kind = kind /\ NewRequest(S, kind, of).of = of
        /\ NewRequest(S, kind, of).answer = <<>>
    BY <1>2, AskAdds DEF NotAssigns
  <2>. QED
    BY <1>2, <2>1 DEF NotAssigns
<1>. QED
  BY <1>1, <1>2 DEF NotAssigns

\* A load of the list, or of the unfolded row, assigns nothing.
LEMMA LeadsLoads ==
  ASSUME NEW v, "reqs" \in DOMAIN v, "forms" \in DOMAIN v, LikeLeads(v), NEW R, Requests(R), NotAssigns(R, v.reqs)
  PROVE  /\ \A q : LikeLeads(FetchStudents(v, q)) /\ NotAssigns(R, FetchStudents(v, q).reqs)
         /\ \A p, force : LikeLeads(LoadExpandData(v, p, force)) /\ NotAssigns(R, LoadExpandData(v, p, force).reqs)
         /\ \A p : LikeLeads(RefreshExpand(v, p)) /\ NotAssigns(R, RefreshExpand(v, p).reqs)
<1>1. ASSUME NEW q
      PROVE  LikeLeads(FetchStudents(v, q)) /\ NotAssigns(R, FetchStudents(v, q).reqs)
  <2>1. /\ FetchStudents(v, q).reqs = Ask(v.reqs, "students", q)
        /\ DOMAIN FetchStudents(v, q) = DOMAIN v /\ FetchStudents(v, q).forms = v.forms
    BY DEF FetchStudents, SendLead
  <2>. QED
    BY <2>1, NotAssignsFacts DEF LikeLeads
<1>2. ASSUME NEW p, NEW force
      PROVE  LikeLeads(LoadExpandData(v, p, force)) /\ NotAssigns(R, LoadExpandData(v, p, force).reqs)
  <2> DEFINE told == [v EXCEPT !.panels[p].is = "loading"]
             w == IF force \/ v.panels[p].is \in {"none", "error"} THEN told ELSE v
  <2>2. LoadExpandData(v, p, force) = SendLead(w, "panel", p)
    BY DEF LoadExpandData
  <2>3. told.reqs = v.reqs /\ told.forms = v.forms /\ DOMAIN told = DOMAIN v
    OBVIOUS
  <2> HIDE DEF told
  <2>4. w.reqs = v.reqs /\ w.forms = v.forms /\ DOMAIN w = DOMAIN v
    BY <2>3
  <2> HIDE DEF w
  <2>1. /\ LoadExpandData(v, p, force).reqs = Ask(v.reqs, "panel", p)
        /\ DOMAIN LoadExpandData(v, p, force) = DOMAIN v /\ LoadExpandData(v, p, force).forms = v.forms
    BY <2>2, <2>4 DEF SendLead
  <2>. QED
    BY <2>1, NotAssignsFacts DEF LikeLeads
<1>. QED
  BY <1>1, <1>2 DEF RefreshExpand

\* A step that assigns nothing keeps the invariant.
LEMMA LeadsQuiet ==
  ASSUME LeadsView, NotAssigns(view.reqs, view'.reqs), LikeLeads(view')
  PROVE  LeadsView' /\ NamedStep
  BY DEF LeadsView, NotAssigns, LikeLeads, NamedStep

\* The clicks that send nothing.
LeadsStill ==
  \/ \E g \in Regions : TypeSearch(g) \/ ChooseSchool(g)
  \/ \E p \in Pupils :
       ToggleSel(p) \/ RequestDelete(p) \/ RequestInvalidateEnrolled(p) \/ TypeNote(p) \/ OpenEnrollment(p)
  \/ \E f \in view.forms : CloseLeadForm(f)
  \/ \E a \in Callers : ChooseAgent(a) \/ ToggleAgent(a)
  \/ ToggleAll \/ OpenAssign \/ CloseAssign \/ HandleAssign \/ OpenCreate \/ OpenImport \/ CloseDispatch
  \/ SchoolAssign

\* The clicks that load something.
LeadsLoad ==
  \/ \E s \in {"all", "open", "invalid"} : SetStatus(s) \/ StageBar(s)
  \/ \E g \in Regions : ToggleRegion(g)
  \/ \E n \in 1 .. 2 : TurnPage(n)
  \/ \E p \in Pupils : ToggleExpand(p) \/ ReloadPanel(p) \/ OpenEditStudent(p)
  \/ HandleSearch \/ ClearSearch \/ ClearAllFilters \/ HandleRegionAssign \/ CancelChange

\* The clicks that change leads without a question.
LeadsChange ==
  \/ \E p \in Pupils :
       \/ QuickStage(p) \/ QuickIntent(p) \/ AddNote(p) \/ AddFollowUp(p) \/ CreateHomeVisitTask(p)
       \/ CreateCampusVisitTask(p) \/ HandleSubstageChange(p) \/ ToggleNeedHelp(p)
       \/ \E s \in {"open", "invalid"} : QuickStatus(p, s)
       \/ \E a \in Callers : HandleAssignAgent(p, a)
  \/ \E f \in view.forms : SubmitForm(f)

\* The answers that come, and those that do not.
LeadsTold(r) ==
  \/ StudentsShown(r) \/ StudentsFail(r) \/ PanelShown(r) \/ PanelFails(r) \/ PhonesShown(r) \/ PhonesFail(r)
  \/ ChangeDone(r) \/ ChangeFails(r) \/ RegionsShown(r) \/ RegionsFail(r) \/ SchoolsShown(r) \/ SchoolsFail(r)
  \/ DispatchDone(r) \/ DispatchFails(r)

\* What the service does for the desk.
LeadsTakes(r) ==
  \/ StudentsTaken(r) \/ PanelTaken(r) \/ PhonesTaken(r) \/ ChangeTaken(r) \/ ChangeRefused(r)
  \/ RegionsTaken(r) \/ SchoolsTaken(r) \/ DispatchTaken(r)

\* The steps of the desk.
LEMMA LeadsSteps ==
  ASSUME LeadsNext
  PROVE  \/ LeadsStill \/ LeadsLoad \/ LeadsChange \/ ConfirmChange
         \/ \E p \in Pupils : OthersEnroll(p)
         \/ \E r \in view.reqs : LeadsTold(r) \/ LeadsTakes(r)
  BY DEF LeadsNext, LeadsStill, LeadsLoad, LeadsChange, LeadsTold, LeadsTakes

\* None of them leaves the page.
LEMMA LeadsMoves ==
  ASSUME LeadsNext
  PROVE  page' = page
<1>1. ASSUME LeadsStill PROVE page' = page
  BY <1>1 DEF LeadsStill, TypeSearch, ChooseSchool, ToggleSel, RequestDelete, RequestInvalidateEnrolled,
         TypeNote, OpenEnrollment, CloseLeadForm, ChooseAgent, ToggleAgent, ToggleAll, OpenAssign,
         CloseAssign, HandleAssign, OpenCreate, OpenImport, CloseDispatch, SchoolAssign, Click
<1>2. ASSUME LeadsLoad PROVE page' = page
  BY <1>2 DEF LeadsLoad, SetStatus, StageBar, ToggleRegion, TurnPage, ToggleExpand, ReloadPanel,
         OpenEditStudent, HandleSearch, ClearSearch, ClearAllFilters, HandleRegionAssign, CancelChange, Click
<1>3. ASSUME LeadsChange PROVE page' = page
  BY <1>3 DEF LeadsChange, QuickStage, QuickIntent, AddNote, AddFollowUp, CreateHomeVisitTask,
         CreateCampusVisitTask, Guarded, HandleSubstageChange, ToggleNeedHelp, QuickStatus,
         HandleAssignAgent, SubmitForm, Click
<1>4. ASSUME NEW r, LeadsTold(r) PROVE page' = page
  BY <1>4 DEF LeadsTold, StudentsShown, StudentsFail, PanelShown, PanelFails, PhonesShown, PhonesFail,
         ChangeDone, ChangeFails, RegionsShown, RegionsFail, SchoolsShown, SchoolsFail, DispatchDone,
         DispatchFails, Came, Failed, Told
<1>5. ASSUME NEW r, LeadsTakes(r) PROVE page' = page
  BY <1>5 DEF LeadsTakes, StudentsTaken, PanelTaken, PhonesTaken, ChangeTaken, ChangeRefused,
         RegionsTaken, SchoolsTaken, DispatchTaken, Answered, Served
<1>6. ASSUME ConfirmChange \/ \E p \in Pupils : OthersEnroll(p) PROVE page' = page
  BY <1>6 DEF ConfirmChange, OthersEnroll, Click, Elsewhere
<1>. QED
  BY <1>1, <1>2, <1>3, <1>4, <1>5, <1>6, LeadsSteps

\* A click that sends nothing.
LEMMA LeadsStillStep ==
  ASSUME LeadsView, LeadsStill
  PROVE  view'.reqs = view.reqs /\ LikeLeads(view')
<1>1. ASSUME \/ \E p \in Pupils : RequestDelete(p) \/ RequestInvalidateEnrolled(p)
             \/ HandleAssign \/ SchoolAssign
      PROVE  view'.reqs = view.reqs /\ LikeLeads(view')
  <2>1. PICK of : view' = [view EXCEPT !.asking = of]
    BY <1>1 DEF RequestDelete, RequestInvalidateEnrolled, HandleAssign, SchoolAssign, AskFirst
  <2>. QED
    BY <2>1 DEF LeadsView, LikeLeads
<1>2. ASSUME \/ \E g \in Regions : TypeSearch(g) \/ ChooseSchool(g)
             \/ \E p \in Pupils : ToggleSel(p) \/ TypeNote(p)
             \/ \E a \in Callers : ChooseAgent(a) \/ ToggleAgent(a)
             \/ ToggleAll \/ OpenAssign \/ CloseAssign \/ CloseDispatch
      PROVE  view'.reqs = view.reqs /\ LikeLeads(view')
  <2>1. view'.reqs = view.reqs /\ view'.forms = view.forms /\ DOMAIN view' = DOMAIN view
    BY <1>2 DEF TypeSearch, ChooseSchool, ToggleSel, TypeNote, ChooseAgent, ToggleAgent, ToggleAll,
           OpenAssign, CloseAssign, CloseDispatch, LeadsView
  <2>. QED
    BY <2>1 DEF LeadsView, LikeLeads
<1>3. ASSUME \/ \E p \in Pupils : OpenEnrollment(p)
             \/ \E f \in view.forms : CloseLeadForm(f)
             \/ OpenCreate \/ OpenImport
      PROVE  view'.reqs = view.reqs /\ LikeLeads(view')
  <2>1. PICK forms : view' = [view EXCEPT !.forms = forms] /\ \A f \in forms : f.what \in FormKinds
    BY <1>3 DEF OpenEnrollment, CloseLeadForm, OpenCreate, OpenImport, Form, FormKinds, LeadsView
  <2>. QED
    BY <2>1 DEF LeadsView, LikeLeads
<1>. QED
  BY <1>1, <1>2, <1>3 DEF LeadsStill

\* A click that loads something.
LEMMA LeadsLoadStep ==
  ASSUME LeadsView, LeadsLoad
  PROVE  NotAssigns(view.reqs, view'.reqs) /\ LikeLeads(view')
<1> DEFINE Like(v) == "reqs" \in DOMAIN v /\ "forms" \in DOMAIN v /\ LikeLeads(v) /\ v.reqs = view.reqs
           Goal == NotAssigns(view.reqs, view'.reqs) /\ LikeLeads(view')
<1>1. ASSUME NEW v, Like(v), NEW q, view' = FetchStudents(v, q)
      PROVE  Goal
  BY <1>1, NotAssignsFacts, LeadsLoads DEF LeadsView
<1>2. ASSUME NEW v, Like(v), NEW p, NEW force, view' = LoadExpandData(v, p, force)
      PROVE  Goal
  BY <1>2, NotAssignsFacts, LeadsLoads DEF LeadsView
<1>3. ASSUME \/ \E s \in {"all", "open", "invalid"} : SetStatus(s) \/ StageBar(s)
             \/ \E n \in 1 .. 2 : TurnPage(n)
             \/ HandleSearch \/ ClearSearch
      PROVE  Goal
  <2> DEFINE paged(n) == [view EXCEPT !.page = n]
             cleared == [view EXCEPT !.search = "", !.page = 1]
             filtered(s) == [view EXCEPT !.status = s, !.page = 1]
  <2>1. (\A n : Like(paged(n))) /\ Like(cleared) /\ \A s : Like(filtered(s))
    BY DEF LeadsView, LikeLeads
  <2>2. \E q : \/ view' = FetchStudents(cleared, q)
              \/ \E n : view' = FetchStudents(paged(n), q)
              \/ \E s : view' = FetchStudents(filtered(s), q)
    <3>1. ASSUME NEW s, SetStatus(s) \/ StageBar(s) PROVE \E q : view' = FetchStudents(filtered(s), q)
      BY <3>1 DEF SetStatus, StageBar
    <3>2. ASSUME NEW n, TurnPage(n) PROVE \E q : view' = FetchStudents(paged(n), q)
      BY <3>2 DEF TurnPage
    <3>3. ASSUME HandleSearch PROVE \E q : view' = FetchStudents(paged(1), q)
      BY <3>3 DEF HandleSearch
    <3>4. ASSUME ClearSearch PROVE \E q : view' = FetchStudents(cleared, q)
      BY <3>4 DEF ClearSearch
    <3> HIDE DEF paged, cleared, filtered
    <3>. QED
      BY <1>3, <3>1, <3>2, <3>3, <3>4
  <2> HIDE DEF paged, cleared, filtered
  <2>. QED
    BY <1>1, <2>1, <2>2
<1>4. CASE ClearAllFilters
  <2> DEFINE v == [view EXCEPT !.search = "", !.status = "all", !.page = 1]
             cleared == FetchStudents(v, Query(v, 1))
  <2>1. Like(v)
    BY DEF LeadsView, LikeLeads
  <2>2. view' = cleared \/ \E q : view' = FetchStudents(cleared, q)
    BY <1>4 DEF ClearAllFilters
  <2> HIDE DEF v
  <2>3. LikeLeads(cleared) /\ NotAssigns(view.reqs, cleared.reqs)
    BY <2>1, NotAssignsFacts, LeadsLoads DEF LeadsView
  <2> HIDE DEF cleared
  <2>4. "reqs" \in DOMAIN cleared /\ "forms" \in DOMAIN cleared
    BY <2>3 DEF LikeLeads, LeadsView
  <2>. QED
    BY <2>2, <2>3, <2>4, LeadsLoads DEF LeadsView
<1>5. CASE CancelChange
  <2> DEFINE v == [view EXCEPT !.asking = None]
  <2>1. Like(v)
    BY DEF LeadsView, LikeLeads
  <2>2. view' = v \/ \E q : view' = FetchStudents(v, q)
    BY <1>5 DEF CancelChange
  <2> HIDE DEF v
  <2>. QED
    BY <1>1, <2>1, <2>2, NotAssignsFacts DEF LeadsView
<1>6. ASSUME NEW p \in Pupils, ToggleExpand(p) \/ ReloadPanel(p)
      PROVE  Goal
  <2> DEFINE open == [view EXCEPT !.unfolded = p]
             shut == [view EXCEPT !.unfolded = None]
  <2>1. Like(open) /\ Like(shut) /\ Like(view)
    BY DEF LeadsView, LikeLeads
  <2>2. view' = shut \/ view' = open \/ view' = LoadExpandData(open, p, FALSE) \/ view' = LoadExpandData(view, p, FALSE)
    BY <1>6 DEF ToggleExpand, ReloadPanel
  <2> HIDE DEF open, shut
  <2>. QED
    BY <1>2, <2>1, <2>2, NotAssignsFacts DEF LeadsView
<1>7. ASSUME \/ \E p \in Pupils : OpenEditStudent(p)
             \/ \E g \in Regions : ToggleRegion(g)
             \/ HandleRegionAssign
      PROVE  Goal
  <2>1. /\ \/ view'.reqs = view.reqs
           \/ \E kind \in {"phones", "schools", "regions"} : \E of : view'.reqs = Ask(view.reqs, kind, of)
        /\ view'.forms = view.forms /\ DOMAIN view' = DOMAIN view
    <3>1. ASSUME NEW p, OpenEditStudent(p)
          PROVE  view'.reqs = Ask(view.reqs, "phones", p) /\ view'.forms = view.forms /\ DOMAIN view' = DOMAIN view
      BY <3>1 DEF OpenEditStudent, SendLead, LeadsView
    <3>2. ASSUME NEW g, ToggleRegion(g)
          PROVE  /\ view'.reqs = view.reqs \/ \E of : view'.reqs = Ask(view.reqs, "schools", of)
                 /\ view'.forms = view.forms /\ DOMAIN view' = DOMAIN view
      BY <3>2 DEF ToggleRegion, SendLead, LeadsView
    <3>3. ASSUME HandleRegionAssign
          PROVE  view'.reqs = Ask(view.reqs, "regions", None) /\ view'.forms = view.forms /\ DOMAIN view' = DOMAIN view
      BY <3>3 DEF HandleRegionAssign, SendLead, LeadsView
    <3>. QED
      BY <1>7, <3>1, <3>2, <3>3
  <2>. QED
    BY <2>1, NotAssignsFacts DEF LeadsView, LikeLeads
<1>. QED
  BY <1>3, <1>4, <1>5, <1>6, <1>7 DEF LeadsLoad

\* A click that changes leads without a question assigns none of those ticked.
LEMMA LeadsChangeStep ==
  ASSUME LeadsView, LeadsChange
  PROVE  NotAssigns(view.reqs, view'.reqs) /\ LikeLeads(view')
<1> DEFINE Goal == NotAssigns(view.reqs, view'.reqs) /\ LikeLeads(view')
           Small == {"detail", "note", "follow_up", "home", "campus", "assign_one"} \cup FormKinds
<1>1. ASSUME NEW of, of.what \in Small, view'.reqs = Ask(view.reqs, "change", of),
             view'.forms = view.forms, DOMAIN view' = DOMAIN view
      PROVE  Goal
  <2>1. of.what # "assign"
    BY <1>1 DEF FormKinds
  <2>. QED
    BY <1>1, <2>1, NotAssignsFacts DEF LeadsView, LikeLeads
<1>2. ASSUME NEW what \in Small, NEW p, view' = SendLead(view, "change", Change(view, what, {p}))
      PROVE  Goal
  <2>1. /\ view'.reqs = Ask(view.reqs, "change", Change(view, what, {p}))
        /\ view'.forms = view.forms /\ DOMAIN view' = DOMAIN view
    BY <1>2 DEF SendLead, LeadsView
  <2>2. Change(view, what, {p}).what = what
    BY DEF Change
  <2>. QED
    BY <1>1, <2>1, <2>2
<1>3. ASSUME NEW p, QuickStage(p) \/ QuickIntent(p) \/ AddNote(p) \/ AddFollowUp(p) \/ HandleSubstageChange(p) \/ ToggleNeedHelp(p)
      PROVE  Goal
  <2>1. \E what \in Small : view' = SendLead(view, "change", Change(view, what, {p}))
    BY <1>3 DEF QuickStage, QuickIntent, AddNote, AddFollowUp, HandleSubstageChange, ToggleNeedHelp, Write
  <2>. QED
    BY <1>2, <2>1
<1>4. ASSUME NEW p, CreateHomeVisitTask(p) \/ CreateCampusVisitTask(p)
      PROVE  Goal
  <2>1. PICK what \in {"home", "campus"} :
          view' = SendLead([view EXCEPT !.busy = @ \cup {what}], "change", Change(view, what, {p}))
    BY <1>4 DEF CreateHomeVisitTask, CreateCampusVisitTask, Guarded
  <2>2. /\ view'.reqs = Ask(view.reqs, "change", Change(view, what, {p}))
        /\ view'.forms = view.forms /\ DOMAIN view' = DOMAIN view
    BY <2>1 DEF SendLead, LeadsView
  <2>3. Change(view, what, {p}).what = what
    BY DEF Change
  <2>. QED
    BY <1>1, <2>2, <2>3
<1>5. ASSUME NEW p, NEW s, QuickStatus(p, s)
      PROVE  Goal
  <2>1. CASE s = "invalid"
    <3>1. view' = [view EXCEPT !.asking = Change(view, "invalid", {p})]
      BY <1>5, <2>1 DEF QuickStatus, AskFirst
    <3>2. view'.reqs = view.reqs /\ view'.forms = view.forms /\ DOMAIN view' = DOMAIN view
      BY <3>1 DEF LeadsView
    <3>. QED
      BY <3>2, NotAssignsFacts DEF LeadsView, LikeLeads
  <2>2. CASE s # "invalid"
    BY <1>2, <1>5, <2>2 DEF QuickStatus, Write
  <2>. QED
    BY <2>1, <2>2
<1>6. ASSUME NEW p, NEW a, HandleAssignAgent(p, a)
      PROVE  Goal
  <2> DEFINE of == [Change(view, "assign_one", {p}) EXCEPT !.to = a]
  <2>1. view' = SendLead(view, "change", of)
    BY <1>6 DEF HandleAssignAgent
  <2>2. of.what = "assign_one"
    BY DEF Change
  <2> HIDE DEF of
  <2>3. view'.reqs = Ask(view.reqs, "change", of) /\ view'.forms = view.forms /\ DOMAIN view' = DOMAIN view
    BY <2>1 DEF SendLead, LeadsView
  <2>. QED
    BY <1>1, <2>2, <2>3
<1>7. ASSUME NEW f \in view.forms, SubmitForm(f)
      PROVE  Goal
  <2> DEFINE ids == IF f.of = None THEN {} ELSE {f.of}
             busy == [view EXCEPT !.busy = @ \cup {f.what}]
             of == Change(view, f.what, ids)
  <2>1. view' = SendLead(busy, "change", of) \/ view' = SendLead(view, "change", of)
    BY <1>7 DEF SubmitForm
  <2>2. busy.reqs = view.reqs /\ busy.forms = view.forms /\ DOMAIN busy = DOMAIN view
    BY DEF LeadsView
  <2>3. of.what = f.what /\ f.what \in Small
    BY DEF Change, LeadsView
  <2> HIDE DEF busy, of
  <2>4. view'.reqs = Ask(view.reqs, "change", of) /\ view'.forms = view.forms /\ DOMAIN view' = DOMAIN view
    BY <2>1, <2>2 DEF SendLead, LeadsView
  <2>. QED
    BY <1>1, <2>3, <2>4
<1>. QED
  BY <1>3, <1>4, <1>5, <1>6, <1>7 DEF LeadsChange

\* What is made of an answer to a change assigns nothing.
LEMMA LeadsDone ==
  ASSUME LeadsView, NEW v, LikeLeads(v), NotAssigns(view.reqs, v.reqs), NEW of
  PROVE  NotAssigns(view.reqs, Done(v, of).reqs) /\ LikeLeads(Done(v, of))
<1> DEFINE Like(w) == "reqs" \in DOMAIN w /\ "forms" \in DOMAIN w /\ LikeLeads(w) /\ NotAssigns(view.reqs, w.reqs)
           closed == CASE of.what \in {"create", "edit", "enroll"} ->
                            [v EXCEPT !.forms = {f \in @ : f.what # of.what}]
                       [] of.what = "assign" -> [v EXCEPT !.assign = None]
                       [] of.what = "note" -> [v EXCEPT !.note = @ \ of.ids]
                       [] of.what \in {"delete", "invalidate"} /\ of.panel \in of.ids -> [v EXCEPT !.unfolded = None]
                       [] OTHER -> v
           loaded == IF of.what \in {"note", "follow_up"} THEN closed ELSE FetchStudents(closed, of.query)
           fresh == IF of.what \in {"follow_up", "delete", "invalidate", "create", "import"} THEN loaded
                    ELSE RefreshExpand(loaded, of.panel)
           done == [fresh EXCEPT !.busy = @ \ {of.what}, !.away = of.what \in {"home", "campus"}]
<1>1. Done(v, of) = done
  BY DEF Done
<1>2. Like(v)
  BY DEF LikeLeads, LeadsView
<1>3. Like([v EXCEPT !.forms = {f \in @ : f.what # of.what}])
  BY <1>2 DEF LikeLeads
<1>4. Like([v EXCEPT !.assign = None]) /\ Like([v EXCEPT !.note = @ \ of.ids]) /\ Like([v EXCEPT !.unfolded = None])
  BY <1>2 DEF LikeLeads
<1>5. Like(closed)
  BY <1>2, <1>3, <1>4
<1> HIDE DEF closed
<1>6. ASSUME NEW w, Like(w), NEW x, x = FetchStudents(w, of.query) \/ x = RefreshExpand(w, of.panel)
      PROVE  Like(x)
  <2>1. LikeLeads(x) /\ NotAssigns(view.reqs, x.reqs)
    BY <1>6, LeadsLoads DEF LeadsView
  <2>. QED
    BY <2>1 DEF LikeLeads, LeadsView
<1>7. Like(loaded)
  BY <1>5, <1>6
<1> HIDE DEF loaded
<1>8. Like(fresh)
  BY <1>6, <1>7
<1> HIDE DEF fresh
<1>9. Like(done)
  BY <1>8 DEF LikeLeads
<1>. QED
  BY <1>1, <1>9

\* The answers that come, and those that do not, assign nothing.
LEMMA LeadsToldStep ==
  ASSUME LeadsView, NEW r \in view.reqs, LeadsTold(r)
  PROVE  NotAssigns(view.reqs, view'.reqs) /\ LikeLeads(view')
<1> DEFINE Goal == NotAssigns(view.reqs, view'.reqs) /\ LikeLeads(view')
           left == Without(view, r)
<1>1. left.reqs = view.reqs \ {r} /\ left.forms = view.forms /\ DOMAIN left = DOMAIN view
  BY DEF Without, LeadsView
<1>2. NotAssigns(view.reqs, view.reqs \ {r})
  BY NotAssignsFacts DEF LeadsView
<1> HIDE DEF left
<1>3. ASSUME \/ StudentsShown(r) \/ StudentsFail(r) \/ PanelShown(r) \/ PanelFails(r) \/ PhonesFail(r)
             \/ ChangeFails(r) \/ RegionsShown(r) \/ RegionsFail(r) \/ SchoolsShown(r) \/ SchoolsFail(r)
             \/ DispatchFails(r)
      PROVE  Goal
  <2>1. view'.reqs = left.reqs /\ view'.forms = left.forms /\ DOMAIN view' = DOMAIN left
    BY <1>1, <1>3 DEF StudentsShown, StudentsFail, ListShown, PanelShown, PanelFails, PhonesFail, ChangeFails,
           RegionsShown, RegionsFail, SchoolsShown, SchoolsFail, DispatchFails, left, LeadsView
  <2>. QED
    BY <1>1, <1>2, <2>1 DEF LikeLeads, LeadsView
<1>4. CASE PhonesShown(r)
  <2> DEFINE forms == {f \in view.forms : f.what # "edit"} \cup {Form("edit", r.of, None)}
  <2>1. view' = [left EXCEPT !.forms = forms]
    BY <1>1, <1>4 DEF PhonesShown, left
  <2>2. \A f \in forms : f.what \in FormKinds
    BY DEF Form, FormKinds, LeadsView
  <2> HIDE DEF forms
  <2>3. view'.reqs = left.reqs /\ view'.forms = forms /\ DOMAIN view' = DOMAIN left
    BY <1>1, <2>1 DEF LeadsView
  <2>. QED
    BY <1>1, <1>2, <2>2, <2>3 DEF LikeLeads
<1>5. CASE ChangeDone(r)
  <2>1. view' = Done(left, r.of)
    BY <1>5 DEF ChangeDone, left
  <2>2. LikeLeads(left)
    BY <1>1 DEF LikeLeads, LeadsView
  <2>. QED
    BY <1>1, <1>2, <2>1, <2>2, LeadsDone
<1>6. CASE DispatchDone(r)
  <2> DEFINE shut == [left EXCEPT !.dispatch.open = FALSE]
             loaded == FetchStudents(shut, r.of.query)
  <2>1. view' = RefreshExpand(loaded, r.of.panel)
    BY <1>6 DEF DispatchDone, left
  <2>2. /\ "reqs" \in DOMAIN shut /\ "forms" \in DOMAIN shut /\ LikeLeads(shut)
        /\ NotAssigns(view.reqs, shut.reqs)
    BY <1>1, <1>2 DEF LikeLeads, LeadsView
  <2> HIDE DEF shut
  <2>3. LikeLeads(loaded) /\ NotAssigns(view.reqs, loaded.reqs)
    BY <2>2, LeadsLoads DEF LeadsView
  <2> HIDE DEF loaded
  <2>4. "reqs" \in DOMAIN loaded /\ "forms" \in DOMAIN loaded
    BY <2>3 DEF LikeLeads, LeadsView
  <2>. QED
    BY <2>1, <2>3, <2>4, LeadsLoads DEF LeadsView
<1>. QED
  BY <1>3, <1>4, <1>5, <1>6 DEF LeadsTold

\* A step of the desk keeps its invariant, and assigns what was named.
LEMMA LeadsStep ==
  ASSUME LeadsHeld, page = "leads", LeadsNext
  PROVE  LeadsHeld' /\ NamedStep
<1>1. LeadsView /\ page' = page
  BY LeadsMoves DEF LeadsHeld
<1>. SUFFICES LeadsView' /\ NamedStep
  BY DEF LeadsHeld
<1>2. ASSUME \/ LeadsStill \/ LeadsLoad \/ LeadsChange \/ \E r \in view.reqs : LeadsTold(r)
             \/ \E p \in Pupils : OthersEnroll(p)
      PROVE  LeadsView' /\ NamedStep
  <2>1. CASE LeadsStill
    <3>1. view'.reqs = view.reqs /\ LikeLeads(view')
      BY <1>1, <2>1, LeadsStillStep
    <3>2. NotAssigns(view.reqs, view'.reqs)
      BY <1>1, <3>1, NotAssignsFacts DEF LeadsView
    <3>. QED
      BY <1>1, <3>1, <3>2, LeadsQuiet
  <2>2. CASE \E p \in Pupils : OthersEnroll(p)
    <3>1. view' = view
      BY <2>2 DEF OthersEnroll
    <3>2. NotAssigns(view.reqs, view'.reqs) /\ LikeLeads(view')
      BY <1>1, <3>1, NotAssignsFacts DEF LeadsView, LikeLeads
    <3>. QED
      BY <1>1, <3>2, LeadsQuiet
  <2>3. CASE LeadsLoad \/ LeadsChange \/ \E r \in view.reqs : LeadsTold(r)
    BY <1>1, <2>3, LeadsLoadStep, LeadsChangeStep, LeadsToldStep, LeadsQuiet
  <2>. QED
    BY <1>2, <2>1, <2>2, <2>3
<1>3. CASE ConfirmChange
  <2> DEFINE kind == IF view.asking.what = "dispatch" THEN "dispatch" ELSE "change"
             of == view.asking
             q == NewRequest(view.reqs, kind, of)
  <2>1. view' = SendLead([view EXCEPT !.asking = None], kind, of)
    BY <1>3 DEF ConfirmChange, Said
  <2> HIDE DEF kind
  <2>2. view'.reqs = Ask(view.reqs, kind, of) /\ view'.forms = view.forms /\ DOMAIN view' = DOMAIN view
    BY <1>1, <2>1 DEF SendLead, LeadsView
  <2>3. Requests(view'.reqs) /\ view'.reqs = view.reqs \cup {q} /\ q.of = of
    BY <1>1, <2>2, AskAdds DEF LeadsView
  <2> HIDE DEF q
  <2>. QED
    BY <1>1, <2>2, <2>3 DEF LeadsView, NamedStep
<1>4. ASSUME NEW r \in view.reqs, LeadsTakes(r)
      PROVE  LeadsView' /\ NamedStep
  <2>1. PICK a : Answered(r, a)
    BY <1>4 DEF LeadsTakes, StudentsTaken, PanelTaken, PhonesTaken, ChangeTaken, ChangeRefused,
           RegionsTaken, SchoolsTaken, DispatchTaken
  <2>2. /\ view' = [view EXCEPT !.reqs = (view.reqs \ {r}) \cup {WithAnswer(r, a)}]
        /\ view'.reqs = (view.reqs \ {r}) \cup {WithAnswer(r, a)} /\ DOMAIN view' = DOMAIN view
        /\ Requests(view'.reqs) /\ WithAnswer(r, a).answer = <<a>>
    BY <1>1, <2>1, AnsweredStep DEF LeadsView
  <2>3. view'.forms = view.forms
    BY <1>1, <2>2 DEF LeadsView
  <2>. QED
    BY <1>1, <2>2, <2>3, OneIsNotNone DEF LeadsView, NamedStep
<1>. QED
  BY <1>2, <1>3, <1>4, LeadsSteps

-----------------------------------------------------------------------------
(* The handover centre: what the preview counted is moved. *)

\* What a preview counted: it is of no later version of the batch, and when the
\* version is the same, it is what would be moved.
CountFits(p, version, counted) ==
  /\ p.batch \in Batches /\ version \in Nat /\ version <= world.version[p.batch]
  /\ version = world.version[p.batch] => counted = Counted(world, p)

\* What is relied on of the batches as the service has them.
HandoverWorld ==
  /\ DOMAIN world = {"holder", "version", "transfers"} /\ DOMAIN world.holder = Leaving
  /\ world.version \in [Batches -> Nat]

\* The preview under way, and the transfer in the dialog or under way, fit the
\* versions they were counted at.
PreviewFits(p) ==
  /\ p = [batch |-> p.batch, target |-> p.target, mode |-> p.mode, answer |-> p.answer, ids |-> p.ids]
  /\ p.batch \in Batches
  /\ p.answer # <<>> => CountFits(p, p.answer[1].version, p.answer[1].counted)
\* A dialog that counts what its own request was answered.
DialogFits(d) == CountFits(d.request, d.request.version, d.counted)

\* What the handover page keeps.
HandoverView ==
  /\ {"batch", "preview", "dialog", "sending"} \subseteq DOMAIN view /\ view.batch \in Batches
  /\ view.preview # None => PreviewFits(view.preview)
  /\ view.dialog # None \/ view.sending # None => DialogFits(view.dialog)

\* The invariant of the desk.
HandoverHeld == page = "handover" => HandoverWorld /\ HandoverView

\* What is moved is what was counted.
CountedStep == \A t \in world'.transfers \ world.transfers : t.moved = view.dialog.counted

\* The clicks and answers that leave the preview and the dialog alone.
HandoverStill ==
  \/ \E b \in Batches : SelectBatch(b)
  \/ \E f \in {"all", "pending"} : ChangeFilter(f)
  \/ \E s \in Leaving : TickRow(s)
  \/ \E a \in Staff : ChooseTarget(a)
  \/ \E f \in view.fetches : FetchTaken(f) \/ FetchShown(f) \/ FetchFails(f)
  \/ RefreshDetail \/ TickRows

\* The steps of the preview and the dialog that change nothing at the service.
HandoverTalk ==
  \/ \E m \in {"selected", "all_remaining"} : OpenPreview(m)
  \/ CancelTransfer \/ ConfirmTransfer \/ PreviewTaken \/ PreviewShown \/ PreviewFails
  \/ TransferDone \/ TransferConflicts \/ TransferRefused \/ TransferLost

\* The steps of the desk.
LEMMA HandoverSteps ==
  ASSUME HandoverNext
  PROVE  \/ HandoverStill \/ HandoverTalk \/ TransferTaken
         \/ \E s \in Leaving, a \in Staff : OthersTransfer(s, a)
  BY DEF HandoverNext, HandoverStill, HandoverTalk

\* None of them leaves the page.
LEMMA HandoverMoves ==
  ASSUME HandoverNext
  PROVE  page' = page
<1>1. ASSUME HandoverStill PROVE page' = page /\ world' = world
  BY <1>1 DEF HandoverStill, SelectBatch, ChangeFilter, TickRow, ChooseTarget, FetchTaken, FetchShown,
         FetchFails, RefreshDetail, TickRows, Click, Served, Told
<1>2. ASSUME HandoverTalk PROVE page' = page /\ world' = world
  BY <1>2 DEF HandoverTalk, OpenPreview, CancelTransfer, ConfirmTransfer, PreviewTaken, PreviewShown,
         PreviewFails, TransferDone, TransferConflicts, TransferRefused, TransferLost, Click, Served, Told
<1>3. ASSUME TransferTaken \/ \E s \in Leaving, a \in Staff : OthersTransfer(s, a) PROVE page' = page
  BY <1>3 DEF TransferTaken, OthersTransfer, Served, Elsewhere
<1>. QED
  BY <1>1, <1>2, <1>3, HandoverSteps

\* A step that leaves the service alone leaves what fits.
LEMMA SameFits ==
  ASSUME world' = world
  PROVE  /\ \A p : PreviewFits(p)' <=> PreviewFits(p)
         /\ \A p, version, counted : CountFits(p, version, counted)' <=> CountFits(p, version, counted)
  BY DEF PreviewFits, CountFits

\* The rows are fetched without touching preview and dialog.
LEMMA RefetchedKeeps ==
  ASSUME NEW v, {"batch", "preview", "dialog", "sending"} \subseteq DOMAIN v, NEW scope
  PROVE  /\ DOMAIN Refetched(v, scope) = DOMAIN v /\ Refetched(v, scope).batch = v.batch
         /\ Refetched(v, scope).preview = v.preview /\ Refetched(v, scope).dialog = v.dialog
         /\ Refetched(v, scope).sending = v.sending
  BY DEF Refetched

\* The clicks and answers that leave the preview and the dialog alone.
LEMMA HandoverStillStep ==
  ASSUME HandoverView, HandoverStill
  PROVE  /\ DOMAIN view' = DOMAIN view /\ view'.batch \in Batches /\ view'.preview = view.preview
         /\ view'.dialog = view.dialog /\ view'.sending = view.sending /\ world' = world
<1> DEFINE Like(v) == /\ DOMAIN v = DOMAIN view /\ v.batch \in Batches /\ v.preview = view.preview
                      /\ v.dialog = view.dialog /\ v.sending = view.sending
<1>1. ASSUME NEW v, Like(v), NEW scope, view' \in Opened(v, scope) PROVE Like(view')
  <2>1. view' = v \/ view' = Refetched(v, scope)
    BY <1>1 DEF Opened
  <2>. QED
    BY <1>1, <2>1, RefetchedKeeps DEF HandoverView
<1>2. world' = world
  BY DEF HandoverStill, SelectBatch, ChangeFilter, TickRow, ChooseTarget, FetchTaken, FetchShown,
         FetchFails, RefreshDetail, TickRows, Click, Served, Told
<1>3. ASSUME NEW b \in Batches, SelectBatch(b) PROVE Like(view')
  <2> DEFINE v == [view EXCEPT !.batch = b]
  <2>1. view' \in Opened(v, <<b, view.filter>>)
    BY <1>3 DEF SelectBatch
  <2>2. Like(v)
    BY DEF HandoverView
  <2> HIDE DEF v
  <2>. QED
    BY <1>1, <2>1, <2>2
<1>4. ASSUME NEW f, ChangeFilter(f) PROVE Like(view')
  <2> DEFINE v == [view EXCEPT !.filter = f]
  <2>1. view' \in Opened(v, <<view.batch, f>>)
    BY <1>4 DEF ChangeFilter
  <2>2. Like(v)
    BY DEF HandoverView
  <2> HIDE DEF v
  <2>. QED
    BY <1>1, <2>1, <2>2
<1>5. CASE RefreshDetail
  BY <1>2, <1>5, RefetchedKeeps DEF RefreshDetail, HandoverView
<1>6. ASSUME \/ \E s \in Leaving : TickRow(s)
             \/ \E a \in Staff : ChooseTarget(a)
             \/ TickRows
      PROVE  Like(view')
  BY <1>6 DEF TickRow, ChooseTarget, TickRows, Pick, HandoverView
<1>7. ASSUME NEW f, FetchTaken(f) \/ FetchShown(f) \/ FetchFails(f) PROVE Like(view')
  BY <1>7 DEF FetchTaken, FetchShown, FetchFails, HandoverView
<1>. QED
  BY <1>2, <1>3, <1>4, <1>5, <1>6, <1>7 DEF HandoverStill

\* The steps of the preview and the dialog: a dialog is that of a preview.
LEMMA HandoverTalkStep ==
  ASSUME HandoverWorld, HandoverView, HandoverTalk
  PROVE  HandoverView' /\ world' = world
<1>1. world' = world
  BY DEF HandoverTalk, OpenPreview, CancelTransfer, ConfirmTransfer, PreviewTaken, PreviewShown,
         PreviewFails, TransferDone, TransferConflicts, TransferRefused, TransferLost, Click, Served, Told
<1>2. SUFFICES /\ DOMAIN view' = DOMAIN view /\ view'.batch = view.batch
               /\ view'.preview # None => PreviewFits(view'.preview)
               /\ view'.dialog # None \/ view'.sending # None => DialogFits(view'.dialog)
  BY <1>1, <1>2 DEF HandoverView, PreviewFits, DialogFits, CountFits
<1> DEFINE Kept4(v) == DOMAIN v = DOMAIN view /\ v.batch = view.batch
<1>3. ASSUME NEW m, OpenPreview(m)
      PROVE  /\ Kept4(view') /\ PreviewFits(view'.preview)
             /\ view'.dialog = view.dialog /\ view'.sending = view.sending
  <2> DEFINE p == [batch |-> view.batch, target |-> Target, mode |-> m, answer |-> <<>>,
                   ids |-> IF m = "selected" THEN Picked ELSE {}]
  <2>1. view' = [view EXCEPT !.preview = p, !.error = "none"]
    BY <1>3 DEF OpenPreview
  <2>2. PreviewFits(p)
    BY DEF PreviewFits, HandoverView
  <2> HIDE DEF p
  <2>. QED
    BY <2>1, <2>2 DEF HandoverView
<1>4. ASSUME CancelTransfer \/ ConfirmTransfer \/ PreviewFails \/ TransferRefused \/ TransferLost
      PROVE  /\ Kept4(view') /\ view'.preview \in {view.preview, None}
             /\ \/ view'.dialog = None /\ view'.sending = None
                \/ view'.dialog = view.dialog /\ (view.dialog # None \/ view.sending # None)
                \/ view'.dialog = view.dialog /\ view'.sending = view.sending
  BY <1>4 DEF CancelTransfer, ConfirmTransfer, ConfirmOffered, PreviewFails, TransferRefused, TransferLost,
         CloseDialog, Sent, HandoverView
<1>5. CASE PreviewTaken
  <2> DEFINE p == view.preview
             a == [version |-> world.version[p.batch], counted |-> Counted(world, p)]
             q == [p EXCEPT !.answer = <<a>>]
  <2>1. view' = [view EXCEPT !.preview = q] /\ p # None
    BY <1>5 DEF PreviewTaken
  <2>2. PreviewFits(p) /\ world.version[p.batch] \in Nat
    BY <2>1 DEF HandoverView, PreviewFits, HandoverWorld
  <2>3. /\ q = [batch |-> p.batch, target |-> p.target, mode |-> p.mode, answer |-> <<a>>, ids |-> p.ids]
        /\ q.batch = p.batch /\ q.answer = <<a>> /\ q.mode = p.mode /\ q.ids = p.ids
    BY <2>2 DEF PreviewFits
  <2>4. q.answer[1].version = world.version[q.batch] /\ q.answer[1].counted = Counted(world, q)
    BY <2>3 DEF Counted
  <2>5. PreviewFits(q)
    BY <2>2, <2>3, <2>4 DEF PreviewFits, CountFits
  <2> HIDE DEF q
  <2>. QED
    BY <2>1, <2>5 DEF HandoverView
<1>6. CASE PreviewShown
  <2> DEFINE p == view.preview
             r == RequestOf(view, p)
             d == [request |-> r, counted |-> p.answer[1].counted]
  <2>1. view' = [view EXCEPT !.preview = None, !.keys = @ + 1, !.dialog = d] /\ p # None /\ p.answer # <<>>
    BY <1>6 DEF PreviewShown
  <2>2. CountFits(p, p.answer[1].version, p.answer[1].counted)
    BY <2>1 DEF HandoverView, PreviewFits
  <2>3. r.batch = p.batch /\ r.mode = p.mode /\ r.ids = p.ids /\ r.version = p.answer[1].version
    BY DEF RequestOf
  <2>4. Counted(world, r) = Counted(world, p)
    BY <2>3 DEF Counted
  <2> HIDE DEF r
  <2>5. DialogFits(d)
    BY <2>2, <2>3, <2>4 DEF DialogFits, CountFits
  <2> HIDE DEF d
  <2>. QED
    BY <2>1, <2>5 DEF HandoverView
<1>7. CASE TransferDone
  <2> DEFINE v == [CloseDialog(view) EXCEPT !.sending = None, !.picked = [scope |-> Scope, ids |-> {}]]
             stale == [v EXCEPT !.stale = @ \cup {c \in Scopes : c[1] = view.dialog.request.batch}]
  <2>1. view' = stale \/ \E scope : view' = Refetched(stale, scope)
    BY <1>7 DEF TransferDone, Invalidated
  <2>2. Kept4(v) /\ v.preview = view.preview /\ v.dialog = None /\ v.sending = None
    BY DEF CloseDialog, HandoverView
  <2> HIDE DEF v
  <2>3. Kept4(stale) /\ stale.preview = view.preview /\ stale.dialog = None /\ stale.sending = None
    BY <2>2 DEF HandoverView
  <2> HIDE DEF stale
  <2>. QED
    BY <2>1, <2>3, RefetchedKeeps DEF HandoverView
<1>8. CASE TransferConflicts
  <2> DEFINE v == [CloseDialog(view) EXCEPT !.picked = [scope |-> <<view.batch, view.filter>>, ids |-> {}]]
             w == Refetched(v, <<view.batch, view.filter>>)
  <2>1. view' = [w EXCEPT !.sending = None]
    BY <1>8 DEF TransferConflicts, Conflicted
  <2>2. Kept4(v) /\ v.preview = view.preview /\ v.dialog = None
    BY DEF CloseDialog, HandoverView
  <2> HIDE DEF v
  <2>3. Kept4(w) /\ w.preview = view.preview /\ w.dialog = None
    BY <2>2, RefetchedKeeps DEF HandoverView
  <2> HIDE DEF w
  <2>. QED
    BY <2>1, <2>3 DEF HandoverView
<1>. QED
  BY <1>3, <1>4, <1>5, <1>6, <1>7, <1>8 DEF HandoverTalk, HandoverView

\* A batch that is at its next version, and the others as they were: what was
\* counted fits still.
LEMMA NextVersionFits ==
  ASSUME HandoverWorld, NEW b \in Batches, world'.version = [world.version EXCEPT ![b] = @ + 1],
         \A s \in Leaving : BatchOf(s) # b => world'.holder[s] = world.holder[s]
  PROVE  /\ \A p, version, counted : CountFits(p, version, counted) => CountFits(p, version, counted)'
         /\ \A p : PreviewFits(p) => PreviewFits(p)'
<1>1. world.version[b] \in Nat /\ world'.version[b] = world.version[b] + 1
  BY DEF HandoverWorld
<1>2. ASSUME NEW p, NEW version, NEW counted, CountFits(p, version, counted)
      PROVE  CountFits(p, version, counted)'
  <2>1. CASE p.batch = b
    BY <1>1, <1>2, <2>1 DEF CountFits
  <2>2. CASE p.batch # b
    <3>1. world'.version[p.batch] = world.version[p.batch]
      BY <1>2, <2>2 DEF CountFits, HandoverWorld
    <3>2. Pending(world', p.batch) = Pending(world, p.batch)
      BY <2>2 DEF Pending
    <3>3. Counted(world', p) = Counted(world, p)
      BY <3>2 DEF Counted
    <3>. QED
      BY <1>2, <3>1, <3>3 DEF CountFits
  <2>. QED
    BY <2>1, <2>2
<1>3. ASSUME NEW p, PreviewFits(p) PROVE PreviewFits(p)'
  BY <1>2, <1>3 DEF PreviewFits
<1>. QED
  BY <1>2, <1>3

\* The service's steps on a batch: others', and the transfer of the dialog.
LEMMA HandoverServed ==
  ASSUME HandoverWorld, HandoverView, TransferTaken \/ \E s \in Leaving, a \in Staff : OthersTransfer(s, a)
  PROVE  HandoverWorld' /\ HandoverView' /\ CountedStep
<1> DEFINE Like(v) == /\ DOMAIN v = DOMAIN view /\ v.batch = view.batch /\ v.preview = view.preview
                      /\ v.dialog = view.dialog
                      /\ v.sending # None => view.sending # None
<1>1. ASSUME NEW b \in Batches, Like(view'), DOMAIN world' = DOMAIN world, DOMAIN world'.holder = Leaving,
             world'.version = [world.version EXCEPT ![b] = @ + 1],
             \A s \in Leaving : BatchOf(s) # b => world'.holder[s] = world.holder[s]
      PROVE  HandoverWorld' /\ HandoverView'
  <2>1. HandoverWorld'
    BY <1>1 DEF HandoverWorld
  <2>2. view.preview # None => PreviewFits(view.preview)'
    BY <1>1, NextVersionFits DEF HandoverView
  <2>3. view.dialog # None \/ view.sending # None => CountFits(view.dialog.request, view.dialog.request.version, view.dialog.counted)'
    BY <1>1, NextVersionFits DEF HandoverView, DialogFits
  <2>. QED
    BY <1>1, <2>1, <2>2, <2>3 DEF HandoverView, DialogFits, PreviewFits, CountFits
<1>2. ASSUME NEW s \in Leaving, NEW a, OthersTransfer(s, a)
      PROVE  HandoverWorld' /\ HandoverView' /\ CountedStep
  <2>1. /\ world' = [world EXCEPT !.holder[s] = a, !.version[BatchOf(s)] = @ + 1] /\ view' = view
    BY <1>2 DEF OthersTransfer
  <2>2. /\ DOMAIN world' = DOMAIN world /\ world'.holder = [world.holder EXCEPT ![s] = a]
        /\ world'.version = [world.version EXCEPT ![BatchOf(s)] = @ + 1]
        /\ world'.transfers = world.transfers
    BY <2>1 DEF HandoverWorld
  <2>3. BatchOf(s) \in Batches /\ DOMAIN world'.holder = Leaving
    BY <2>2 DEF Batches, HandoverWorld
  <2>4. \A o \in Leaving : BatchOf(o) # BatchOf(s) => world'.holder[o] = world.holder[o]
    BY <2>2 DEF HandoverWorld
  <2>. QED
    BY <1>1, <2>1, <2>2, <2>3, <2>4 DEF CountedStep
<1>3. CASE TransferTaken
  <2> DEFINE r == view.dialog.request
             moved == Counted(world, r)
             new == [key |-> r.key, target |-> r.target, moved |-> moved]
             holder == [s \in Leaving |-> IF s \in moved THEN r.target ELSE world.holder[s]]
  <2>1. /\ view.sending # None
        /\ \/ (\E a : view' = [view EXCEPT !.sending.answer = <<a>>]) /\ world' = world
           \/ /\ r.version = world.version[r.batch] /\ view' = [view EXCEPT !.sending.answer = <<"ok">>]
              /\ world' = [world EXCEPT !.version[r.batch] = @ + 1, !.holder = holder,
                                        !.transfers = @ \cup {new}]
    BY <1>3 DEF TransferTaken, TransferAnswered
  <2>2. DialogFits(view.dialog)
    BY <2>1 DEF HandoverView
  <2>3. Like(view')
    BY <2>1 DEF HandoverView
  <2>4. CASE world' = world
    <3>1. HandoverView'
      BY <2>1, <2>3, <2>4, SameFits DEF HandoverView, DialogFits, PreviewFits, CountFits
    <3>. QED
      BY <2>4, <3>1 DEF HandoverWorld, CountedStep
  <2>5. CASE /\ r.version = world.version[r.batch]
             /\ world' = [world EXCEPT !.version[r.batch] = @ + 1, !.holder = holder, !.transfers = @ \cup {new}]
    <3>1. new.moved = view.dialog.counted
      BY <2>2, <2>5 DEF DialogFits, CountFits
    <3> HIDE DEF new
    <3>2. \A s \in Leaving : BatchOf(s) # r.batch => holder[s] = world.holder[s]
      BY DEF Counted, Pending
    <3>3. DOMAIN holder = Leaving
      OBVIOUS
    <3> HIDE DEF holder
    <3>4. /\ DOMAIN world' = DOMAIN world /\ world'.holder = holder /\ world'.transfers = world.transfers \cup {new}
          /\ world'.version = [world.version EXCEPT ![r.batch] = @ + 1]
      BY <2>5 DEF HandoverWorld
    <3>5. r.batch \in Batches
      BY <2>2 DEF DialogFits, CountFits
    <3>6. HandoverWorld' /\ HandoverView'
      BY <1>1, <2>3, <3>2, <3>3, <3>4, <3>5
    <3>. QED
      BY <3>1, <3>4, <3>6 DEF CountedStep
  <2>. QED
    BY <2>1, <2>4, <2>5
<1>. QED
  BY <1>2, <1>3

\* A step of the desk keeps its invariant, and moves what was counted.
LEMMA HandoverStep ==
  ASSUME HandoverHeld, page = "handover", HandoverNext
  PROVE  HandoverHeld' /\ CountedStep
<1>1. HandoverWorld /\ HandoverView /\ page' = page
  BY HandoverMoves DEF HandoverHeld
<1>. SUFFICES HandoverWorld' /\ HandoverView' /\ CountedStep
  BY DEF HandoverHeld
<1>2. CASE HandoverStill
  <2>1. /\ DOMAIN view' = DOMAIN view /\ view'.batch \in Batches /\ view'.preview = view.preview
        /\ view'.dialog = view.dialog /\ view'.sending = view.sending /\ world' = world
    BY <1>1, <1>2, HandoverStillStep
  <2>2. HandoverView'
    BY <1>1, <2>1, SameFits DEF HandoverView, DialogFits, PreviewFits, CountFits
  <2>. QED
    BY <1>1, <2>1, <2>2 DEF HandoverWorld, CountedStep
<1>3. CASE HandoverTalk
  <2>1. HandoverView' /\ world' = world
    BY <1>1, <1>3, HandoverTalkStep
  <2>. QED
    BY <1>1, <2>1 DEF HandoverWorld, CountedStep
<1>4. CASE TransferTaken \/ \E s \in Leaving, a \in Staff : OthersTransfer(s, a)
  BY <1>1, <1>4, HandoverServed
<1>. QED
  BY <1>2, <1>3, <1>4, HandoverSteps

-----------------------------------------------------------------------------
(* The leads given up: what was previewed is taken back, and work stays. *)

\* What a lead is, and leads as they were taken back.
IsLead(l) == DOMAIN l = {"status", "why", "owner", "at"}
\* Students of a batch, each of them given to somebody.
AreLeads(b) == DOMAIN b \subseteq Given /\ \A s \in DOMAIN b : IsLead(b[s])

\* What is in a sequence.
Members(q) == {q[i] : i \in DOMAIN q}

\* What is relied on of the leads as the service has them.
LeadsFit(w) ==
  /\ DOMAIN w = {"lead", "batches", "off"} /\ DOMAIN w.lead = Given /\ AreLeads(w.lead)
  /\ w.batches \in Seq(Members(w.batches)) /\ \A b \in DOMAIN w.batches : AreLeads(w.batches[b])

\* What a request may be about.
OfFits(kind, of) ==
  /\ kind \in {"preview", "reclaim"} => "ids" \in DOMAIN of /\ of.ids \subseteq Given
  /\ kind \in {"plan", "rollback"} => of \in DOMAIN world.batches

\* What an answer may say.
AnswerFits(r) ==
  r.answer # <<>> =>
    /\ r.kind = "rows" => DOMAIN r.answer[1] \subseteq Given
    /\ r.kind = "logs" => r.answer[1] \subseteq DOMAIN world.batches

\* S is what R becomes by answers that are taken in and requests that are sent.
NewFits(R, S) == Requests(S) /\ \A q \in S \ R : q.answer = <<>> /\ OfFits(q.kind, q.of)

\* What the page shows is of leads and batches there are.
ShowsGiven(v) ==
  /\ {"reqs", "asking", "picked", "rows", "logs", "plan"} \subseteq DOMAIN v
  /\ DOMAIN v.rows \subseteq Given /\ v.picked \subseteq Given /\ v.logs \subseteq DOMAIN world.batches
  /\ v.asking # None => OfFits("reclaim", v.asking)
  /\ v.plan # None => v.plan.batch \in DOMAIN world.batches

\* What is relied on of the page.
GivenView ==
  /\ ShowsGiven(view) /\ Requests(view.reqs)
  /\ \A r \in view.reqs : OfFits(r.kind, r.of) /\ AnswerFits(r)

\* The invariant of the desk.
ReclaimHeld == page = "reclaim" => LeadsFit(world) /\ GivenView

\* What is taken back is what was previewed.
TokenStep ==
  \A r \in view.reqs :
    r.kind = "reclaim" /\ r.of.what # "delete" /\ r.answer = <<>>
      /\ (\E q \in view'.reqs : q = [r EXCEPT !.answer = <<"ok">>])
      => r.of.token = [s \in {t \in Given : world'.lead[t] # world.lead[t]} |-> world.lead[s]]

\* No lead leaves the caller who works on it.
HolderStep ==
  \A s \in Given :
    world.lead[s].owner # None /\ world'.lead[s].owner # world.lead[s].owner => world.lead[s].status = "invalid"

\* One more batch.
LEMMA OneMore ==
  ASSUME NEW q, q \in Seq(Members(q)), NEW x
  PROVE  /\ Append(q, x) \in Seq(Members(Append(q, x))) /\ DOMAIN q \subseteq DOMAIN Append(q, x)
         /\ \A i \in DOMAIN q : Append(q, x)[i] = q[i]
         /\ \A i \in DOMAIN Append(q, x) : i \notin DOMAIN q => Append(q, x)[i] = x
<1> DEFINE T == Members(q) \cup {x}
           p == Append(q, x)
<1>1. q \in Seq(T) /\ x \in T
  BY SeqMonotonic
<1>2. /\ p \in Seq(T) /\ Len(p) = Len(q) + 1 /\ DOMAIN p = 1 .. Len(p) /\ Len(p) \in Nat
      /\ DOMAIN q = 1 .. Len(q) /\ Len(q) \in Nat
      /\ \A i \in 1 .. Len(q) : p[i] = q[i]
      /\ p[Len(q) + 1] = x
  BY <1>1, AppendProperties, LenProperties
<1> HIDE DEF p
<1>3. p \in [1 .. Len(p) -> Members(p)]
  <2>1. p = [i \in 1 .. Len(p) |-> p[i]]
    BY <1>2, SeqDef
  <2>. QED
    BY <1>2, <2>1 DEF Members
<1>4. p \in Seq(Members(p))
  BY <1>2, <1>3, SeqDef
<1>5. DOMAIN q \subseteq DOMAIN p /\ \A i \in DOMAIN p : i \notin DOMAIN q => i = Len(q) + 1
  BY <1>2
<1>. QED
  BY <1>2, <1>4, <1>5 DEF p

\* Leads that are touched, and those that are not.
LEMMA TouchedLeads ==
  ASSUME NEW w, LeadsFit(w), NEW lead, \A s \in DOMAIN lead : IsLead(lead[s])
  PROVE  /\ LeadsFit(Touched(w, lead)) /\ Touched(w, lead).batches = w.batches
         /\ \A s \in Given : s \notin DOMAIN lead => Touched(w, lead).lead[s] = w.lead[s]
         /\ \A s \in Given \cap DOMAIN lead : Touched(w, lead).lead[s].status = lead[s].status
<1> DEFINE row(s) == [lead[s] EXCEPT !.at = w.lead[s].at + 1]
           put == [s \in Given |-> IF s \in DOMAIN lead THEN row(s) ELSE w.lead[s]]
           t == Touched(w, lead)
<1>1. t = [w EXCEPT !.lead = put]
  BY DEF Touched
<1>2. ASSUME NEW s \in DOMAIN lead PROVE IsLead(row(s)) /\ row(s).status = lead[s].status
  BY DEF IsLead
<1> HIDE DEF row
<1>3. DOMAIN put = Given /\ AreLeads(put)
  BY <1>2 DEF LeadsFit, AreLeads
<1>4. /\ \A s \in Given : s \notin DOMAIN lead => put[s] = w.lead[s]
      /\ \A s \in Given \cap DOMAIN lead : put[s].status = lead[s].status
  BY <1>2
<1> HIDE DEF put
<1>5. DOMAIN t = {"lead", "batches", "off"} /\ t.lead = put /\ t.batches = w.batches
  BY <1>1 DEF LeadsFit
<1>6. LeadsFit(t)
  BY <1>3, <1>5 DEF LeadsFit
<1>. QED
  BY <1>4, <1>5, <1>6

\* Leads that are taken back: their batch is one more.
LEMMA TakenBackLeads ==
  ASSUME NEW w, LeadsFit(w), NEW set \in SUBSET Given
  PROVE  /\ LeadsFit(TakenBack(w, set)) /\ DOMAIN w.batches \subseteq DOMAIN TakenBack(w, set).batches
         /\ \A s \in Given : s \notin set => TakenBack(w, set).lead[s] = w.lead[s]
         /\ \A s \in set : TakenBack(w, set).lead[s].status = "pool"
<1> DEFINE pool == [s \in set |-> InPool]
           batch == [s \in set |-> w.lead[s]]
           m == Touched(w, pool)
           batches == Append(m.batches, batch)
           t == TakenBack(w, set)
<1>1. t = [m EXCEPT !.batches = batches]
  BY DEF TakenBack
<1>2. DOMAIN pool = set /\ \A s \in set : IsLead(pool[s]) /\ pool[s].status = "pool"
  BY DEF IsLead, InPool
<1>3. AreLeads(batch)
  BY DEF LeadsFit, AreLeads
<1> HIDE DEF pool, batch
<1>4. /\ LeadsFit(m) /\ m.batches = w.batches
      /\ \A s \in Given : s \notin set => m.lead[s] = w.lead[s]
      /\ \A s \in set : m.lead[s].status = "pool"
  BY <1>2, TouchedLeads
<1> HIDE DEF m
<1>5. /\ batches \in Seq(Members(batches)) /\ DOMAIN w.batches \subseteq DOMAIN batches
      /\ \A b \in DOMAIN batches : AreLeads(batches[b])
  BY <1>3, <1>4, OneMore DEF LeadsFit
<1> HIDE DEF batches
<1>6. DOMAIN t = {"lead", "batches", "off"} /\ t.lead = m.lead /\ t.batches = batches
  BY <1>1, <1>4 DEF LeadsFit
<1>7. LeadsFit(t)
  BY <1>4, <1>5, <1>6 DEF LeadsFit
<1>. QED
  BY <1>4, <1>5, <1>6, <1>7

\* The clicks and answers that send at most loads.
ReclaimCalm ==
  \/ \E w \in Reasons \cup {"any"} : SetInvalidReason(w)
  \/ \E g \in {SchoolOf(s) : s \in Given} : ToggleSchool(g)
  \/ \E g \in {SchoolOf(s) : s \in Given} \cup {"any"} : ApplySearch(g)
  \/ \E s \in Given : ToggleStudent(s)
  \/ RefreshGroups \/ ToggleStudents \/ CancelReclaim \/ GoToAudit \/ RunSearch \/ CloseRollback

\* The clicks that ask for more than a load.
ReclaimAsks ==
  \/ \E g \in {SchoolOf(s) : s \in Given} : HandleReclaimSchool(g)
  \/ \E b \in view.logs : OpenReclaimRollbackPreview(b)
  \/ HandleBatchReclaim \/ HandleBatchDelete \/ ConfirmReclaim \/ ConfirmRollback

\* The answers that come, and those that do not.
ReclaimTold(r) ==
  \/ GroupsShown(r) \/ GroupsFail(r) \/ GivenShown(r) \/ GivenFail(r) \/ PreviewAsks(r) \/ PreviewRefused(r)
  \/ ReclaimDone(r) \/ ReclaimFails(r) \/ LogsShown(r) \/ LogsFail(r) \/ PlanShown(r) \/ RollbackDone(r)
  \/ RollbackFails(r)

\* What the service answers without changing anything.
ReclaimReads(r) == GroupsTaken(r) \/ GivenTaken(r) \/ PreviewsTaken(r) \/ LogsTaken(r) \/ PlanTaken(r)

\* What others do.
ReclaimOthers ==
  \E s \in Given :
    \/ OthersReclaim(s)
    \/ \E a \in Holders : OthersGiveOut(s, a)
    \/ \E w \in Reasons : OthersGiveUp(s, w)

\* The steps of the desk.
LEMMA ReclaimSteps ==
  ASSUME ReclaimNext
  PROVE  \/ ReclaimCalm \/ ReclaimAsks \/ ReclaimOthers
         \/ \E r \in view.reqs : ReclaimTold(r) \/ ReclaimReads(r) \/ ReclaimTaken(r) \/ RollbackTaken(r)
  BY DEF ReclaimNext, ReclaimCalm, ReclaimAsks, ReclaimOthers, ReclaimTold, ReclaimReads

\* None of them leaves the desk, and those of the page leave the leads alone.
LEMMA ReclaimMoves ==
  /\ ReclaimNext => page' = page
  /\ ReclaimCalm \/ ReclaimAsks => world' = world
  /\ \A r : ReclaimTold(r) \/ ReclaimReads(r) => world' = world
<1>1. ReclaimCalm => page' = page /\ world' = world
  BY DEF ReclaimCalm, SetInvalidReason, ToggleSchool, ApplySearch, ToggleStudent, RefreshGroups,
         ToggleStudents, CancelReclaim, GoToAudit, RunSearch, CloseRollback, Click
<1>2. ReclaimAsks => page' = page /\ world' = world
  BY DEF ReclaimAsks, HandleReclaimSchool, OpenReclaimRollbackPreview, HandleBatchReclaim,
         HandleBatchDelete, ConfirmReclaim, ConfirmRollback, Click
<1>3. ASSUME NEW r, ReclaimTold(r) PROVE page' = page /\ world' = world
  BY <1>3 DEF ReclaimTold, GroupsShown, GroupsFail, GivenShown, GivenFail, PreviewAsks, PreviewRefused,
         ReclaimDone, ReclaimFails, LogsShown, LogsFail, PlanShown, RollbackDone, RollbackFails,
         Came, Failed, Told
<1>4. ASSUME NEW r, ReclaimReads(r) PROVE page' = page /\ world' = world
  BY <1>4 DEF ReclaimReads, GroupsTaken, GivenTaken, PreviewsTaken, LogsTaken, PlanTaken, Answered, Served
<1>5. ASSUME NEW r, ReclaimTaken(r) \/ RollbackTaken(r) PROVE page' = page
  BY <1>5 DEF ReclaimTaken, RollbackTaken, Answered, Served
<1>6. ReclaimOthers => page' = page
  BY DEF ReclaimOthers, OthersReclaim, OthersGiveOut, OthersGiveUp, Elsewhere
<1>. QED
  BY <1>1, <1>2, <1>3, <1>4, <1>5, <1>6, ReclaimSteps

\* Sending a request, after one is taken in or not.
LEMMA NewFitsFacts ==
  ASSUME NEW R, Requests(R)
  PROVE  /\ NewFits(R, R) /\ \A r : NewFits(R, R \ {r})
         /\ \A S : NewFits(R, S) => \A kind, of : OfFits(kind, of) => NewFits(R, Ask(S, kind, of))
<1>1. ASSUME NEW r PROVE NewFits(R, R \ {r})
  BY FewerRequests DEF NewFits
<1>2. ASSUME NEW S, NewFits(R, S), NEW kind, NEW of, OfFits(kind, of)
      PROVE  NewFits(R, Ask(S, kind, of))
  <2>1. /\ Ask(S, kind, of) = S \cup {NewRequest(S, kind, of)} /\ Requests(Ask(S, kind, of))
        /\ NewRequest(S, kind, of).kind = kind /\ NewRequest(S, kind, of).of = of
        /\ NewRequest(S, kind, of).answer = <<>>
    BY <1>2, AskAdds DEF NewFits
  <2>. QED
    BY <1>2, <2>1 DEF NewFits
<1>. QED
  BY <1>1, <1>2 DEF NewFits

\* A page that the desk's may become.
GivenPage(v) == ShowsGiven(v) /\ NewFits(view.reqs, v.reqs)

\* The page when it sends something, and when it loads.
LEMMA GivenSends ==
  ASSUME GivenView, NEW v, GivenPage(v)
  PROVE  /\ \A kind, of : OfFits(kind, of) => GivenPage(SendGiven(v, kind, of))
         /\ \A p, ends : GivenPage(FetchSchoolGroups(v, p, ends))
         /\ \A g, p, ends : GivenPage(FetchSchoolStudents(v, g, p, ends))
         /\ GivenPage(FetchLogs(v)) /\ GivenPage(Folded(v))
<1>1. ASSUME NEW w, GivenPage(w), NEW kind, NEW of, OfFits(kind, of)
      PROVE  GivenPage(SendGiven(w, kind, of))
  <2>1. NewFits(view.reqs, Ask(w.reqs, kind, of))
    BY <1>1, NewFitsFacts DEF GivenPage, GivenView
  <2>2. /\ SendGiven(w, kind, of).reqs = Ask(w.reqs, kind, of) /\ DOMAIN SendGiven(w, kind, of) = DOMAIN w
        /\ SendGiven(w, kind, of).rows = w.rows /\ SendGiven(w, kind, of).picked = w.picked
        /\ SendGiven(w, kind, of).asking = w.asking /\ SendGiven(w, kind, of).logs = w.logs
        /\ SendGiven(w, kind, of).plan = w.plan
    BY <1>1 DEF SendGiven, GivenPage, ShowsGiven
  <2>. QED
    BY <1>1, <2>1, <2>2 DEF GivenPage, ShowsGiven
<1>2. GivenPage([v EXCEPT !.loading = TRUE]) /\ GivenPage([v EXCEPT !.listing = TRUE]) /\ GivenPage([v EXCEPT !.reading = TRUE])
  BY DEF GivenPage, ShowsGiven
<1>3. \A of : OfFits("groups", of) /\ OfFits("rows", of) /\ OfFits("logs", of)
  BY DEF OfFits
<1>4. GivenPage(Folded(v))
  BY DEF Folded, NoRows, GivenPage, ShowsGiven
<1>. QED
  BY <1>1, <1>2, <1>3, <1>4 DEF FetchSchoolGroups, FetchSchoolStudents, FetchLogs

\* The clicks that send at most loads.
LEMMA ReclaimCalmStep ==
  ASSUME GivenView, ReclaimCalm
  PROVE  GivenPage(view')
<1>1. GivenPage(view)
  BY NewFitsFacts DEF GivenPage, GivenView
<1>2. ASSUME NEW v, GivenPage(v), view' = Filtered(v) PROVE GivenPage(view')
  BY <1>2, GivenSends DEF Filtered
<1>3. ASSUME NEW w, SetInvalidReason(w) PROVE GivenPage(view')
  <2>1. GivenPage([view EXCEPT !.reason = w])
    BY <1>1 DEF GivenPage, ShowsGiven
  <2>. QED
    BY <1>2, <1>3, <2>1 DEF SetInvalidReason
<1>4. ASSUME NEW q, ApplySearch(q) PROVE GivenPage(view')
  <2>1. GivenPage([view EXCEPT !.q = q])
    BY <1>1 DEF GivenPage, ShowsGiven
  <2>. QED
    BY <1>2, <1>4, <2>1 DEF ApplySearch
<1>5. ASSUME NEW g, ToggleSchool(g) PROVE GivenPage(view')
  <2>1. GivenPage([view EXCEPT !.unfolded = g])
    BY <1>1 DEF GivenPage, ShowsGiven
  <2>. QED
    BY <1>1, <1>5, <2>1, GivenSends DEF ToggleSchool
<1>6. ASSUME NEW picked \in SUBSET Given, view' = [view EXCEPT !.picked = picked] PROVE GivenPage(view')
  BY <1>1, <1>6 DEF GivenPage, ShowsGiven
<1>7. ASSUME NEW s \in Given, ToggleStudent(s) PROVE GivenPage(view')
  <2>1. Flip(view.picked, s) \in SUBSET Given
    BY <1>1 DEF Flip, GivenPage, ShowsGiven
  <2>. QED
    BY <1>6, <1>7, <2>1 DEF ToggleStudent
<1>8. CASE ToggleStudents
  <2>1. Reclaimable \in SUBSET Given
    BY <1>1 DEF Reclaimable, GivenPage, ShowsGiven
  <2>2. view' = [view EXCEPT !.picked = {}] \/ view' = [view EXCEPT !.picked = Reclaimable]
    BY <1>8 DEF ToggleStudents
  <2>. QED
    BY <1>6, <2>1, <2>2
<1>9. ASSUME CancelReclaim \/ CloseRollback PROVE GivenPage(view')
  BY <1>1, <1>9 DEF CancelReclaim, CloseRollback, GivenPage, ShowsGiven
<1>10. ASSUME RefreshGroups \/ RunSearch PROVE GivenPage(view')
  BY <1>1, <1>10, GivenSends DEF RefreshGroups, RunSearch
<1>11. CASE GoToAudit
  <2>1. GivenPage([view EXCEPT !.at = "audit", !.logs = {}])
    BY <1>1 DEF GivenPage, ShowsGiven
  <2>. QED
    BY <1>11, <2>1, GivenSends DEF GoToAudit
<1>. QED
  BY <1>3, <1>4, <1>5, <1>7, <1>8, <1>9, <1>10, <1>11 DEF ReclaimCalm

\* The clicks that ask for more than a load.
LEMMA ReclaimAsksStep ==
  ASSUME GivenView, ReclaimAsks
  PROVE  GivenPage(view')
<1>1. GivenPage(view)
  BY NewFitsFacts DEF GivenPage, GivenView
<1>2. ASSUME NEW what, NEW g, NEW ids \in SUBSET Given
      PROVE  OfFits("preview", About(view, what, g, ids)) /\ OfFits("reclaim", About(view, what, g, ids))
  BY DEF OfFits, About
<1>3. ASSUME NEW g, HandleReclaimSchool(g) PROVE GivenPage(view')
  BY <1>1, <1>2, <1>3, GivenSends DEF HandleReclaimSchool
<1>4. view.picked \in SUBSET Given
  BY <1>1 DEF GivenPage, ShowsGiven
<1>5. CASE HandleBatchReclaim
  BY <1>1, <1>2, <1>4, <1>5, GivenSends DEF HandleBatchReclaim
<1>6. CASE HandleBatchDelete
  <2> DEFINE of == About(view, "delete", None, view.picked)
  <2>1. view' = [view EXCEPT !.asking = of] /\ OfFits("reclaim", of)
    BY <1>2, <1>4, <1>6 DEF HandleBatchDelete
  <2> HIDE DEF of
  <2>. QED
    BY <1>1, <2>1 DEF GivenPage, ShowsGiven
<1>7. CASE ConfirmReclaim
  <2> DEFINE of == view.asking
             shut == [view EXCEPT !.asking = None]
             v == SendGiven(shut, "reclaim", of)
  <2>1. GivenPage(shut)
    BY <1>1 DEF GivenPage, ShowsGiven
  <2>2. OfFits("reclaim", of)
    BY <1>1, <1>7 DEF ConfirmReclaim, Asked, GivenPage, ShowsGiven
  <2> HIDE DEF shut
  <2>3. GivenPage(v)
    BY <2>1, <2>2, GivenSends
  <2>4. view' = [v EXCEPT !.school = of.school] \/ view' = [v EXCEPT !.action = of.what]
    BY <1>7 DEF ConfirmReclaim, shut
  <2> HIDE DEF v
  <2>. QED
    BY <2>3, <2>4 DEF GivenPage, ShowsGiven
<1>8. GivenPage([view EXCEPT !.rolling = TRUE])
  BY <1>1 DEF GivenPage, ShowsGiven
<1>9. ASSUME NEW b \in view.logs, OpenReclaimRollbackPreview(b) PROVE GivenPage(view')
  <2>1. OfFits("plan", b)
    BY <1>1 DEF OfFits, GivenPage, ShowsGiven
  <2>. QED
    BY <1>8, <1>9, <2>1, GivenSends DEF OpenReclaimRollbackPreview
<1>10. CASE ConfirmRollback
  <2>1. OfFits("rollback", view.plan.batch)
    BY <1>1, <1>10 DEF ConfirmRollback, OfFits, GivenPage, ShowsGiven
  <2>. QED
    BY <1>8, <1>10, <2>1, GivenSends DEF ConfirmRollback
<1>. QED
  BY <1>3, <1>5, <1>6, <1>7, <1>9, <1>10 DEF ReclaimAsks

\* The answers that come, and those that do not.
LEMMA ReclaimToldStep ==
  ASSUME GivenView, NEW r \in view.reqs, ReclaimTold(r)
  PROVE  GivenPage(view')
<1> DEFINE left == Without(view, r)
<1>1. GivenPage(left)
  <2>1. /\ left.reqs = view.reqs \ {r} /\ DOMAIN left = DOMAIN view /\ left.rows = view.rows
        /\ left.picked = view.picked /\ left.logs = view.logs /\ left.asking = view.asking
        /\ left.plan = view.plan
    BY DEF Without, GivenView, ShowsGiven
  <2>2. NewFits(view.reqs, view.reqs \ {r})
    BY NewFitsFacts DEF GivenView
  <2>. QED
    BY <2>1, <2>2 DEF GivenView, GivenPage, ShowsGiven
<1>2. OfFits(r.kind, r.of) /\ AnswerFits(r)
  BY DEF GivenView
<1>3. ASSUME NEW v, GivenPage(v), NEW ends, view' = Freed(v, ends) PROVE GivenPage(view')
  BY <1>3 DEF Freed, GivenPage, ShowsGiven
<1>4. ASSUME NEW v, GivenPage(v), view' = AfterRows(v, r.of) PROVE GivenPage(view')
  BY <1>4, GivenSends DEF AfterRows
<1> HIDE DEF left
<1>5. ASSUME GroupsShown(r) \/ GroupsFail(r) PROVE GivenPage(view')
  <2>1. GivenPage([left EXCEPT !.groups = r.answer[1], !.loading = FALSE]) /\ GivenPage([left EXCEPT !.loading = FALSE])
    BY <1>1 DEF GivenPage, ShowsGiven
  <2>. QED
    BY <1>3, <1>5, <2>1 DEF GroupsShown, GroupsFail, left
<1>6. CASE GivenShown(r)
  <2>1. DOMAIN r.answer[1] \subseteq Given
    BY <1>2, <1>6 DEF GivenShown, Came, AnswerFits
  <2>2. GivenPage(RowsPut(left, r.answer[1]))
    BY <1>1, <2>1 DEF RowsPut, GivenPage, ShowsGiven
  <2>. QED
    BY <1>4, <1>6, <2>2 DEF GivenShown, left
<1>7. CASE GivenFail(r)
  <2>1. GivenPage([left EXCEPT !.listing = FALSE])
    BY <1>1 DEF GivenPage, ShowsGiven
  <2>. QED
    BY <1>4, <1>7, <2>1 DEF GivenFail, left
<1>8. CASE PreviewAsks(r)
  <2> DEFINE of == [r.of EXCEPT !.token = r.answer[1]]
  <2>1. OfFits("reclaim", of)
    BY <1>2, <1>8 DEF PreviewAsks, Came, OfFits
  <2>2. view' = [left EXCEPT !.asking = of]
    BY <1>8 DEF PreviewAsks, left
  <2> HIDE DEF of
  <2>. QED
    BY <1>1, <2>1, <2>2 DEF GivenPage, ShowsGiven
<1>9. ASSUME PreviewRefused(r) \/ LogsFail(r) \/ RollbackFails(r) \/ ReclaimFails(r) PROVE GivenPage(view')
  <2>1. \/ view' = left \/ view' = [left EXCEPT !.reading = FALSE] \/ view' = [left EXCEPT !.rolling = FALSE]
        \/ view' = [left EXCEPT !.school = None] \/ view' = [left EXCEPT !.action = "none"]
    BY <1>9 DEF PreviewRefused, LogsFail, RollbackFails, ReclaimFails, left
  <2>. QED
    BY <1>1, <2>1 DEF GivenPage, ShowsGiven
<1>10. CASE ReclaimDone(r)
  <2>1. GivenPage(Folded(left))
    BY <1>1, GivenSends
  <2>2. GivenPage([Folded(left) EXCEPT !.school = None]) /\ GivenPage([left EXCEPT !.picked = {}])
    BY <1>1, <2>1 DEF GivenPage, ShowsGiven
  <2>. QED
    BY <1>10, <2>2, GivenSends DEF ReclaimDone, left
<1>11. CASE LogsShown(r)
  <2>1. r.answer[1] \subseteq DOMAIN world.batches
    BY <1>2, <1>11 DEF LogsShown, Came, AnswerFits
  <2>. QED
    BY <1>1, <1>11, <2>1 DEF LogsShown, left, GivenPage, ShowsGiven
<1>12. CASE PlanShown(r)
  <2> DEFINE plan == [batch |-> r.of, able |-> r.answer[1]]
  <2>1. plan.batch \in DOMAIN world.batches
    BY <1>2, <1>12 DEF PlanShown, Came, OfFits
  <2>2. view' = [left EXCEPT !.plan = plan, !.rolling = FALSE]
    BY <1>12 DEF PlanShown, left
  <2> HIDE DEF plan
  <2>. QED
    BY <1>1, <2>1, <2>2 DEF GivenPage, ShowsGiven
<1>13. CASE RollbackDone(r)
  <2>1. GivenPage([left EXCEPT !.plan = None, !.rolling = FALSE])
    BY <1>1 DEF GivenPage, ShowsGiven
  <2>. QED
    BY <1>13, <2>1, GivenSends DEF RollbackDone, left
<1>. QED
  BY <1>5, <1>6, <1>7, <1>8, <1>9, <1>10, <1>11, <1>12, <1>13 DEF ReclaimTold

\* A page that fits the leads fits them when there are more batches.
LEMMA GivenGrows ==
  ASSUME ShowsGiven(view'), Requests(view'.reqs),
         \A q \in view'.reqs : OfFits(q.kind, q.of) /\ AnswerFits(q),
         DOMAIN world.batches \subseteq DOMAIN world'.batches
  PROVE  GivenView'
<1>1. ASSUME NEW kind, NEW of, OfFits(kind, of) PROVE OfFits(kind, of)'
  BY <1>1 DEF OfFits
<1>2. ASSUME NEW q, AnswerFits(q) PROVE AnswerFits(q)'
  BY <1>2 DEF AnswerFits
<1>3. ShowsGiven(view)'
  BY <1>1 DEF ShowsGiven
<1>. QED
  BY <1>1, <1>2, <1>3 DEF GivenView

\* What is sent and taken in leaves a page that fits.
LEMMA GivenNext ==
  ASSUME GivenView, GivenPage(view'), world' = world
  PROVE  GivenView' /\ TokenStep /\ HolderStep
<1>1. Requests(view.reqs) /\ Requests(view'.reqs) /\ ShowsGiven(view')
  BY DEF GivenView, GivenPage, NewFits
<1>2. ASSUME NEW q \in view'.reqs PROVE OfFits(q.kind, q.of) /\ AnswerFits(q)
  BY <1>2 DEF GivenView, GivenPage, NewFits, AnswerFits
<1>3. GivenView'
  BY <1>1, <1>2, GivenGrows
<1>4. ASSUME NEW r \in view.reqs, r.answer = <<>>, [r EXCEPT !.answer = <<"ok">>] \in view'.reqs PROVE FALSE
  <2>1. Follows(view.reqs, view'.reqs, {q.kind : q \in view'.reqs})
    BY <1>1 DEF GivenPage, NewFits, Follows
  <2>. QED
    BY <1>1, <1>4, <2>1, OwnAnswer DEF WithAnswer
<1>5. TokenStep
  BY <1>4 DEF TokenStep
<1>. QED
  BY <1>3, <1>5 DEF HolderStep

\* An answer of the service, and what it does.
LEMMA GivenAnswered ==
  ASSUME GivenView, NEW r, NEW a, Answered(r, a),
         r.kind = "rows" => DOMAIN a \subseteq Given, r.kind = "logs" => a \subseteq DOMAIN world.batches,
         DOMAIN world.batches \subseteq DOMAIN world'.batches
  PROVE  GivenView' /\ r \in view.reqs /\ OfFits(r.kind, r.of)
<1> DEFINE q == WithAnswer(r, a)
<1>1. Requests(view.reqs) /\ "reqs" \in DOMAIN view
  BY DEF GivenView, ShowsGiven
<1>2. /\ r \in view.reqs /\ view' = [view EXCEPT !.reqs = (view.reqs \ {r}) \cup {q}]
      /\ view'.reqs = (view.reqs \ {r}) \cup {q} /\ Requests(view'.reqs)
      /\ q.kind = r.kind /\ q.of = r.of /\ q.answer = <<a>>
  BY <1>1, AnsweredStep
<1> HIDE DEF q
<1>3. OfFits(r.kind, r.of)
  BY <1>2 DEF GivenView
<1>4. OfFits(q.kind, q.of) /\ AnswerFits(q)
  BY <1>2, <1>3 DEF AnswerFits
<1>5. ASSUME NEW p \in view'.reqs PROVE OfFits(p.kind, p.of) /\ AnswerFits(p)
  BY <1>2, <1>4 DEF GivenView
<1>6. ShowsGiven(view')
  BY <1>2 DEF GivenView, ShowsGiven
<1>. QED
  BY <1>2, <1>3, <1>5, <1>6, GivenGrows

\* What is answered to one request is taken back by it.
LEMMA AnswersToken ==
  ASSUME GivenView, NEW p, NEW a, Answered(p, a),
         p.kind = "reclaim" /\ p.of.what # "delete" /\ a = "ok"
           => p.of.token = [s \in {t \in Given : world'.lead[t] # world.lead[t]} |-> world.lead[s]]
  PROVE  TokenStep
<1>1. Requests(view.reqs) /\ "reqs" \in DOMAIN view
  BY DEF GivenView, ShowsGiven
<1>2. ASSUME NEW r \in view.reqs, r.answer = <<>>, [r EXCEPT !.answer = <<"ok">>] \in view'.reqs
      PROVE  p = r /\ a = "ok"
  BY <1>1, <1>2, AnswersOne DEF WithAnswer
<1>. QED
  BY <1>2 DEF TokenStep

\* The answers that change nothing.
LEMMA ReclaimReadsStep ==
  ASSUME GivenView, LeadsFit(world), NEW r \in view.reqs, ReclaimReads(r)
  PROVE  GivenView' /\ TokenStep
<1>1. world' = world
  BY ReclaimMoves
<1>2. PICK a : /\ Answered(r, a) /\ r.kind # "reclaim"
               /\ r.kind = "rows" => DOMAIN a \subseteq Given
               /\ r.kind = "logs" => a \subseteq DOMAIN world.batches
  <2>1. ASSUME GroupsTaken(r) \/ PreviewsTaken(r) \/ PlanTaken(r)
        PROVE  \E a : Answered(r, a) /\ r.kind \in {"groups", "preview", "plan"}
    BY <2>1 DEF GroupsTaken, PreviewsTaken, PlanTaken
  <2>2. CASE GivenTaken(r)
    <3>1. DOMAIN RowsOf(world, r.of) \subseteq Given
      BY DEF RowsOf, Matching, GivenUp
    <3>. QED
      BY <2>2, <3>1 DEF GivenTaken
  <2>3. CASE LogsTaken(r)
    BY <2>3 DEF LogsTaken
  <2>. QED
    BY <2>1, <2>2, <2>3 DEF ReclaimReads
<1>. QED
  BY <1>1, <1>2, GivenAnswered, AnswersToken

\* The leads named are leads.
LEMMA NamedGiven ==
  ASSUME NEW of, "ids" \in DOMAIN of, of.ids \subseteq Given
  PROVE  Named(world, of) \subseteq Given
  BY DEF Named, GivenUp

\* Leads are taken back or deleted: those of the preview, and none that is worked on.
LEMMA ReclaimTakenStep ==
  ASSUME GivenView, LeadsFit(world), NEW r \in view.reqs, ReclaimTaken(r)
  PROVE  LeadsFit(world') /\ GivenView' /\ TokenStep /\ HolderStep
<1> DEFINE named == Named(world, r.of)
<1>1. named \in SUBSET Given
  <2>1. r.kind = "reclaim" /\ OfFits(r.kind, r.of)
    BY DEF ReclaimTaken, GivenView
  <2>. QED
    BY <2>1, NamedGiven DEF OfFits
<1>2. ASSUME Answered(r, "refused"), world' = world
      PROVE  LeadsFit(world') /\ GivenView' /\ TokenStep /\ HolderStep
  <2>1. r.kind = "reclaim"
    BY DEF ReclaimTaken
  <2>2. GivenView' /\ TokenStep
    BY <1>2, <2>1, GivenAnswered, AnswersToken
  <2>. QED
    BY <1>2, <2>2 DEF HolderStep
<1>3. ASSUME r.of.what # "delete", Previewable(world, r.of), UnchangedSince(world, r.of), Answered(r, "ok"),
             world' = TakenBack(world, named)
      PROVE  LeadsFit(world') /\ GivenView' /\ TokenStep /\ HolderStep
  <2>1. \A s \in named : world.lead[s].status = "invalid"
    BY <1>3 DEF Previewable
  <2>2. r.of.token = [s \in named |-> world.lead[s]]
    BY <1>3 DEF UnchangedSince, Token
  <2> HIDE DEF named
  <2>3. /\ LeadsFit(world') /\ DOMAIN world.batches \subseteq DOMAIN world'.batches
        /\ \A s \in Given : s \notin named => world'.lead[s] = world.lead[s]
        /\ \A s \in named : world'.lead[s].status = "pool"
    BY <1>1, <1>3, TakenBackLeads
  <2>4. named = {t \in Given : world'.lead[t] # world.lead[t]}
    BY <1>1, <2>1, <2>3
  <2>5. r.kind = "reclaim"
    BY DEF ReclaimTaken
  <2>6. GivenView' /\ TokenStep
    BY <1>3, <2>2, <2>3, <2>4, <2>5, GivenAnswered, AnswersToken
  <2>7. HolderStep
    BY <2>1, <2>3 DEF HolderStep
  <2>. QED
    BY <2>3, <2>6, <2>7
<1>4. ASSUME r.of.what = "delete", named \subseteq GivenUp(world), Answered(r, "ok"),
             world' = Touched(world, [s \in named |-> Deleted])
      PROVE  LeadsFit(world') /\ GivenView' /\ TokenStep /\ HolderStep
  <2> DEFINE gone == [s \in named |-> Deleted]
  <2>1. \A s \in named : world.lead[s].status = "invalid"
    BY <1>4 DEF GivenUp
  <2>2. DOMAIN gone = named /\ \A s \in named : IsLead(gone[s])
    BY DEF IsLead, Deleted, InPool
  <2> HIDE DEF gone, named
  <2>3. /\ LeadsFit(world') /\ world'.batches = world.batches
        /\ \A s \in Given : s \notin named => world'.lead[s] = world.lead[s]
    BY <1>4, <2>2, TouchedLeads DEF gone
  <2>4. r.kind = "reclaim"
    BY DEF ReclaimTaken
  <2>5. GivenView' /\ TokenStep
    BY <1>4, <2>3, <2>4, GivenAnswered, AnswersToken
  <2>6. HolderStep
    BY <2>1, <2>3 DEF HolderStep
  <2>. QED
    BY <2>3, <2>5, <2>6
<1>. QED
  BY <1>2, <1>3, <1>4 DEF ReclaimTaken

\* A batch is put back: no lead that somebody holds.
LEMMA RollbackTakenStep ==
  ASSUME GivenView, LeadsFit(world), NEW r \in view.reqs, RollbackTaken(r)
  PROVE  LeadsFit(world') /\ GivenView' /\ TokenStep /\ HolderStep
<1> DEFINE able == Restorable(world, r.of)
           before == [s \in able |-> world.batches[r.of][s]]
<1>1. r.kind = "rollback" /\ r.of \in DOMAIN world.batches
  BY DEF RollbackTaken, GivenView, OfFits
<1>2. AreLeads(world.batches[r.of]) /\ able \subseteq DOMAIN world.batches[r.of]
  BY <1>1 DEF LeadsFit, Restorable
<1>3. DOMAIN before = able /\ \A s \in able : IsLead(before[s])
  BY <1>2 DEF AreLeads
<1>4. \A s \in able : world.lead[s].owner = None
  BY DEF Restorable
<1>5. PICK a : Answered(r, a) /\ world' \in {world, Touched(world, before)}
  BY DEF RollbackTaken
<1> HIDE DEF before, able
<1>6. /\ LeadsFit(world') /\ world'.batches = world.batches
      /\ \A s \in Given : s \notin able => world'.lead[s] = world.lead[s]
  BY <1>3, <1>5, TouchedLeads
<1>7. GivenView' /\ TokenStep
  BY <1>1, <1>5, <1>6, GivenAnswered, AnswersToken
<1>8. HolderStep
  BY <1>4, <1>6 DEF HolderStep
<1>. QED
  BY <1>6, <1>7, <1>8

\* What others do to the leads.
LEMMA ReclaimOthersStep ==
  ASSUME GivenView, LeadsFit(world), ReclaimOthers
  PROVE  LeadsFit(world') /\ GivenView' /\ TokenStep /\ HolderStep
<1>1. view' = view
  BY DEF ReclaimOthers, OthersReclaim, OthersGiveOut, OthersGiveUp
<1>2. ASSUME DOMAIN world.batches \subseteq DOMAIN world'.batches PROVE GivenView'
  BY <1>1, <1>2, GivenGrows DEF GivenView
<1>3. TokenStep
  <2>1. ASSUME NEW r \in view.reqs, r.answer = <<>>, [r EXCEPT !.answer = <<"ok">>] \in view'.reqs PROVE FALSE
    <3>1. Requests(view.reqs) /\ Follows(view.reqs, view.reqs, {})
      BY FollowsFacts DEF GivenView
    <3>. QED
      BY <1>1, <2>1, <3>1, OwnAnswer DEF WithAnswer
  <2>. QED
    BY <2>1 DEF TokenStep
<1>4. ASSUME NEW s \in Given, OthersReclaim(s) PROVE LeadsFit(world') /\ GivenView' /\ HolderStep
  <2>1. world' = TakenBack(world, {s}) /\ world.lead[s].status = "invalid"
    BY <1>4 DEF OthersReclaim, GivenUp
  <2>2. /\ LeadsFit(world') /\ DOMAIN world.batches \subseteq DOMAIN world'.batches
        /\ \A t \in Given : t \notin {s} => world'.lead[t] = world.lead[t]
    BY <2>1, TakenBackLeads
  <2>. QED
    BY <1>2, <2>1, <2>2 DEF HolderStep
<1>5. ASSUME NEW s \in Given, NEW row, world' = [world EXCEPT !.lead[s] = row], IsLead(row),
             row.owner # world.lead[s].owner => world.lead[s].owner = None
      PROVE  LeadsFit(world') /\ GivenView' /\ HolderStep
  <2>1. /\ DOMAIN world' = {"lead", "batches", "off"} /\ world'.lead = [world.lead EXCEPT ![s] = row]
        /\ world'.batches = world.batches
    BY <1>5 DEF LeadsFit
  <2>2. DOMAIN world'.lead = Given /\ world'.lead[s] = row /\ \A t \in Given \ {s} : world'.lead[t] = world.lead[t]
    BY <2>1 DEF LeadsFit
  <2>3. LeadsFit(world')
    BY <1>5, <2>1, <2>2 DEF LeadsFit, AreLeads
  <2>4. HolderStep
    BY <1>5, <2>2 DEF HolderStep
  <2>. QED
    BY <1>2, <2>1, <2>3, <2>4
<1>6. ASSUME NEW s \in Given, NEW a, OthersGiveOut(s, a) PROVE LeadsFit(world') /\ GivenView' /\ HolderStep
  <2> DEFINE row == [[world.lead[s] EXCEPT !.owner = a] EXCEPT !.at = @ + 1]
  <2>1. IsLead(world.lead[s])
    BY DEF LeadsFit, AreLeads
  <2>2. world' = [world EXCEPT !.lead[s] = row] /\ world.lead[s].owner = None
    BY <1>6, <2>1 DEF OthersGiveOut, IsLead, LeadsFit
  <2>3. IsLead(row)
    BY <2>1 DEF IsLead
  <2> HIDE DEF row
  <2>. QED
    BY <1>5, <2>2, <2>3
<1>7. ASSUME NEW s \in Given, NEW w, OthersGiveUp(s, w) PROVE LeadsFit(world') /\ GivenView' /\ HolderStep
  <2> DEFINE row == [[[world.lead[s] EXCEPT !.status = "invalid"] EXCEPT !.why = w] EXCEPT !.at = @ + 1]
  <2>1. IsLead(world.lead[s])
    BY DEF LeadsFit, AreLeads
  <2>2. world' = [world EXCEPT !.lead[s] = row]
    BY <1>7, <2>1 DEF OthersGiveUp, IsLead, LeadsFit
  <2>3. IsLead(row) /\ row.owner = world.lead[s].owner
    BY <2>1 DEF IsLead
  <2> HIDE DEF row
  <2>. QED
    BY <1>5, <2>2, <2>3
<1>. QED
  BY <1>3, <1>4, <1>6, <1>7 DEF ReclaimOthers

\* A step of the desk keeps its invariant, takes what was previewed and leaves work where it is.
LEMMA ReclaimStep ==
  ASSUME ReclaimHeld, page = "reclaim", ReclaimNext
  PROVE  ReclaimHeld' /\ TokenStep /\ HolderStep
<1>1. LeadsFit(world) /\ GivenView /\ page' = page
  BY ReclaimMoves DEF ReclaimHeld
<1>. SUFFICES LeadsFit(world') /\ GivenView' /\ TokenStep /\ HolderStep
  BY DEF ReclaimHeld
<1>2. ASSUME ReclaimCalm \/ ReclaimAsks PROVE LeadsFit(world') /\ GivenView' /\ TokenStep /\ HolderStep
  BY <1>1, <1>2, ReclaimMoves, ReclaimCalmStep, ReclaimAsksStep, GivenNext
<1>3. ASSUME NEW r \in view.reqs, ReclaimTold(r) PROVE LeadsFit(world') /\ GivenView' /\ TokenStep /\ HolderStep
  BY <1>1, <1>3, ReclaimMoves, ReclaimToldStep, GivenNext
<1>4. ASSUME NEW r \in view.reqs, ReclaimReads(r) PROVE LeadsFit(world') /\ GivenView' /\ TokenStep /\ HolderStep
  <2>1. world' = world
    BY <1>4, ReclaimMoves
  <2>. QED
    BY <1>1, <1>4, <2>1, ReclaimReadsStep DEF HolderStep
<1>5. ASSUME NEW r \in view.reqs, ReclaimTaken(r) \/ RollbackTaken(r)
      PROVE  LeadsFit(world') /\ GivenView' /\ TokenStep /\ HolderStep
  BY <1>1, <1>5, ReclaimTakenStep, RollbackTakenStep
<1>. QED
  BY <1>1, <1>2, <1>3, <1>4, <1>5, ReclaimOthersStep, ReclaimSteps

-----------------------------------------------------------------------------
(* The console: each desk keeps its invariant and its promise. *)

\* A page without requests under way.
LEMMA NoRequests == Requests({})
  BY FS_EmptySet DEF Requests

\* No step leaves the desk.
LEMMA StaysAtDesk ==
  ASSUME [Next]_consoleVars
  PROVE  page' = page
  BY VisitsMoves, BillsMoves, AgentsMoves, LeadsMoves, HandoverMoves, ReclaimMoves
     DEF Next, consoleVars

\* The visits' page as it opens, and every step.
LEMMA VisitsInductive ==
  /\ Init => VisitsHeld
  /\ VisitsHeld /\ [Next]_consoleVars
       => VisitsHeld' /\ [page = "visits" /\ world.record # None => world'.record = world.record]_consoleVars
<1>1. Init => VisitsHeld
  BY DEF Init, VisitsHeld, VisitsOpens
<1>2. ASSUME VisitsHeld, [Next]_consoleVars
      PROVE  /\ VisitsHeld'
             /\ [page = "visits" /\ world.record # None => world'.record = world.record]_consoleVars
  <2>1. CASE UNCHANGED consoleVars
    BY <1>2, <2>1 DEF consoleVars, VisitsHeld
  <2>2. CASE page = "visits" /\ VisitsNext
    BY <1>2, <2>2, VisitsStep
  <2>3. CASE page # "visits"
    BY <1>2, <2>3, StaysAtDesk DEF VisitsHeld
  <2>. QED
    BY <1>2, <2>1, <2>2, <2>3 DEF Next
<1>. QED
  BY <1>1, <1>2

\* A record is made once: whatever form of a visit is saved, and however often registering
\* is tried again (_create_enrollment_record), the record there is stays as it is.
THEOREM FirstRecord == Spec => FirstRecordStands
  BY VisitsInductive, PTL DEF Spec, FirstRecordStands

\* The settlements' page as it opens, and every step.
LEMMA BillsInductive ==
  /\ Init => BillsHeld
  /\ BillsHeld /\ [Next]_consoleVars => BillsHeld' /\ [page = "settlement" => BillsKept]_consoleVars
<1>1. ASSUME SettlementOpens PROVE BillsWorld /\ BillsView
  <2>1. PICK a \in Sellers, got \in [Enrolling -> {"record", "pending"}] :
          world = [record |-> [s \in Enrolling |-> IF got[s] = "record" THEN Fresh(a) ELSE None],
                   report |-> [s \in Enrolling |-> IF got[s] = "record" THEN "none" ELSE "pending"]]
    BY <1>1 DEF SettlementOpens
  <2>2. IsBill(Fresh(a))
    BY DEF IsBill, Fresh
  <2>3. BillsWorld
    BY <2>1, <2>2 DEF BillsWorld
  <2>4. DOMAIN Records(world) \subseteq Billed
    BY <2>3 DEF Records, HasRecord, Billed, BillsWorld
  <2>5. {"reqs", "rows"} \subseteq DOMAIN view /\ view.reqs = {} /\ view.rows = Records(world)
    BY <1>1 DEF SettlementOpens
  <2>. QED
    BY <2>3, <2>4, <2>5, NoRequests DEF BillsView
<1>2. Init => BillsHeld
  BY <1>1 DEF Init, BillsHeld
<1>3. ASSUME BillsHeld, [Next]_consoleVars PROVE BillsHeld' /\ [page = "settlement" => BillsKept]_consoleVars
  <2>1. CASE UNCHANGED consoleVars
    BY <1>3, <2>1 DEF consoleVars, BillsHeld, BillsWorld, BillsView, Billed
  <2>2. CASE page = "settlement" /\ SettlementNext
    BY <1>3, <2>2, BillsStep
  <2>3. CASE page # "settlement"
    BY <1>3, <2>3, StaysAtDesk DEF BillsHeld
  <2>. QED
    BY <1>3, <2>1, <2>2, <2>3 DEF Next
<1>. QED
  BY <1>2, <1>3

\* What a settled record was paid stays while it is settled, however old the forms are that
\* are saved (admissions_enrollments.py:318).
THEOREM SettledStays == Spec => SettledStaysPaid
<1>1. BillsKept => \A s \in Enrolling :
        LET now == world.record[s]
            then == world'.record[s]
        IN  now # None /\ now.status = "settled" /\ then.status = "settled" /\ now.paid # "nothing"
              => then.paid = now.paid
  BY DEF BillsKept
<1>. QED
  BY <1>1, BillsInductive, PTL DEF Spec, SettledStaysPaid

\* The accounts' page as it opens, and every step.
LEMMA AgentsInductive ==
  /\ Init => AgentsHeld
  /\ AgentsHeld /\ [Next]_consoleVars => AgentsHeld' /\ [page = "agents" => SeenStep /\ FoundStep]_consoleVars
<1>1. ASSUME AgentsOpens PROVE AgentsWorld /\ AgentsView /\ StartedIsKept /\ StartsKnown
  <2>1. PICK a \in Agents :
          world = [acc |-> [b \in Agents |-> Hired], owner |-> [l \in Leads |-> a], started |-> {}]
    BY <1>1, Zenon DEF AgentsOpens
  <2>2. AgentsWorld /\ world.started = {}
    BY <2>1 DEF AgentsWorld
  <2> DEFINE opened == [list |-> world.acc, loading |-> FALSE, filter |-> "active", reqs |-> {},
                        pane |-> None, tasks |-> None, waiting |-> FALSE, unfolded |-> None,
                        details |-> [l \in Leads |-> "none"], asking |-> None, acting |-> None,
                        kept |-> [b \in Agents |-> <<>>], keys |-> 0, recycle |-> Closed, form |-> None,
                        away |-> FALSE, blurred |-> {}]
             Fine(v) == /\ {"reqs", "kept", "away", "blurred", "asking"} \subseteq DOMAIN v /\ v.reqs = {}
                        /\ DOMAIN v.kept = Agents
                        /\ v.asking # None => v.asking.agent \in Agents /\ v.asking.what \in {"suspend", "start", "reset"}
  <2>3. \/ view = opened
        \/ \E b \in Agents : \/ view = [opened EXCEPT !.asking = [what |-> "start", agent |-> b, acc |-> Hired]]
                             \/ view = [opened EXCEPT !.recycle.agent = b, !.recycle.acc = Hired,
                                                      !.recycle.rows = LeadsOf(world, b)]
    BY <1>1, Zenon DEF AgentsOpens
  <2>4. Fine(opened)
    OBVIOUS
  <2> HIDE DEF opened
  <2>5. ASSUME NEW b \in Agents PROVE Fine([opened EXCEPT !.asking = [what |-> "start", agent |-> b, acc |-> Hired]])
    BY <2>4
  <2>6. ASSUME NEW b, NEW acc, NEW rows
        PROVE  Fine([opened EXCEPT !.recycle.agent = b, !.recycle.acc = acc, !.recycle.rows = rows])
    BY <2>4
  <2>7. Fine(view)
    <3>1. CASE view = opened
      BY <2>4, <3>1
    <3>2. CASE \E b \in Agents : view = [opened EXCEPT !.asking = [what |-> "start", agent |-> b, acc |-> Hired]]
      BY <2>5, <3>2
    <3>3. CASE \E b \in Agents : view = [opened EXCEPT !.recycle.agent = b, !.recycle.acc = Hired,
                                                      !.recycle.rows = LeadsOf(world, b)]
      BY <2>6, <3>3
    <3>. QED
      BY <2>3, <3>1, <3>2, <3>3
  <2>. QED
    BY <2>2, <2>7, NoRequests DEF AgentsView, StartedIsKept, StartsKnown
<1>2. Init => AgentsHeld
  BY <1>1 DEF Init, AgentsHeld
<1>3. ASSUME AgentsHeld, [Next]_consoleVars
      PROVE  AgentsHeld' /\ [page = "agents" => SeenStep /\ FoundStep]_consoleVars
  <2>1. CASE UNCHANGED consoleVars
    BY <1>3, <2>1 DEF consoleVars, AgentsHeld, AgentsWorld, AgentsView, StartedIsKept, StartsKnown, StartKnown
  <2>2. CASE page = "agents" /\ AgentsNext
    BY <1>3, <2>2, AgentsStep
  <2>3. CASE page # "agents"
    BY <1>3, <2>3, StaysAtDesk DEF AgentsHeld
  <2>. QED
    BY <1>3, <2>1, <2>2, <2>3 DEF Next
<1>. QED
  BY <1>2, <1>3

\* An employee is suspended or resumed only as the administrator saw the account, whatever
\* the list and the pane show by then (expected_version).
THEOREM SuspendsAsSeen == Spec => SuspendsWhatWasSeen
<1>1. SeenStep => \A r \in view.reqs :
        r.kind = "toggle" /\ r.answer = <<>> /\ (\E q \in view'.reqs : q = [r EXCEPT !.answer = <<"ok">>])
          => world.acc[r.of.agent].version = r.of.seen
  BY DEF SeenStep
<1>. QED
  BY <1>1, AgentsInductive, PTL DEF Spec, SuspendsWhatWasSeen

\* Starting a handover again leads to the batch there is: the key that is kept is the one
\* the batch was started with (startHandoverRequestRef).
THEOREM StartFindsBatch == Spec => StartAgainFindsBatch
<1>1. FoundStep => \A r \in view.reqs :
        r.kind = "start" /\ (\E q \in view'.reqs : q = [r EXCEPT !.answer = <<"conflict">>])
          => r.of.agent \in view.blurred \/ \A t \in world.started : t.agent # r.of.agent
  BY DEF FoundStep
<1>. QED
  BY <1>1, AgentsInductive, PTL DEF Spec, StartAgainFindsBatch

\* The leads' page as it opens, and every step.
LEMMA LeadsInductive ==
  /\ Init => LeadsHeld
  /\ LeadsHeld /\ [Next]_consoleVars => LeadsHeld' /\ [page = "leads" => NamedStep]_consoleVars
<1>1. ASSUME LeadsOpens PROVE LeadsView
  <2>1. ASSUME NEW v, {"reqs", "forms", "asking"} \subseteq DOMAIN v, v.reqs = {}, v.forms = {}, NEW q,
               view = v \/ view = FetchStudents(v, q)
        PROVE  LeadsView
    <3>1. Requests(Ask({}, "students", q))
      BY NoRequests, AskAdds
    <3>2. /\ {"reqs", "forms", "asking"} \subseteq DOMAIN view /\ view.forms = {}
          /\ view.reqs \in {{}, Ask({}, "students", q)}
      BY <2>1 DEF FetchStudents, SendLead
    <3>. QED
      BY <3>1, <3>2, NoRequests DEF LeadsView
  <2> DEFINE first == Listed(world, [status |-> "all", search |-> "", page |-> 1])
             opened == [status |-> "all", search |-> "", page |-> 1, rows |-> first.rows, total |-> first.total,
                        loading |-> FALSE, picked |-> {}, unfolded |-> None,
                        panels |-> [p \in Pupils |-> Panel("none", Kept)], assign |-> None,
                        dispatch |-> NoDispatch, forms |-> {}, asking |-> None, note |-> {}, busy |-> {},
                        away |-> FALSE, reqs |-> {}]
             Empty(v) == {"reqs", "forms", "asking"} \subseteq DOMAIN v /\ v.reqs = {} /\ v.forms = {}
  <2>2. Empty(opened)
    OBVIOUS
  <2>3. \/ view = opened
        \/ \E a \in Callers, ids \in SUBSET DOMAIN first.rows \ {{}} :
             view = FetchStudents([opened EXCEPT !.picked = ids, !.assign = [to |-> a]], Query(opened, 1))
        \/ view = [opened EXCEPT !.unfolded = 1, !.panels[1] = Panel("filled", world[1])]
        \/ view = [opened EXCEPT !.dispatch.open = TRUE, !.dispatch.offered = Dispatchable(world)]
        \/ \E g \in Dispatchable(world), a \in Callers :
             view = [opened EXCEPT !.dispatch = [NoDispatch EXCEPT !.open = TRUE, !.offered = Dispatchable(world),
                       !.regions = {g}, !.schools = {g}, !.school = g, !.req = 1, !.to = {a}]]
    BY <1>1, Zenon DEF LeadsOpens
  <2> HIDE DEF opened
  <2>4. \A ids, to : Empty([opened EXCEPT !.picked = ids, !.assign = to])
    BY <2>2
  <2>5. \A w : Empty([opened EXCEPT !.unfolded = 1, !.panels[1] = w])
    BY <2>2
  <2>6. \A d : Empty([opened EXCEPT !.dispatch = d])
    BY <2>2
  <2>7. Empty([opened EXCEPT !.dispatch.open = TRUE, !.dispatch.offered = Dispatchable(world)])
    BY <2>2
  <2>. QED
    BY <2>1, <2>2, <2>3, <2>4, <2>5, <2>6, <2>7
<1>2. Init => LeadsHeld
  BY <1>1 DEF Init, LeadsHeld
<1>3. ASSUME LeadsHeld, [Next]_consoleVars PROVE LeadsHeld' /\ [page = "leads" => NamedStep]_consoleVars
  <2>1. CASE UNCHANGED consoleVars
    BY <1>3, <2>1 DEF consoleVars, LeadsHeld, LeadsView
  <2>2. CASE page = "leads" /\ LeadsNext
    BY <1>3, <2>2, LeadsStep
  <2>3. CASE page # "leads"
    BY <1>3, <2>3, StaysAtDesk DEF LeadsHeld
  <2>. QED
    BY <1>3, <2>1, <2>2, <2>3 DEF Next
<1>. QED
  BY <1>2, <1>3

\* Leads change hands only as the question said that was confirmed (handleAssign).
THEOREM AssignsAsNamed == Spec => AssignsWhatWasNamed
<1>1. NamedStep => \A r \in view'.reqs \ view.reqs :
        r.kind = "change" /\ r.of.what = "assign" /\ r.answer = <<>> => r.of = view.asking
  BY DEF NamedStep
<1>. QED
  BY <1>1, LeadsInductive, PTL DEF Spec, AssignsWhatWasNamed

\* The handover centre as it opens, and every step.
LEMMA HandoverInductive ==
  /\ Init => HandoverHeld
  /\ HandoverHeld /\ [Next]_consoleVars => HandoverHeld' /\ [page = "handover" => CountedStep]_consoleVars
<1>1. Init => HandoverHeld
  BY DEF Init, HandoverHeld, HandoverOpens, HandoverWorld, HandoverView
<1>2. ASSUME HandoverHeld, [Next]_consoleVars PROVE HandoverHeld' /\ [page = "handover" => CountedStep]_consoleVars
  <2>1. CASE UNCHANGED consoleVars
    BY <1>2, <2>1, SameFits DEF consoleVars, HandoverHeld, HandoverWorld, HandoverView, DialogFits,
           PreviewFits, CountFits
  <2>2. CASE page = "handover" /\ HandoverNext
    BY <1>2, <2>2, HandoverStep
  <2>3. CASE page # "handover"
    BY <1>2, <2>3, StaysAtDesk DEF HandoverHeld
  <2>. QED
    BY <1>2, <2>1, <2>2, <2>3 DEF Next
<1>. QED
  BY <1>1, <1>2

\* A transfer moves exactly the students that its preview counted, whoever else transfers
\* meanwhile (expected_version).
THEOREM MovesAsCounted == Spec => MovesWhatWasCounted
<1>1. CountedStep => \A t \in world'.transfers \ world.transfers : t.moved = view.dialog.counted
  BY DEF CountedStep
<1>. QED
  BY <1>1, HandoverInductive, PTL DEF Spec, MovesWhatWasCounted

\* The page of the leads given up as it opens, and every step.
LEMMA ReclaimInductive ==
  /\ Init => ReclaimHeld
  /\ ReclaimHeld /\ [Next]_consoleVars => ReclaimHeld' /\ [page = "reclaim" => TokenStep /\ HolderStep]_consoleVars
<1>1. ASSUME ReclaimOpens PROVE LeadsFit(world) /\ GivenView
  <2> DEFINE Leads0(a, why, third, off) ==
               [lead |-> [s \in Given |->
                  [status |-> IF s = 3 THEN third ELSE "invalid", why |-> IF s = 2 THEN why ELSE "plain",
                   owner |-> IF s = 1 \/ (third = "worked" /\ s = 3) THEN a ELSE None, at |-> 0]],
                batches |-> <<[s \in {3} |-> [status |-> "invalid", why |-> "plain", owner |-> a, at |-> 0]]>>,
                off |-> off]
             Page0(third) ==
               LET opened == [at |-> "reclaim", reason |-> "any", q |-> "any", loading |-> FALSE,
                      groups |-> Groups(world, [reason |-> "any", q |-> "any"]), unfolded |-> None,
                      rows |-> NoRows, listing |-> FALSE, picked |-> {}, school |-> None, action |-> "none",
                      asking |-> None, logs |-> {}, reading |-> FALSE, plan |-> None, rolling |-> FALSE,
                      reqs |-> {}]
               IN  \/ view = opened
                   \/ LET ticked == [opened EXCEPT !.unfolded = SchoolOf(1), !.picked = {1},
                                !.rows = RowsOf(world, [school |-> SchoolOf(1), params |-> Params(opened)])]
                          about == About(ticked, "batch", None, {1})
                      IN  \/ view = ticked
                          \/ view = [ticked EXCEPT !.asking = [about EXCEPT !.token = Token(world, about)]]
                   \/ view = [opened EXCEPT !.at = "audit", !.logs = {1},
                                !.plan = [batch |-> 1, able |-> IF third = "pool" THEN {3} ELSE {}]]
  <2>0. \E a \in Holders, why \in Reasons, third \in {"pool", "worked"}, off \in {{}, Holders} :
          world = Leads0(a, why, third, off) /\ Page0(third)
    BY <1>1 DEF ReclaimOpens
  <2> HIDE DEF Page0, Leads0
  <2>1. PICK a \in Holders, why \in Reasons, third \in {"pool", "worked"}, off \in {{}, Holders} :
          world = Leads0(a, why, third, off)
    BY <2>0
  <2> USE DEF Leads0
  <2> DEFINE row == [status |-> "invalid", why |-> "plain", owner |-> a, at |-> 0]
             batch == [s \in {3} |-> row]
  <2>2. AreLeads(batch)
    BY GivenAssumption DEF AreLeads, IsLead
  <2>3. AreLeads(world.lead) /\ DOMAIN world.lead = Given
    BY <2>1 DEF AreLeads, IsLead
  <2>4. DOMAIN world = {"lead", "batches", "off"} /\ world.batches = <<batch>>
    BY <2>1
  <2> HIDE DEF batch
  <2>5. /\ DOMAIN world.batches = {1} /\ world.batches[1] = batch
        /\ world.batches \in Seq(Members(world.batches))
    <3>1. <<batch>> \in Seq({batch}) /\ Len(<<batch>>) = 1
      OBVIOUS
    <3>2. DOMAIN <<batch>> = {1} /\ <<batch>>[1] = batch
      BY <3>1
    <3>3. Members(<<batch>>) = {batch}
      BY <3>2 DEF Members
    <3>. QED
      BY <2>4, <3>1, <3>2, <3>3
  <2>6. LeadsFit(world)
    BY <2>2, <2>3, <2>4, <2>5 DEF LeadsFit
  <2> DEFINE opened == [at |-> "reclaim", reason |-> "any", q |-> "any", loading |-> FALSE,
                        groups |-> Groups(world, [reason |-> "any", q |-> "any"]), unfolded |-> None,
                        rows |-> NoRows, listing |-> FALSE, picked |-> {}, school |-> None, action |-> "none",
                        asking |-> None, logs |-> {}, reading |-> FALSE, plan |-> None, rolling |-> FALSE,
                        reqs |-> {}]
             of == [school |-> SchoolOf(1), params |-> Params(opened)]
             ticked == [opened EXCEPT !.unfolded = SchoolOf(1), !.picked = {1}, !.rows = RowsOf(world, of)]
             about == About(ticked, "batch", None, {1})
             asked == [about EXCEPT !.token = Token(world, about)]
             Fine(v) == ShowsGiven(v) /\ v.reqs = {}
  <2>7. \/ view = opened \/ view = ticked \/ view = [ticked EXCEPT !.asking = asked]
        \/ \E able : view = [opened EXCEPT !.at = "audit", !.logs = {1}, !.plan = [batch |-> 1, able |-> able]]
    BY <1>1, Zenon DEF ReclaimOpens
  <2>8. Fine(opened)
    BY DEF ShowsGiven, NoRows
  <2> HIDE DEF opened
  <2>9. Fine(ticked)
    <3>1. DOMAIN RowsOf(world, of) \subseteq Given
      BY DEF RowsOf, Matching, GivenUp
    <3> HIDE DEF of
    <3>. QED
      BY <2>8, <3>1, GivenAssumption DEF ShowsGiven
  <2>10. "ids" \in DOMAIN asked /\ asked.ids = {1}
    BY DEF About
  <2> HIDE DEF ticked, asked
  <2>11. Fine([ticked EXCEPT !.asking = asked])
    BY <2>9, <2>10, GivenAssumption DEF ShowsGiven, OfFits
  <2>12. \A able : Fine([opened EXCEPT !.at = "audit", !.logs = {1}, !.plan = [batch |-> 1, able |-> able]])
    BY <2>5, <2>8 DEF ShowsGiven
  <2>13. Fine(view)
    BY <2>7, <2>8, <2>9, <2>11, <2>12
  <2>. QED
    BY <2>6, <2>13, NoRequests DEF GivenView
<1>2. Init => ReclaimHeld
  BY <1>1 DEF Init, ReclaimHeld
<1>3. ASSUME ReclaimHeld, [Next]_consoleVars
      PROVE  ReclaimHeld' /\ [page = "reclaim" => TokenStep /\ HolderStep]_consoleVars
  <2>1. CASE UNCHANGED consoleVars
    BY <1>3, <2>1 DEF consoleVars, ReclaimHeld, GivenView, ShowsGiven, OfFits, AnswerFits
  <2>2. CASE page = "reclaim" /\ ReclaimNext
    BY <1>3, <2>2, ReclaimStep
  <2>3. CASE page # "reclaim"
    BY <1>3, <2>3, StaysAtDesk DEF ReclaimHeld
  <2>. QED
    BY <1>3, <2>1, <2>2, <2>3 DEF Next
<1>. QED
  BY <1>2, <1>3

\* What is taken back are the leads of the preview that was confirmed, all of them and no
\* others, as they were then (reclaim_preview_token).
THEOREM TakesAsPreviewed == Spec => TakesWhatWasPreviewed
<1>1. TokenStep => \A r \in view.reqs :
        r.kind = "reclaim" /\ r.of.what # "delete" /\ r.answer = <<>>
          /\ (\E q \in view'.reqs : q = [r EXCEPT !.answer = <<"ok">>])
          => r.of.token = [s \in {t \in Given : world'.lead[t] # world.lead[t]} |-> world.lead[s]]
  BY DEF TokenStep
<1>. QED
  BY <1>1, ReclaimInductive, PTL DEF Spec, TakesWhatWasPreviewed

\* No lead leaves the caller who works on it, neither when it is taken back nor when a batch
\* of the past is put back (_rollback_skip_reason).
THEOREM WorkStays == Spec => WorkStaysWithHolder
<1>1. HolderStep => \A s \in Given :
        world.lead[s].owner # None /\ world'.lead[s].owner # world.lead[s].owner
          => world.lead[s].status = "invalid"
  BY DEF HolderStep
<1>. QED
  BY <1>1, ReclaimInductive, PTL DEF Spec, WorkStaysWithHolder

=============================================================================
