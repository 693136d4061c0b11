--------------------------- MODULE HandoverProofs ---------------------------
(***************************************************************************)
(* The handover protocol, for any requests, workers, students and keys:    *)
(* the types, the ledger of a batch, and the promise it makes.             *)
(*                                                                         *)
(* The types are inductive with those of the requests in flight: which     *)
(* operation may have reached which step, and with what it read.           *)
(*                                                                         *)
(* The counters of a batch are those of its transfers (CountersMatch), and *)
(* a retry of a transfer is told what the first request was told           *)
(* (ReplaysAgree).  CountersMatch is inductive only with what the requests *)
(* in flight know: one that is about to fill its batch finds it as it      *)
(* inserted it, and one about to transfer has read the number of students  *)
(* transferred at the version it names.                                    *)
(*                                                                         *)
(* With one worker, whose lock every start_handover takes, and nobody who  *)
(* suspends or resumes the leaver meanwhile, the leaver gets one batch     *)
(* (OneBatch), and the requests keep the promise of the handover           *)
(* (KeepsPromise).  Both conditions are needed.  Two workers do not share  *)
(* the lock; and update_user writes the employment it decided on earlier,  *)
(* which can undo an offboarding that ended in between, so that the leaver *)
(* is handed over again.                                                   *)
(***************************************************************************)
EXTENDS HandoverRequests, FiniteSetTheorems, TLAPS

USE OpAssumption, FiniteAssumption, NamesAssumption

-----------------------------------------------------------------------------
(* Sums of the counts of transfers. *)

\* The disjoint union whose size the sum is, for any table of transfers.
Tickets(tr, T) == UNION {{t} \X (1..tr[t].count) : t \in T}

\* One row of it has as many elements as the transfer has students.
LEMMA TicketRow ==
  ASSUME NEW t, NEW n \in Nat
  PROVE  IsFiniteSet({t} \X (1..n)) /\ Cardinality({t} \X (1..n)) = n
<1>1. IsFiniteSet({t}) /\ Cardinality({t}) = 1
  BY FS_Singleton
<1>2. IsFiniteSet(1..n) /\ Cardinality(1..n) = n
  <2>1. IsFiniteSet(1..n) /\ Cardinality(1..n) = IF 1 > n THEN 0 ELSE n - 1 + 1
    BY FS_Interval
  <2>. QED
    BY <2>1
<1>3. IsFiniteSet({t} \X (1..n)) /\ Cardinality({t} \X (1..n)) = Cardinality({t}) * Cardinality(1..n)
  BY <1>1, <1>2, FS_Product
<1>. QED
  BY <1>1, <1>2, <1>3

\* A sum over finitely many transfers is a number.
LEMMA TicketsFinite ==
  ASSUME NEW tr, NEW T, IsFiniteSet(T), \A t \in T : tr[t].count \in Nat
  PROVE  IsFiniteSet(Tickets(tr, T)) /\ Cardinality(Tickets(tr, T)) \in Nat
<1> DEFINE f == [t \in T |-> {t} \X (1..tr[t].count)]
           U == {f[t] : t \in T}
<1>1. f \in Surjection(T, U)
  BY DEF Surjection
<1>2. IsFiniteSet(U)
  BY <1>1, FS_Surjection
<1>3. \A t \in T : IsFiniteSet(f[t])
  BY TicketRow
<1>4. IsFiniteSet(UNION U)
  BY <1>2, <1>3, FS_UNION
<1>5. UNION U = Tickets(tr, T)
  BY DEF Tickets
<1>. QED
  BY <1>4, <1>5, FS_CardinalityType

\* One more transfer adds its count.
LEMMA TicketsAdd ==
  ASSUME NEW tr, NEW T, IsFiniteSet(T), NEW t, t \notin T,
         \A u \in T \cup {t} : tr[u].count \in Nat
  PROVE  Cardinality(Tickets(tr, T \cup {t})) = Cardinality(Tickets(tr, T)) + tr[t].count
<1> DEFINE A == Tickets(tr, T)
           B == {t} \X (1..tr[t].count)
<1>1. IsFiniteSet(A) /\ Cardinality(A) \in Nat
  BY TicketsFinite
<1>2. IsFiniteSet(B) /\ Cardinality(B) = tr[t].count
  BY TicketRow
<1>3. A \cap B = {}
  BY DEF Tickets
<1>4. Tickets(tr, T \cup {t}) = A \cup B
  BY DEF Tickets
<1> HIDE DEF A, B
<1>5. Cardinality(A \cup B) = Cardinality(A) + Cardinality(B) - Cardinality(A \cap B)
  BY <1>1, <1>2, FS_Union
<1>6. Cardinality(A \cap B) = 0
  BY <1>3, FS_EmptySet
<1>7. Cardinality(A \cup B) = Cardinality(A) + tr[t].count
  BY <1>1, <1>2, <1>5, <1>6
<1>. QED
  BY <1>4, <1>7 DEF A

\* The sum depends on the counts only.
LEMMA TicketsSame ==
  ASSUME NEW tr, NEW tr2, NEW T, \A t \in T : tr2[t].count = tr[t].count
  PROVE  Tickets(tr2, T) = Tickets(tr, T)
BY DEF Tickets

-----------------------------------------------------------------------------
(* Types. *)

Pcs == {"idle", "waiting", "checked", "inserted", "planned", "done"}
\* What a request keeps.
Replies == [kind : {"none", "ok", "conflict", "error", "lost"}, ids : SUBSET Student,
            left : Nat, version : Nat]
Requests == [pc : Pcs, worker : Worker \cup {None}, op : Op \cup {None}, seat : Nat,
             count : Nat, plan : SUBSET Student, reply : Replies]

\* A request in flight has an operation; only start_handover inserts a batch and plans
\* it, a transfer to the leaver is refused at its check, and only a request that is done
\* has a reply.
RequestOK(q) ==
  /\ q \in Requests
  /\ q.pc # "idle" => q.op \in Op
  /\ q.pc = "checked" /\ q.op.type = "transfer" => q.op.to # Leaver
  /\ q.pc \in {"inserted", "planned"} => q.op.type \in {"start", "offboard"}
  /\ q.pc # "done" => q.reply = NoReply

\* The types of the tables and of the requests; finitely many transfers were made, each
\* of a batch.
TypeInv == /\ TypeOK
           /\ req \in [Request -> Requests]
           /\ \A r \in Request : RequestOK(req[r])
           /\ \A k \in StartKey : IsFiniteSet(TransfersOf(k))
           /\ \A t \in TransferKey : transfer[t] # NoTransfer => transfer[t].batch \in StartKey

\* What the operations carry.
LEMMA OpShapes ==
  ASSUME NEW op \in Op
  PROVE  /\ op.type \in {"start", "offboard", "transfer", "assign", "employ"}
         /\ op.type \in {"start", "offboard"} => op.key \in StartKey
         /\ op.type = "transfer" =>
              /\ op.key \in TransferKey /\ op.batch \in StartKey /\ op.version \in Nat
              /\ op.to \in Agent \cup {Leaver} /\ op.chosen \in SUBSET Student
         /\ op.type = "assign" => op.student \in Student /\ op.to \in Agent \cup {Leaver}
         /\ op.type = "employ" => op.to \in {"active", "suspended"}
<1>1. op \in Ops
  OBVIOUS
<1>. QED
  BY <1>1 DEF Ops

\* Whatever part of a request a step changes, it changes it for that request only.
LEMMA OneRequest ==
  ASSUME TypeInv, NEW r \in Request, NEW q, RequestOK(q), req' = [req EXCEPT ![r] = q]
  PROVE  req' \in [Request -> Requests] /\ \A x \in Request : RequestOK(req'[x])
BY DEF TypeInv, RequestOK

\* An answered request.
LEMMA EndedOK ==
  ASSUME NEW q, RequestOK(q), q.pc # "idle", NEW reply \in Replies
  PROVE  RequestOK(Ended(q, reply))
BY DEF RequestOK, Requests, Ended, Idle, Pcs

\* And the answering of one.
LEMMA AnswerOK ==
  ASSUME TypeInv, NEW r \in Request, req[r].pc # "idle", NEW reply \in Replies, Answer(r, reply)
  PROVE  req' \in [Request -> Requests] /\ \A x \in Request : RequestOK(req'[x])
<1>1. req' = [req EXCEPT ![r] = Ended(req[r], reply)]
  BY DEF Answer
<1>. QED
  BY <1>1, EndedOK, OneRequest DEF TypeInv

\* A request that goes on keeps its operation, and has no reply yet.
LEMMA AdvanceOK ==
  ASSUME TypeInv, NEW r \in Request, At(r, "waiting") \/ Starts(r), ~At(r, "done"),
         NEW q \in Requests, q.op = req[r].op, q.reply = req[r].reply,
         q.pc \in {"checked", "inserted", "planned"}, q.pc # "checked" => Starts(r),
         q.op.type = "transfer" => q.op.to # Leaver,
         req' = [req EXCEPT ![r] = q]
  PROVE  req' \in [Request -> Requests] /\ \A x \in Request : RequestOK(req'[x])
<1>1. RequestOK(req[r]) /\ req[r].pc # "idle"
  BY DEF TypeInv, At, Starts, Asks
<1>2. RequestOK(q)
  BY <1>1 DEF RequestOK, At, Starts, Asks
<1>. QED
  BY <1>2, OneRequest

\* What the tables hold of a batch, of its items and of a transfer.
BatchRow == [status : BatchStatus, version : Nat, total : Nat, remaining : Nat,
             transferred : Nat]
\* A transfer, and a student.
TransferRow == [batch : StartKey \cup {None}, version : Nat, to : Agent \cup {None},
                chosen : SUBSET Student, count : Nat]
StudentRow == [here : BOOLEAN, agent : Agent \cup {Leaver, None}, seat : Nat]

\* The parts of the type invariant.
ReqsOK   == req \in [Request -> Requests] /\ \A x \in Request : RequestOK(req[x])
\* The tables of the service.
TablesOK ==
  /\ employment \in {"active", "suspended", "handover_pending", "offboarded"}
  /\ student \in [Student -> StudentRow]
  /\ batch \in [StartKey -> BatchRow]
  /\ item \in [StartKey -> [Student -> TransferKey \cup {None, "pending"}]]
  /\ transfer \in [TransferKey -> TransferRow]
  /\ \A k \in StartKey : IsFiniteSet(TransfersOf(k))
  /\ \A t \in TransferKey : transfer[t] # NoTransfer => transfer[t].batch \in StartKey

\* The type invariant, in these parts.
LEMMA TypeParts ==
  /\ TypeInv <=> ReqsOK /\ TablesOK /\ crashes \in 0..MaxCrash
  /\ TypeInv' <=> ReqsOK' /\ TablesOK' /\ crashes' \in 0..MaxCrash
BY DEF TypeInv, TypeOK, ReqsOK, TablesOK, BatchRow, TransferRow, StudentRow, RequestOK,
       TransfersOf

\* A step that writes no table.
LEMMA FrameTables == ASSUME TablesOK, UNCHANGED db PROVE TablesOK'
BY DEF TablesOK, db, TransfersOf

\* Any set of students is finite.
LEMMA SomeStudents ==
  ASSUME NEW S \in SUBSET Student
  PROVE  IsFiniteSet(S) /\ Cardinality(S) \in Nat
BY FS_Subset, FS_CardinalityType

\* Giving a student to somebody.
LEMMA ReseatType ==
  ASSUME NEW s \in StudentRow, NEW a \in Agent \cup {Leaver, None}
  PROVE  [s EXCEPT !.agent = a, !.seat = @ + 1] \in StudentRow
<1>1. s.seat + 1 \in Nat
  BY DEF StudentRow
<1>2. ASSUME NEW n \in Nat
      PROVE  [s EXCEPT !.agent = a, !.seat = n] \in StudentRow
  BY DEF StudentRow
<1>. QED
  BY <1>1, <1>2

\* Refusals, failures and accepted calls.
LEMMA RefuseOK ==
  ASSUME TypeInv, NEW r \in Request, req[r].pc # "idle",
         Refuse(r) \/ Fail(r) \/ \E n \in Nat : Accept(r, n)
  PROVE  ReqsOK' /\ TablesOK'
<1>1. PICK reply \in Replies : Answer(r, reply) /\ UNCHANGED db
  BY DEF Refuse, Fail, Accept, Ok, NoReply, Replies
<1>. QED
  BY <1>1, AnswerOK, FrameTables, TypeParts DEF ReqsOK

\* What the second commit of start_handover does when no planned student is gone.
Fills(r) ==
  LET k == req[r].op.key
      P == req[r].plan
      n == Cardinality(P)
  IN /\ At(r, "planned") /\ P \in SUBSET Student /\ n \in Nat
     /\ \A s \in P : student[s].here
     /\ batch' = [batch EXCEPT ![k] = [batch[k] EXCEPT
          !.total = n, !.remaining = n, !.status = IF n = 0 THEN "completed" ELSE @]]
     /\ item' = [item EXCEPT ![k] = [s \in Student |-> IF s \in P THEN "pending" ELSE @[s]]]
     /\ employment' = IF n = 0 THEN "offboarded" ELSE "handover_pending"
     /\ Answer(r, Ok({}, n, 0))
     /\ UNCHANGED <<student, transfer>>

\* The batch after it.
LEMMA AfterFill ==
  ASSUME NEW b \in BatchRow, NEW n \in Nat
  PROVE  LET b2 == [b EXCEPT !.total = n, !.remaining = n,
                             !.status = IF n = 0 THEN "completed" ELSE @]
         IN /\ b2 \in BatchRow /\ b2.total = n /\ b2.remaining = n
            /\ b2.version = b.version /\ b2.transferred = b.transferred
            /\ b2.status = IF n = 0 THEN "completed" ELSE b.status
<1>1. ASSUME NEW x \in BatchStatus
      PROVE  LET b2 == [b EXCEPT !.total = n, !.remaining = n, !.status = x]
             IN /\ b2 \in BatchRow /\ b2.total = n /\ b2.remaining = n
                /\ b2.version = b.version /\ b2.transferred = b.transferred
                /\ b2.status = x
  BY DEF BatchRow
<1>2. (IF n = 0 THEN "completed" ELSE b.status) \in BatchStatus
  BY DEF BatchStatus, BatchRow
<1>. QED
  BY <1>1, <1>2

\* The request of a start, and what its second commit does.
LEMMA StartFacts ==
  ASSUME TypeInv, NEW r \in Request,
         StartCheck(r) \/ StartInsert(r) \/ StartPlan(r) \/ StartFinish(r)
  PROVE  /\ ReqsOK /\ TablesOK /\ req[r] \in Requests /\ RequestOK(req[r])
         /\ req[r].pc # "idle" /\ ~At(r, "done") /\ Starts(r)
         /\ req[r].op.type # "transfer" /\ req[r].op.key \in StartKey
         /\ StartFinish(r) => Fail(r) \/ Fills(r)
<1> DEFINE k == req[r].op.key
           P == req[r].plan
           n == Cardinality(P)
<1>0. /\ ReqsOK /\ TablesOK /\ req[r] \in Requests /\ RequestOK(req[r])
      /\ req[r].pc # "idle" /\ Starts(r) /\ ~At(r, "done") /\ req[r].op.type # "transfer"
  BY TypeParts DEF StartCheck, StartInsert, StartPlan, StartFinish, Starts, Asks, ReqsOK, At
<1>1. k \in StartKey
  BY <1>0, OpShapes DEF RequestOK, Starts, Asks
<1>2. batch[k] \in BatchRow /\ batch \in [StartKey -> BatchRow]
  BY <1>0, <1>1 DEF TablesOK
<1>3. P \in SUBSET Student /\ n \in Nat
  BY <1>0, SomeStudents DEF Requests
<1>4. ASSUME StartFinish(r), ~Fail(r)
      PROVE  Fills(r)
  <2> HIDE DEF n
  <2>1. /\ At(r, "planned") /\ ~\E s \in P : ~student[s].here
        /\ item' = [item EXCEPT ![k] = [s \in Student |-> IF s \in P THEN "pending" ELSE @[s]]]
        /\ batch' = [batch EXCEPT ![k].total = n, ![k].remaining = n,
                                  ![k].status = IF n = 0 THEN "completed" ELSE @]
        /\ employment' = IF n = 0 THEN "offboarded" ELSE "handover_pending"
        /\ Answer(r, Ok({}, n, 0))
        /\ UNCHANGED <<student, transfer>>
    BY <1>4 DEF StartFinish, n
  <2>2. batch' = [batch EXCEPT ![k] = [batch[k] EXCEPT
          !.total = n, !.remaining = n, !.status = IF n = 0 THEN "completed" ELSE @]]
    BY <1>1, <1>2, <2>1 DEF BatchRow
  <2>. QED
    BY <1>3, <2>1, <2>2 DEF Fills, n
<1>. QED
  BY <1>0, <1>1, <1>4

\* start_handover and offboard_user keep the types.
LEMMA StartTypes ==
  ASSUME TypeInv, NEW r \in Request,
         StartCheck(r) \/ StartInsert(r) \/ StartPlan(r) \/ StartFinish(r)
  PROVE  ReqsOK' /\ TablesOK'
<1> DEFINE k == req[r].op.key
<1>0. /\ ReqsOK /\ TablesOK /\ req[r] \in Requests /\ RequestOK(req[r])
      /\ req[r].pc # "idle" /\ ~At(r, "done") /\ Starts(r)
      /\ req[r].op.type # "transfer" /\ k \in StartKey
  BY StartFacts
<1>1. \A b \in StartKey : batch[b].remaining \in Nat
  BY <1>0 DEF TablesOK, BatchRow
<1>2. ASSUME NEW pc \in {"checked", "inserted"}, Advance(r, pc)
      PROVE  ReqsOK'
  <2> DEFINE q == [req[r] EXCEPT !.pc = pc]
  <2>1. q \in Requests /\ q.pc = pc /\ q.op = req[r].op /\ q.reply = req[r].reply
    BY <1>0 DEF Requests, Pcs
  <2>2. req' = [req EXCEPT ![r] = q]
    BY <1>2 DEF Advance
  <2> HIDE DEF q
  <2>. QED
    BY <1>0, <2>1, <2>2, AdvanceOK DEF ReqsOK
<1>3. CASE StartCheck(r)
  <2>1. \/ Refuse(r) \/ \E n \in Nat : Accept(r, n)
        \/ Advance(r, "checked") /\ UNCHANGED db
    BY <1>0, <1>1, <1>3 DEF StartCheck, Running
  <2>. QED
    BY <1>0, <1>2, <2>1, RefuseOK, FrameTables
<1>4. CASE StartInsert(r)
  <2>1. CASE Refuse(r) \/ \E n \in Nat : Accept(r, n)
    BY <1>0, <2>1, RefuseOK
  <2>2. CASE /\ batch' = [batch EXCEPT ![k] = [NoBatch EXCEPT !.status = "pending",
                                                              !.version = 1]]
             /\ Advance(r, "inserted")
             /\ UNCHANGED <<employment, student, item, transfer>>
    <3>1. [NoBatch EXCEPT !.status = "pending", !.version = 1] \in BatchRow
      BY DEF NoBatch, BatchRow, BatchStatus
    <3>2. batch' \in [StartKey -> BatchRow]
      BY <1>0, <2>2, <3>1 DEF TablesOK
    <3>3. TablesOK'
      BY <1>0, <2>2, <3>2 DEF TablesOK, TransfersOf
    <3>. QED
      BY <1>2, <2>2, <3>3
  <2>. QED
    BY <1>0, <1>1, <1>4, <2>1, <2>2 DEF StartInsert
<1>5. CASE StartPlan(r)
  <2> DEFINE P == {s \in Student : student[s].agent = Leaver}
             q == [req[r] EXCEPT !.pc = "planned", !.plan = P]
  <2>1. q \in Requests /\ q.pc = "planned" /\ q.op = req[r].op /\ q.reply = req[r].reply
    BY <1>0 DEF Requests, Pcs
  <2>2. req' = [req EXCEPT ![r] = q] /\ UNCHANGED db
    BY <1>0, <1>5 DEF StartPlan, Requests
  <2> HIDE DEF q
  <2>. QED
    BY <1>0, <2>1, <2>2, AdvanceOK, FrameTables DEF ReqsOK
<1>6. CASE Fail(r)
  BY <1>0, <1>6, RefuseOK
<1>7. CASE Fills(r)
  <2> DEFINE P == req[r].plan
             n == Cardinality(P)
             b == [batch[k] EXCEPT !.total = n, !.remaining = n,
                                   !.status = IF n = 0 THEN "completed" ELSE @]
  <2>1. n \in Nat /\ UNCHANGED <<student, transfer>>
    BY <1>7 DEF Fills
  <2> HIDE DEF n
  <2>2. /\ batch' = [batch EXCEPT ![k] = b]
        /\ item' = [item EXCEPT ![k] = [s \in Student |-> IF s \in P THEN "pending" ELSE @[s]]]
        /\ employment' \in {"offboarded", "handover_pending"}
        /\ Answer(r, Ok({}, n, 0))
    BY <1>7 DEF Fills, n
  <2>3. Ok({}, n, 0) \in Replies
    BY <2>1 DEF Ok, Replies
  <2>4. ReqsOK'
    BY <1>0, <2>2, <2>3, AnswerOK DEF ReqsOK
  <2>5. batch[k] \in BatchRow
    BY <1>0 DEF TablesOK
  <2>6. b \in BatchRow
    BY <2>1, <2>5, AfterFill
  <2> HIDE DEF b
  <2>7. batch' \in [StartKey -> BatchRow]
    BY <1>0, <2>2, <2>6 DEF TablesOK
  <2>8. item' \in [StartKey -> [Student -> TransferKey \cup {None, "pending"}]]
    BY <1>0, <2>2 DEF TablesOK
  <2>. QED
    BY <1>0, <2>1, <2>2, <2>4, <2>7, <2>8 DEF TablesOK, TransfersOf
<1>. QED
  BY <1>3, <1>4, <1>5, <1>6, <1>7, StartFacts

\* What a replay answers is a reply.
LEMMA ResultType ==
  ASSUME TablesOK, NEW t \in TransferKey, transfer[t].batch \in StartKey
  PROVE  Result(t) \in Replies
<1> DEFINE k == transfer[t].batch
           n == Counted(UpTo(t))
           b == batch[k]
<1>1. b \in BatchRow /\ transfer[t] \in TransferRow
  BY DEF TablesOK
<1>2. n \in Nat
  <2>1. UpTo(t) \in SUBSET TransfersOf(k) /\ UpTo(t) \subseteq TransferKey
    BY DEF UpTo, TransfersOf
  <2>2. IsFiniteSet(UpTo(t))
    BY <2>1, FS_Subset DEF TablesOK
  <2>3. \A u \in UpTo(t) : transfer[u].count \in Nat
    BY <2>1 DEF TablesOK, TransferRow
  <2>4. Counted(UpTo(t)) = Cardinality(Tickets(transfer, UpTo(t)))
    BY DEF Counted, Tickets
  <2>. QED
    BY <2>2, <2>3, <2>4, TicketsFinite
<1>3. ASSUME NEW x \in Int
      PROVE  Max({x, 0}) \in Nat /\ (x >= 0 => Max({x, 0}) = x)
  BY DEF Max
<1>4. Max({b.total - n, 0}) \in Nat
  <2> HIDE DEF n
  <2>1. b.total - n \in Int
    BY <1>1, <1>2 DEF BatchRow
  <2>. QED
    BY <1>3, <2>1
<1>5. MovedBy(k, t) \in SUBSET Student
  BY DEF MovedBy
<1>. QED
  BY <1>1, <1>4, <1>5 DEF Result, Ok, Replies, TransferRow

\* The batch after a transfer that leaves n students, when c were transferred in all.
NextRow(b, n, c) == [b EXCEPT !.version = @ + 1, !.remaining = n, !.transferred = c,
                              !.status = IF n = 0 THEN "completed" ELSE "in_progress"]

\* What a transfer that is not refused does.
Claimed(r) ==
  LET op == req[r].op
      k  == op.batch
      S  == Eligible(k, op.chosen)
      n  == Cardinality(Pending(k)) - Cardinality(S)
  IN /\ Active(k) /\ batch[k].version = op.version
     /\ S # {} /\ transfer[op.key] = NoTransfer
     /\ n \in Nat /\ Cardinality(S) \in Nat
     /\ batch' = [batch EXCEPT ![k] = NextRow(batch[k], n, req[r].count + Cardinality(S))]
     /\ item' = [item EXCEPT ![k] = [s \in Student |-> IF s \in S THEN op.key ELSE @[s]]]
     /\ transfer' = [transfer EXCEPT ![op.key] =
          [batch |-> k, version |-> op.version, to |-> op.to,
           chosen |-> op.chosen, count |-> Cardinality(S)]]
     /\ student' = [s \in Student |->
          IF s \in S /\ student[s].agent # op.to
          THEN [student[s] EXCEPT !.agent = op.to, !.seat = @ + 1]
          ELSE student[s]]
     /\ employment' = IF n = 0 THEN "offboarded" ELSE employment
     /\ Answer(r, Ok(S, n, op.version + 1))

\* What is in it.
LEMMA AfterClaim ==
  ASSUME NEW b \in BatchRow, NEW n \in Nat, NEW c \in Nat
  PROVE  /\ NextRow(b, n, c) \in BatchRow
         /\ NextRow(b, n, c).total = b.total
         /\ NextRow(b, n, c).version = b.version + 1
         /\ NextRow(b, n, c).remaining = n
         /\ NextRow(b, n, c).transferred = c
         /\ n = 0 => NextRow(b, n, c).status = "completed"
         /\ n # 0 => NextRow(b, n, c).status = "in_progress"
<1> DEFINE v == b.version + 1
           x == IF n = 0 THEN "completed" ELSE "in_progress"
           d == NextRow(b, n, c)
<1>1. v \in Nat /\ x \in BatchStatus /\ b.total \in Nat
  BY DEF BatchRow, BatchStatus
<1>2. d = [b EXCEPT !.version = v, !.remaining = n, !.transferred = c, !.status = x]
  BY DEF NextRow
<1>3. (n = 0 => x = "completed") /\ (n # 0 => x = "in_progress")
  OBVIOUS
<1> HIDE DEF v, x, d
<1>4. d \in BatchRow
  BY <1>1, <1>2 DEF BatchRow
<1>5. d.total = b.total /\ d.version = v /\ d.remaining = n /\ d.transferred = c /\ d.status = x
  BY <1>1, <1>2 DEF BatchRow
<1>. QED
  BY <1>3, <1>4, <1>5 DEF d, v

\* A transfer's request, and what its claim does.
LEMMA ClaimFacts ==
  ASSUME TypeInv, NEW r \in Request, TransferCheck(r) \/ TransferClaim(r)
  PROVE  /\ ReqsOK /\ TablesOK /\ req[r] \in Requests /\ RequestOK(req[r])
         /\ req[r].pc # "idle" /\ ~At(r, "done") /\ req[r].op.type = "transfer"
         /\ req[r].op.key \in TransferKey /\ req[r].op.batch \in StartKey
         /\ req[r].op.version \in Nat /\ req[r].op.to \in Agent \cup {Leaver}
         /\ req[r].op.chosen \in SUBSET Student
         /\ TransferClaim(r) => Refuse(r) \/ Claimed(r)
<1> DEFINE op == req[r].op
           k  == op.batch
           S  == Eligible(k, op.chosen)
           n  == Cardinality(Pending(k)) - Cardinality(S)
<1>0. /\ ReqsOK /\ TablesOK /\ req[r] \in Requests /\ RequestOK(req[r])
      /\ req[r].pc # "idle" /\ ~At(r, "done") /\ op.type = "transfer"
  BY TypeParts DEF TransferCheck, TransferClaim, Asks, ReqsOK, At
<1>1. /\ op.key \in TransferKey /\ k \in StartKey /\ op.version \in Nat
      /\ op.to \in Agent \cup {Leaver} /\ op.chosen \in SUBSET Student
  BY <1>0, OpShapes DEF RequestOK
<1>2. batch[k] \in BatchRow
  BY <1>0, <1>1 DEF TablesOK
<1>3. n \in Nat /\ Cardinality(S) \in Nat
  <2>1. S \in SUBSET Pending(k) /\ Pending(k) \in SUBSET Student
    BY DEF Eligible, Pending
  <2>2. IsFiniteSet(Pending(k)) /\ Cardinality(Pending(k)) \in Nat /\ Cardinality(S) \in Nat
    BY <2>1, SomeStudents
  <2>3. Cardinality(S) <= Cardinality(Pending(k))
    BY <2>1, <2>2, FS_Subset
  <2>. QED
    BY <2>2, <2>3
<1>4. ASSUME TransferClaim(r), ~Refuse(r)
      PROVE  Claimed(r)
  <2> HIDE DEF S, n
  <2>1. /\ ~(\/ ~Claims(k, op.version)
             \/ S = {}
             \/ transfer[op.key] # NoTransfer
             \/ n = 0 /\ employment \notin {"handover_pending", "offboarded"})
        /\ student' = [s \in Student |->
              IF s \in S /\ student[s].agent # op.to
              THEN [student[s] EXCEPT !.agent = op.to, !.seat = @ + 1]
              ELSE student[s]]
        /\ item' = [item EXCEPT ![k] = [s \in Student |-> IF s \in S THEN op.key ELSE @[s]]]
        /\ transfer' = [transfer EXCEPT ![op.key] =
              [batch |-> k, version |-> op.version, to |-> op.to,
               chosen |-> op.chosen, count |-> Cardinality(S)]]
        /\ batch' = [batch EXCEPT ![k].version = @ + 1, ![k].remaining = n,
              ![k].transferred = req[r].count + Cardinality(S),
              ![k].status = IF n = 0 THEN "completed" ELSE "in_progress"]
        /\ employment' = IF n = 0 THEN "offboarded" ELSE employment
        /\ Answer(r, Ok(S, n, op.version + 1))
    BY <1>4 DEF TransferClaim, S, n
  <2>2. batch' = [batch EXCEPT ![k] = NextRow(batch[k], n, req[r].count + Cardinality(S))]
    <3>1. batch \in [StartKey -> BatchRow]
      BY <1>0 DEF TablesOK
    <3>. QED
      BY <1>1, <1>2, <2>1, <3>1 DEF BatchRow, NextRow
  <2>3. Claims(k, op.version) /\ S # {} /\ transfer[op.key] = NoTransfer
    BY <2>1
  <2>. QED
    BY <1>3, <2>1, <2>2, <2>3 DEF Claimed, Claims, S, n
<1>. QED
  BY <1>0, <1>1, <1>4

\* execute_transfer keeps the types.
LEMMA TransferTypes ==
  ASSUME TypeInv, NEW r \in Request, TransferCheck(r) \/ TransferClaim(r)
  PROVE  ReqsOK' /\ TablesOK'
<1> DEFINE op == req[r].op
           k  == op.batch
<1>0. /\ ReqsOK /\ TablesOK /\ req[r] \in Requests /\ RequestOK(req[r])
      /\ req[r].pc # "idle" /\ ~At(r, "done") /\ op.type = "transfer"
      /\ op.key \in TransferKey /\ k \in StartKey /\ op.version \in Nat
      /\ op.to \in Agent \cup {Leaver} /\ op.chosen \in SUBSET Student
  BY ClaimFacts
<1>1. batch[k] \in BatchRow
  BY <1>0 DEF TablesOK
<1>2. CASE Refuse(r)
  BY <1>0, <1>2, RefuseOK
<1>3. CASE TransferCheck(r) /\ ~Refuse(r)
  <2>1. CASE transfer[op.key] # NoTransfer /\ Answer(r, Result(op.key)) /\ UNCHANGED db
    <3>1. Result(op.key) \in Replies
      BY <1>0, <2>1, ResultType DEF TablesOK
    <3>. QED
      BY <1>0, <2>1, <3>1, AnswerOK, FrameTables, TypeParts DEF ReqsOK
  <2>2. CASE /\ req' = [req EXCEPT ![r].pc = "checked", ![r].count = batch[k].transferred]
             /\ UNCHANGED db /\ At(r, "waiting") /\ op.to # Leaver
    <3> DEFINE q == [req[r] EXCEPT !.pc = "checked", !.count = batch[k].transferred]
    <3>1. q \in Requests /\ q.pc = "checked" /\ q.op = req[r].op /\ q.reply = req[r].reply
      BY <1>0, <1>1 DEF Requests, Pcs, BatchRow
    <3>2. req' = [req EXCEPT ![r] = q]
      BY <1>0, <2>2 DEF Requests
    <3> HIDE DEF q
    <3>3. At(r, "waiting") /\ (q.op.type = "transfer" => q.op.to # Leaver)
      BY <2>2, <3>1
    <3>4. req' \in [Request -> Requests] /\ \A x \in Request : RequestOK(req'[x])
      BY <1>0, <3>1, <3>2, <3>3, AdvanceOK
    <3>5. ReqsOK'
      BY <3>4 DEF ReqsOK
    <3>. QED
      BY <1>0, <2>2, <3>5, FrameTables
  <2>. QED
    BY <1>3, <2>1, <2>2 DEF TransferCheck
<1>4. CASE Claimed(r) /\ TransferClaim(r)
  <2> DEFINE S == Eligible(k, op.chosen)
             n == Cardinality(Pending(k)) - Cardinality(S)
             b == NextRow(batch[k], n, req[r].count + Cardinality(S))
             u == [batch |-> k, version |-> op.version, to |-> op.to,
                   chosen |-> op.chosen, count |-> Cardinality(S)]
  <2>1. S \in SUBSET Student /\ n \in Nat /\ Cardinality(S) \in Nat /\ op.to \in Agent
    BY <1>0, <1>4 DEF Claimed, Eligible, Pending, RequestOK, TransferClaim, At
  <2> HIDE DEF S, n
  <2>2. /\ batch' = [batch EXCEPT ![k] = b] /\ transfer' = [transfer EXCEPT ![op.key] = u]
        /\ item' = [item EXCEPT ![k] = [s \in Student |-> IF s \in S THEN op.key ELSE @[s]]]
        /\ student' = [s \in Student |->
              IF s \in S /\ student[s].agent # op.to
              THEN [student[s] EXCEPT !.agent = op.to, !.seat = @ + 1]
              ELSE student[s]]
        /\ employment' = IF n = 0 THEN "offboarded" ELSE employment
        /\ Answer(r, Ok(S, n, op.version + 1))
    BY <1>4 DEF Claimed, S, n
  <2>3. b \in BatchRow /\ u \in TransferRow
    <3>1. req[r].count + Cardinality(S) \in Nat
      BY <1>0, <2>1 DEF Requests
    <3>2. u \in TransferRow
      BY <1>0, <2>1 DEF TransferRow
    <3>. QED
      BY <1>1, <2>1, <3>1, <3>2, AfterClaim
  <2>4. Ok(S, n, op.version + 1) \in Replies
    BY <1>0, <2>1 DEF Ok, Replies
  <2>5. ReqsOK'
    BY <1>0, <2>2, <2>4, AnswerOK DEF ReqsOK
  <2> HIDE DEF b
  <2>6. /\ batch' \in [StartKey -> BatchRow] /\ transfer' \in [TransferKey -> TransferRow]
        /\ item' \in [StartKey -> [Student -> TransferKey \cup {None, "pending"}]]
        /\ employment' \in {"active", "suspended", "handover_pending", "offboarded"}
    BY <1>0, <2>2, <2>3 DEF TablesOK
  <2>7. student' \in [Student -> StudentRow]
    <3>1. ASSUME NEW s \in Student
          PROVE  [student[s] EXCEPT !.agent = op.to, !.seat = @ + 1] \in StudentRow
      BY <1>0, <2>1, ReseatType DEF TablesOK
    <3>. QED
      BY <1>0, <2>2, <3>1 DEF TablesOK
  <2>8. ASSUME NEW j \in StartKey
        PROVE  IsFiniteSet(TransfersOf(j)')
    <3>0. IsFiniteSet(TransfersOf(j))
      BY <1>0 DEF TablesOK
    <3>1. IsFiniteSet(TransfersOf(j) \cup {op.key})
      BY <3>0, FS_AddElement
    <3>2. TransfersOf(j)' \in SUBSET (TransfersOf(j) \cup {op.key})
      BY <1>0, <2>2 DEF TransfersOf, TablesOK
    <3>. QED
      BY <3>1, <3>2, FS_Subset
  <2>9. \A t \in TransferKey : transfer'[t] # NoTransfer => transfer'[t].batch \in StartKey
    BY <1>0, <2>2 DEF TablesOK
  <2>. QED
    BY <2>5, <2>6, <2>7, <2>8, <2>9 DEF TablesOK
<1>. QED
  BY <1>2, <1>3, <1>4, ClaimFacts

\* Assignments and changes of employment keep the types.
LEMMA OtherTypes ==
  ASSUME TypeInv, NEW r \in Request,
         AssignCheck(r) \/ AssignWrite(r) \/ EmployCheck(r) \/ EmployWrite(r)
  PROVE  ReqsOK' /\ TablesOK'
<1> DEFINE op == req[r].op
<1>0. /\ ReqsOK /\ TablesOK /\ req[r] \in Requests /\ RequestOK(req[r])
      /\ req[r].pc # "idle" /\ ~At(r, "done") /\ op.type \in {"assign", "employ"}
      /\ op.type = "assign" => op.student \in Student /\ op.to \in Agent \cup {Leaver}
      /\ op.type = "employ" => op.to \in {"active", "suspended"}
  <2>1. /\ ReqsOK /\ TablesOK /\ req[r] \in Requests /\ RequestOK(req[r])
        /\ req[r].pc # "idle" /\ ~At(r, "done") /\ op.type \in {"assign", "employ"}
    BY TypeParts DEF AssignCheck, AssignWrite, EmployCheck, EmployWrite, Asks, ReqsOK, At
  <2>2. op \in Op
    BY <2>1 DEF RequestOK
  <2>. QED
    BY <2>1, <2>2, OpShapes
<1>1. Ok({}, 0, 0) \in Replies
  BY DEF Ok, Replies
<1>2. CASE Refuse(r) \/ Fail(r) \/ \E n \in Nat : Accept(r, n)
  BY <1>0, <1>2, RefuseOK
<1>3. CASE AssignCheck(r)
  <2> DEFINE s == student[op.student]
             q == [req[r] EXCEPT !.pc = "checked", !.seat = s.seat]
  <2>1. op.type = "assign" /\ s \in StudentRow
    BY <1>0, <1>3 DEF AssignCheck, Asks, TablesOK
  <2>2. CASE /\ req' = [req EXCEPT ![r].pc = "checked", ![r].seat = s.seat]
             /\ UNCHANGED db /\ At(r, "waiting")
    <3>1. q \in Requests /\ q.pc = "checked" /\ q.op = req[r].op /\ q.reply = req[r].reply
      BY <1>0, <2>1 DEF Requests, Pcs, StudentRow
    <3>2. req' = [req EXCEPT ![r] = q]
      BY <1>0, <2>2 DEF Requests
    <3> HIDE DEF q
    <3>3. q.op.type # "transfer" /\ At(r, "waiting")
      BY <2>1, <2>2, <3>1
    <3>4. ReqsOK'
      BY <1>0, <3>1, <3>2, <3>3, AdvanceOK DEF ReqsOK
    <3>. QED
      BY <1>0, <2>2, <3>4, FrameTables
  <2>. QED
    BY <1>2, <1>3, <2>2 DEF AssignCheck
<1>4. CASE AssignWrite(r) /\ ~Fail(r)
  <2> DEFINE s == op.student
             x == [student[s] EXCEPT !.agent = op.to, !.seat = @ + 1]
  <2>1. op.type = "assign" /\ s \in Student
    BY <1>0, <1>4 DEF AssignWrite, Asks
  <2>2. student[s] \in StudentRow /\ student \in [Student -> StudentRow]
    BY <1>0, <2>1 DEF TablesOK
  <2>3. student' = [student EXCEPT ![s] = x]
    BY <1>4, <2>1, <2>2 DEF AssignWrite, StudentRow
  <2>4. x \in StudentRow
    BY <1>0, <2>1, <2>2, ReseatType
  <2> HIDE DEF x
  <2>5. UNCHANGED <<employment, batch, item, transfer>> /\ Answer(r, Ok({}, 0, 0))
    BY <1>4 DEF AssignWrite
  <2>6. ReqsOK'
    BY <1>0, <1>1, <2>5, AnswerOK DEF ReqsOK
  <2>7. student' \in [Student -> StudentRow]
    BY <2>2, <2>3, <2>4
  <2>. QED
    BY <1>0, <2>5, <2>6, <2>7 DEF TablesOK, TransfersOf
<1>5. CASE EmployCheck(r)
  <2> DEFINE q == [req[r] EXCEPT !.pc = "checked"]
  <2>1. CASE Advance(r, "checked") /\ UNCHANGED db /\ At(r, "waiting") /\ op.type = "employ"
    <3>1. q \in Requests /\ q.pc = "checked" /\ q.op = req[r].op /\ q.reply = req[r].reply
      BY <1>0 DEF Requests, Pcs
    <3>2. req' = [req EXCEPT ![r] = q]
      BY <2>1 DEF Advance
    <3> HIDE DEF q
    <3>3. q.op.type # "transfer"
      BY <2>1, <3>1
    <3>4. ReqsOK'
      BY <1>0, <2>1, <3>1, <3>2, <3>3, AdvanceOK DEF ReqsOK
    <3>. QED
      BY <1>0, <2>1, <3>4, FrameTables
  <2>. QED
    BY <1>2, <1>5, <2>1 DEF EmployCheck, Asks
<1>6. CASE EmployWrite(r)
  <2>1. /\ op.type = "employ" /\ employment' = op.to /\ Answer(r, Ok({}, 0, 0))
        /\ UNCHANGED <<student, batch, item, transfer>>
    BY <1>6 DEF EmployWrite, Asks
  <2>2. ReqsOK'
    BY <1>0, <1>1, <2>1, AnswerOK DEF ReqsOK
  <2>. QED
    BY <1>0, <2>1, <2>2 DEF TablesOK, TransfersOf
<1>. QED
  BY <1>2, <1>3, <1>4, <1>5, <1>6

\* A request sent, a student deleted, a worker crashed.
LEMMA EnvironmentTypes ==
  ASSUME TypeInv,
         \/ \E r \in Request, w \in Worker, op \in Op : Send(r, w, op)
         \/ \E s \in Student : DeleteStudent(s)
         \/ \E w \in Worker : Crash(w)
  PROVE  ReqsOK' /\ TablesOK'
<1>0. ReqsOK /\ TablesOK
  BY TypeParts
<1>1. ASSUME NEW r \in Request, NEW w \in Worker, NEW op \in Op, Send(r, w, op)
      PROVE  ReqsOK' /\ TablesOK'
  <2> DEFINE q == [req[r] EXCEPT !.pc = "waiting", !.worker = w, !.op = op]
  <2>1. req[r] \in Requests /\ RequestOK(req[r]) /\ req[r].pc = "idle" /\ UNCHANGED db
    BY <1>0, <1>1 DEF ReqsOK, Send, At
  <2>2. /\ q \in Requests /\ q.pc = "waiting" /\ q.op = op /\ q.reply = req[r].reply
    BY <2>1 DEF Requests, Pcs
  <2>3. req' = [req EXCEPT ![r] = q]
    BY <1>1, <2>1 DEF Send, Requests
  <2> HIDE DEF q
  <2>4. RequestOK(q)
    BY <2>1, <2>2 DEF RequestOK
  <2>. QED
    BY <1>0, <2>1, <2>3, <2>4, OneRequest, FrameTables DEF ReqsOK
<1>2. ASSUME NEW s \in Student, DeleteStudent(s)
      PROVE  ReqsOK' /\ TablesOK'
  <2> DEFINE x == [here |-> FALSE, agent |-> None, seat |-> student[s].seat + 1]
  <2>1. student[s].seat + 1 \in Nat
    BY <1>0 DEF TablesOK, StudentRow
  <2>2. x \in StudentRow
    BY <2>1 DEF StudentRow
  <2>3. student' = [student EXCEPT ![s] = x]
    BY <1>2 DEF DeleteStudent
  <2> HIDE DEF x
  <2>4. student' \in [Student -> StudentRow]
    BY <1>0, <2>2, <2>3 DEF TablesOK
  <2>5. item' \in [StartKey -> [Student -> TransferKey \cup {None, "pending"}]]
    BY <1>0, <1>2 DEF DeleteStudent, TablesOK
  <2>. QED
    BY <1>0, <1>2, <2>4, <2>5 DEF DeleteStudent, TablesOK, TransfersOf, ReqsOK
<1>3. ASSUME NEW w \in Worker, Crash(w)
      PROVE  ReqsOK' /\ TablesOK'
  <2> DEFINE reply == [NoReply EXCEPT !.kind = "lost"]
  <2>1. reply \in Replies
    BY DEF NoReply, Replies
  <2> HIDE DEF reply
  <2>2. \A r \in Request : req'[r] \in {req[r], Ended(req[r], reply)}
                           /\ (req'[r] = req[r] \/ req[r].pc # "idle")
    BY <1>3 DEF Crash, reply
  <2>3. \A r \in Request : RequestOK(req'[r])
    BY <1>0, <2>1, <2>2, EndedOK DEF ReqsOK
  <2>4. DOMAIN req' = Request /\ UNCHANGED db /\ req' = [r \in Request |-> req'[r]]
    BY <1>3 DEF Crash
  <2>5. req' \in [Request -> Requests]
    BY <2>3, <2>4 DEF RequestOK
  <2>. QED
    BY <1>0, <2>3, <2>4, <2>5, FrameTables DEF ReqsOK
<1>. QED
  BY <1>1, <1>2, <1>3

\* Where everything starts.
LEMMA InitTypes == ASSUME Init PROVE TypeInv
<1>1. student \in [Student -> StudentRow] /\ batch \in [StartKey -> BatchRow]
  <2>1. ASSUME NEW x \in [here : {TRUE}, agent : Agent \cup {Leaver}, seat : {0}]
        PROVE  x \in StudentRow
    <3>1. x = [here |-> x.here, agent |-> x.agent, seat |-> x.seat]
      OBVIOUS
    <3>2. x.agent \in Agent \cup {Leaver, None} /\ x.seat \in Nat
      OBVIOUS
    <3>3. x.here \in {TRUE}
      OBVIOUS
    <3>4. x.here \in BOOLEAN
      BY <3>3, Zenon
    <3>. QED
      BY <3>1, <3>2, <3>4 DEF StudentRow
  <2>2. NoBatch \in BatchRow
    BY DEF BatchRow, NoBatch, BatchStatus
  <2>. QED
    BY <2>1, <2>2 DEF Init
<1>2. transfer \in [TransferKey -> TransferRow]
  BY DEF Init, TransferRow, NoTransfer
<1>3. /\ item \in [StartKey -> [Student -> TransferKey \cup {None, "pending"}]]
      /\ employment = "active" /\ crashes \in 0..MaxCrash
  BY DEF Init
<1>4. /\ \A k \in StartKey : TransfersOf(k) = {}
      /\ \A t \in TransferKey : transfer[t] = NoTransfer
  BY DEF Init, TransfersOf, NoTransfer
<1>5. TablesOK
  BY <1>1, <1>2, <1>3, <1>4, FS_EmptySet DEF TablesOK
<1>6. ReqsOK
  BY DEF Init, ReqsOK, RequestOK, Requests, Idle, NoReply, Replies, Pcs
<1>. QED
  BY <1>3, <1>5, <1>6, TypeParts

\* What a step does, by the part of the system that takes it.
LEMMA StepCases ==
  ASSUME Next
  PROVE  \/ \E r \in Request :
              /\ StartCheck(r) \/ StartInsert(r) \/ StartPlan(r) \/ StartFinish(r)
              /\ UNCHANGED crashes
         \/ \E r \in Request : (TransferCheck(r) \/ TransferClaim(r)) /\ UNCHANGED crashes
         \/ \E r \in Request :
              /\ AssignCheck(r) \/ AssignWrite(r) \/ EmployCheck(r) \/ EmployWrite(r)
              /\ UNCHANGED crashes
         \/ \E r \in Request, w \in Worker, op \in Op : Send(r, w, op) /\ UNCHANGED crashes
         \/ \E s \in Student : DeleteStudent(s) /\ UNCHANGED crashes
         \/ \E w \in Worker : Crash(w)
BY DEF Next, Work

\* Every step keeps the types.
LEMMA StepTypes ==
  ASSUME TypeInv, [Next]_vars
  PROVE  TypeInv'
<1>1. CASE Next
  <2>1. ReqsOK' /\ TablesOK'
    BY <1>1, StepCases, StartTypes, TransferTypes, OtherTypes, EnvironmentTypes
  <2>2. crashes' \in 0..MaxCrash
    BY <1>1, StepCases, TypeParts DEF Crash
  <2>. QED
    BY <2>1, <2>2, TypeParts
<1>2. CASE UNCHANGED vars
  <2>1. ReqsOK' /\ TablesOK' /\ crashes' \in 0..MaxCrash
    BY <1>2, TypeParts, FrameTables DEF vars, db, ReqsOK
  <2>. QED
    BY <2>1, TypeParts
<1>. QED
  BY <1>1, <1>2

\* TypeInv is an invariant.
LEMMA TypeInvariant == Spec => []TypeInv
<1>1. Init => TypeInv
  BY InitTypes
<1>2. TypeInv /\ [Next]_vars => TypeInv'
  BY StepTypes
<1>. QED
  BY <1>1, <1>2, PTL DEF Spec

\* TypeOK: the tables of the protocol hold rows of the right shape whatever the requests,
\* in particular the number of students left to hand over, which a transfer computes by
\* subtraction, is never negative.
THEOREM RequestsTyped == Spec => []TypeOK
<1>1. TypeInv => TypeOK
  BY DEF TypeInv
<1>. QED
  BY <1>1, TypeInvariant, PTL

-----------------------------------------------------------------------------
(* The ledger. *)

\* The batch that the first commit of start_handover makes.
FreshBatch == [NoBatch EXCEPT !.status = "pending", !.version = 1]

\* A request between the two commits of a start, and one that has read a batch.
Filling(r) == req[r].pc \in {"inserted", "planned"}
Reading(r) == req[r].pc = "checked" /\ req[r].op.type = "transfer"

\* What CountersMatch says of one batch; a batch that was not started has no transfers,
\* and the students of a batch were moved by its own.
LedgerRow(k) ==
  LET b == batch[k] IN
  /\ b.transferred = Counted(TransfersOf(k))
  /\ b.status # "none" => b.version = 1 + Cardinality(TransfersOf(k))
  /\ Cardinality(Moved(k)) <= b.transferred
  /\ b.remaining + b.transferred <= b.total
  /\ Cardinality(Pending(k)) <= b.remaining
  /\ b.status = "completed" => b.remaining = 0
  /\ b.status = "none" => b = NoBatch /\ TransfersOf(k) = {}
  /\ \A s \in Student : item[k][s] \in TransferKey => item[k][s] \in TransfersOf(k)

\* Between its two commits a request has the batch to itself, empty.
FillingOK(r) ==
  LET k == req[r].op.key IN
  /\ batch[k] = FreshBatch /\ TransfersOf(k) = {} /\ Pending(k) = {}
  /\ \A q \in Request : Filling(q) /\ req[q].op.key = k => q = r

\* A transfer that the batch's version lets through read the number that is there.
ReadingOK(r) ==
  LET op == req[r].op
      b  == batch[op.batch]
  IN /\ b.status # "none" /\ op.version <= b.version
     /\ op.version = b.version => req[r].count = b.transferred

\* Every batch and every request is as the ledger says.
Ledger == /\ \A k \in StartKey : LedgerRow(k)
          /\ \A r \in Request : Filling(r) => FillingOK(r)
          /\ \A r \in Request : Reading(r) => ReadingOK(r)

\* What a batch's sum depends on.
LEMMA CountedTickets ==
  ASSUME NEW k
  PROVE  /\ Counted(TransfersOf(k)) = Cardinality(Tickets(transfer, TransfersOf(k)))
         /\ Counted(TransfersOf(k))' = Cardinality(Tickets(transfer', TransfersOf(k)'))
BY DEF Counted, Tickets

\* A request that a step leaves as it was, as far as the ledger cares.
Stays(x) == /\ Filling(x)' => Filling(x) /\ req'[x].op = req[x].op
            /\ Reading(x)' => /\ Reading(x) /\ req'[x].op = req[x].op
                              /\ req'[x].count = req[x].count

\* A request that ends: the others go on as they were.
LEMMA AnswerOne ==
  ASSUME ReqsOK, NEW r \in Request, NEW reply, Answer(r, reply)
  PROVE  /\ req'[r].pc = "done" /\ req'[r].op = req[r].op /\ req'[r].reply = reply
         /\ \A x \in Request : x # r => req'[x] = req[x]
         /\ \A x \in Request : Stays(x)
<1>1. /\ req'[r].pc = "done" /\ req'[r].op = req[r].op /\ req'[r].reply = reply
      /\ \A x \in Request : x # r => req'[x] = req[x]
  BY DEF ReqsOK, Answer, Ended, Idle
<1>. QED
  BY <1>1 DEF Stays, Filling, Reading

\* A refusal, a failure or an accepted call.
LEMMA RefuseOne ==
  ASSUME ReqsOK, NEW r \in Request, Refuse(r) \/ Fail(r) \/ \E n \in Nat : Accept(r, n)
  PROVE  /\ UNCHANGED db
         /\ \A x \in Request : Stays(x)
         /\ \A x \in Request : x # r => req'[x] = req[x]
         /\ req'[r].pc = "done" /\ req'[r].op = req[r].op
         /\ Refuse(r) \/ Fail(r) => req'[r].reply.kind \in {"conflict", "error"}
<1>1. PICK reply : Answer(r, reply) /\ UNCHANGED db
                   /\ (Refuse(r) \/ Fail(r) => reply.kind \in {"conflict", "error"})
  <2>1. [NoReply EXCEPT !.kind = "conflict"].kind = "conflict"
        /\ [NoReply EXCEPT !.kind = "error"].kind = "error"
    BY DEF NoReply
  <2>2. CASE Refuse(r)
    BY <2>1, <2>2 DEF Refuse
  <2>3. CASE Fail(r)
    BY <2>1, <2>3 DEF Fail
  <2>4. CASE ~Refuse(r) /\ ~Fail(r)
    BY <2>4 DEF Accept
  <2>. QED
    BY <2>2, <2>3, <2>4
<1>. QED
  BY <1>1, AnswerOne

\* A batch that a step leaves alone.
LEMMA RowFrame ==
  ASSUME NEW k \in StartKey, LedgerRow(k), batch'[k] = batch[k], item'[k] = item[k],
         TransfersOf(k)' = TransfersOf(k),
         \A t \in TransfersOf(k) : transfer'[t] = transfer[t]
  PROVE  LedgerRow(k)'
<1>1. Pending(k)' = Pending(k) /\ Moved(k)' = Moved(k)
  BY DEF Pending, Moved, MovedBy
<1>2. Counted(TransfersOf(k))' = Counted(TransfersOf(k))
  BY CountedTickets, TicketsSame
<1>. QED
  BY <1>1, <1>2 DEF LedgerRow

\* A step that writes neither batches, items nor transfers.
LEMMA LedgerFrame ==
  ASSUME Ledger, UNCHANGED <<batch, item, transfer>>, \A x \in Request : Stays(x)
  PROVE  Ledger'
<1>1. \A k \in StartKey : LedgerRow(k)'
  BY RowFrame DEF Ledger, TransfersOf
<1>2. \A x \in Request : Filling(x)' => FillingOK(x)'
  BY DEF Ledger, FillingOK, Stays, TransfersOf, Pending
<1>3. \A x \in Request : Reading(x)' => ReadingOK(x)'
  BY DEF Ledger, ReadingOK, Stays
<1>. QED
  BY <1>1, <1>2, <1>3 DEF Ledger

\* Where everything starts.
LEMMA InitLedger == ASSUME Init PROVE Ledger
<1>1. ASSUME NEW k \in StartKey
      PROVE  LedgerRow(k)
  <2>1. TransfersOf(k) = {}
    BY DEF Init, TransfersOf, NoTransfer
  <2>2. Moved(k) = {} /\ Pending(k) = {}
    BY DEF Init, Moved, MovedBy, Pending
  <2>3. Tickets(transfer, TransfersOf(k)) = {}
    BY <2>1 DEF Tickets
  <2>4. Counted(TransfersOf(k)) = 0
    BY <2>3, CountedTickets, FS_EmptySet
  <2>5. batch[k] = NoBatch /\ \A s \in Student : item[k][s] = None
    BY DEF Init
  <2>6. /\ batch[k].status = "none" /\ batch[k].transferred = 0
        /\ batch[k].remaining = 0 /\ batch[k].total = 0
    BY <2>5 DEF NoBatch
  <2>. QED
    BY <2>1, <2>2, <2>4, <2>5, <2>6, FS_EmptySet DEF LedgerRow
<1>2. \A r \in Request : ~Filling(r) /\ ~Reading(r)
  BY DEF Init, Filling, Reading, Idle
<1>. QED
  BY <1>1, <1>2 DEF Ledger

\* Where only one batch changes, the requests about the others know what they knew.
LEMMA RequestsRest ==
  ASSUME Ledger, NEW k,
         \A j \in StartKey : j # k => /\ batch'[j] = batch[j] /\ item'[j] = item[j]
                                      /\ TransfersOf(j)' = TransfersOf(j),
         \A x \in Request : Stays(x),
         \A x \in Request : Filling(x)' => req[x].op.key \in StartKey \ {k},
         \A x \in Request : Reading(x)' => req[x].op.batch \in StartKey,
         \A x \in Request : Reading(x)' /\ req[x].op.batch = k => ReadingOK(x)'
  PROVE  /\ \A x \in Request : Filling(x)' => FillingOK(x)'
         /\ \A x \in Request : Reading(x)' => ReadingOK(x)'
<1>1. ASSUME NEW x \in Request, Filling(x)'
      PROVE  FillingOK(x)'
  <2> DEFINE j == req[x].op.key
  <2>1. /\ Filling(x) /\ req'[x].op = req[x].op /\ j \in StartKey \ {k}
        /\ FillingOK(x)
    BY <1>1 DEF Stays, Ledger
  <2>2. /\ batch'[j] = batch[j] /\ TransfersOf(j)' = TransfersOf(j)
        /\ Pending(j)' = Pending(j)
    BY <2>1 DEF Pending
  <2>3. batch'[j] = FreshBatch /\ TransfersOf(j)' = {} /\ Pending(j)' = {}
    BY <2>1, <2>2 DEF FillingOK
  <2>4. ASSUME NEW q \in Request, Filling(q)', req'[q].op.key = j
        PROVE  q = x
    BY <2>1, <2>4 DEF FillingOK, Stays
  <2>. QED
    BY <2>1, <2>3, <2>4 DEF FillingOK, FreshBatch, NoBatch
<1>2. ASSUME NEW x \in Request, Reading(x)', req[x].op.batch # k
      PROVE  ReadingOK(x)'
  BY <1>2 DEF Stays, Ledger, ReadingOK
<1>. QED
  BY <1>1, <1>2

\* Keys and batches of the requests the ledger knows.
LEMMA KnownKeys ==
  ASSUME ReqsOK, NEW x \in Request
  PROVE  /\ Filling(x) => req[x].op.key \in StartKey
         /\ Reading(x) => /\ req[x].op.batch \in StartKey /\ req[x].op.key \in TransferKey
                          /\ req[x].op.version \in Nat
<1>1. RequestOK(req[x])
  BY DEF ReqsOK
<1>2. Filling(x) \/ Reading(x) => req[x].op \in Op
  BY <1>1 DEF RequestOK, Filling, Reading
<1>. QED
  BY <1>1, <1>2, OpShapes DEF RequestOK, Filling, Reading

\* What is known of a batch nobody started.
LEMMA UnstartedRow ==
  ASSUME Ledger, NEW k \in StartKey, batch[k].status = "none"
  PROVE  /\ TransfersOf(k) = {} /\ Pending(k) = {} /\ Moved(k) = {}
         /\ Counted(TransfersOf(k)) = 0
<1>1. LedgerRow(k) /\ batch[k] = NoBatch /\ TransfersOf(k) = {}
  BY DEF Ledger, LedgerRow
<1>2. /\ Pending(k) \in SUBSET Student /\ Moved(k) \in SUBSET Student
      /\ batch[k].transferred = 0 /\ batch[k].remaining = 0
  BY <1>1 DEF Pending, Moved, MovedBy, NoBatch
<1>3. /\ IsFiniteSet(Pending(k)) /\ Cardinality(Pending(k)) \in Nat
      /\ IsFiniteSet(Moved(k)) /\ Cardinality(Moved(k)) \in Nat
  BY <1>2, SomeStudents
<1>4. Cardinality(Pending(k)) = 0 /\ Cardinality(Moved(k)) = 0
  BY <1>1, <1>2, <1>3 DEF LedgerRow
<1>. QED
  BY <1>1, <1>2, <1>3, <1>4, FS_EmptySet DEF LedgerRow

\* start_handover and offboard_user keep the ledger.
LEMMA LedgerStart ==
  ASSUME TypeInv, Ledger, NEW r \in Request, NEW k, k = req[r].op.key,
         StartCheck(r) \/ StartInsert(r) \/ StartPlan(r) \/ StartFinish(r)
  PROVE  Ledger'
<1>0. /\ ReqsOK /\ TablesOK /\ req[r] \in Requests /\ RequestOK(req[r])
      /\ ~At(r, "done") /\ Starts(r)
      /\ req[r].op.type # "transfer" /\ k \in StartKey
      /\ batch[k] \in BatchRow
  <2>1. /\ ReqsOK /\ TablesOK /\ req[r] \in Requests /\ RequestOK(req[r])
        /\ ~At(r, "done") /\ Starts(r)
        /\ req[r].op.type # "transfer" /\ k \in StartKey
    BY StartFacts
  <2>. QED
    BY <2>1 DEF TablesOK
<1>1. \A b \in StartKey : batch[b].remaining \in Nat
  BY <1>0 DEF TablesOK, BatchRow
<1>2. CASE Refuse(r) \/ Fail(r) \/ \E n \in Nat : Accept(r, n)
  BY <1>0, <1>2, RefuseOne, LedgerFrame DEF db
<1>3. CASE StartCheck(r)
  <2>1. CASE Advance(r, "checked") /\ UNCHANGED db
    <3>1. req'[r].pc = "checked" /\ req'[r].op = req[r].op
      BY <1>0, <2>1 DEF Advance, ReqsOK, Requests
    <3>2. \A x \in Request : x # r => req'[x] = req[x]
      BY <2>1 DEF Advance, ReqsOK
    <3>3. \A x \in Request : Stays(x)
      BY <1>0, <3>1, <3>2 DEF Stays, Filling, Reading
    <3>. QED
      BY <2>1, <3>3, LedgerFrame DEF db
  <2>. QED
    BY <1>0, <1>1, <1>2, <1>3, <2>1 DEF StartCheck, Running
<1>4. CASE StartInsert(r)
  <2>1. CASE /\ batch[k].status = "none"
             /\ batch' = [batch EXCEPT ![k] = FreshBatch]
             /\ Advance(r, "inserted")
             /\ UNCHANGED <<employment, student, item, transfer>>
    <3>1. /\ req'[r].pc = "inserted" /\ req'[r].op = req[r].op
          /\ \A x \in Request : x # r => req'[x] = req[x]
      BY <1>0, <2>1 DEF Advance, ReqsOK, Requests
    <3>2. /\ TransfersOf(k) = {} /\ Pending(k) = {} /\ Moved(k) = {}
          /\ Counted(TransfersOf(k)) = 0
      BY <1>0, <2>1, UnstartedRow
    <3>3. /\ batch'[k] = FreshBatch
          /\ \A j \in StartKey : j # k => batch'[j] = batch[j]
      BY <1>0, <2>1 DEF TablesOK
    <3>4. \A j \in StartKey : /\ TransfersOf(j)' = TransfersOf(j) /\ item'[j] = item[j]
                              /\ Pending(j)' = Pending(j) /\ Moved(j)' = Moved(j)
      BY <2>1 DEF TransfersOf, Pending, Moved, MovedBy
    <3>5. Counted(TransfersOf(k))' = 0
      <4>1. Counted(TransfersOf(k))' = Cardinality(Tickets(transfer', TransfersOf(k)'))
        BY CountedTickets
      <4>2. Tickets(transfer', TransfersOf(k)') = {}
        BY <1>0, <3>2, <3>4 DEF Tickets
      <4>. QED
        BY <4>1, <4>2, FS_EmptySet
    <3>6. FreshBatch.status = "pending" /\ FreshBatch.version = 1 /\ FreshBatch.total = 0
          /\ FreshBatch.remaining = 0 /\ FreshBatch.transferred = 0
      BY DEF FreshBatch, NoBatch
    <3>7. LedgerRow(k)'
      <4>1. \A s \in Student : item'[k][s] \in TransferKey => item'[k][s] \in TransfersOf(k)'
        BY <1>0, <3>4 DEF Ledger, LedgerRow
      <4>2. /\ Cardinality(TransfersOf(k)') = 0 /\ Cardinality(Moved(k)') = 0
            /\ Cardinality(Pending(k)') = 0
        BY <1>0, <3>2, <3>4, FS_EmptySet
      <4>. QED
        BY <3>3, <3>5, <3>6, <4>1, <4>2 DEF LedgerRow
    <3>8. ASSUME NEW j \in StartKey, j # k
          PROVE  LedgerRow(j)'
      BY <2>1, <3>3, <3>4, <3>8, RowFrame DEF Ledger
    <3>9. ASSUME NEW x \in Request, Filling(x), x # r
          PROVE  req[x].op.key # k
      BY <2>1, <3>6, <3>9 DEF Ledger, FillingOK
    <3>10. ASSUME NEW x \in Request, Filling(x)'
           PROVE  FillingOK(x)'
      <4>1. CASE x = r
        <5>1. \A q \in Request : Filling(q)' /\ req'[q].op.key = k => q = r
          BY <3>1, <3>9 DEF Filling
        <5>2. batch'[k] = FreshBatch /\ TransfersOf(k)' = {} /\ Pending(k)' = {}
          BY <1>0, <3>2, <3>3, <3>4
        <5>. QED
          BY <3>1, <4>1, <5>1, <5>2 DEF FillingOK, FreshBatch, NoBatch
      <4>2. CASE x # r
        <5> DEFINE j == req[x].op.key
        <5>1. Filling(x) /\ req'[x] = req[x] /\ j # k /\ j \in StartKey /\ FillingOK(x)
          BY <1>0, <1>2, <3>1, <3>9, <3>10, <4>2, KnownKeys DEF Filling, Ledger
        <5>2. batch'[j] = FreshBatch /\ TransfersOf(j)' = {} /\ Pending(j)' = {}
          BY <3>3, <3>4, <5>1 DEF FillingOK
        <5>3. \A q \in Request : Filling(q)' /\ req'[q].op.key = j => q = x
          BY <3>1, <5>1 DEF FillingOK, Filling
        <5>. QED
          BY <5>1, <5>2, <5>3 DEF FillingOK, FreshBatch, NoBatch
      <4>. QED
        BY <4>1, <4>2
    <3>11. ASSUME NEW x \in Request, Reading(x)'
           PROVE  ReadingOK(x)'
      <4>1. Reading(x) /\ req'[x] = req[x] /\ ReadingOK(x)
        BY <1>0, <3>1, <3>11 DEF Reading, Ledger
      <4>2. req[x].op.batch # k /\ req[x].op.batch \in StartKey
        BY <1>0, <2>1, <4>1, KnownKeys DEF ReadingOK
      <4>. QED
        BY <3>3, <4>1, <4>2 DEF ReadingOK
    <3>. QED
      BY <3>7, <3>8, <3>10, <3>11 DEF Ledger
  <2>. QED
    BY <1>0, <1>1, <1>2, <1>4, <2>1 DEF StartInsert, FreshBatch
<1>5. CASE StartPlan(r)
  <2>1. /\ req'[r].pc = "planned" /\ req'[r].op = req[r].op /\ req[r].pc = "inserted"
        /\ \A x \in Request : x # r => req'[x] = req[x]
    BY <1>0, <1>5 DEF StartPlan, ReqsOK, Requests, At
  <2>2. \A x \in Request : Stays(x)
    BY <2>1 DEF Stays, Filling, Reading
  <2>. QED
    BY <1>5, <2>2, LedgerFrame DEF StartPlan, db
<1>6. CASE Fills(r)
  <2> DEFINE P == req[r].plan
             n == Cardinality(P)
             b == [batch[k] EXCEPT !.total = n, !.remaining = n,
                                   !.status = IF n = 0 THEN "completed" ELSE @]
  <2>1. /\ batch' = [batch EXCEPT ![k] = b] /\ P \in SUBSET Student /\ n \in Nat
        /\ item' = [item EXCEPT ![k] = [s \in Student |-> IF s \in P THEN "pending" ELSE @[s]]]
        /\ UNCHANGED transfer /\ Answer(r, Ok({}, n, 0)) /\ Filling(r)
    BY <1>6 DEF Fills, Filling, At
  <2> HIDE DEF n
  <2>2. /\ b.total = n /\ b.remaining = n /\ b.version = batch[k].version
        /\ b.transferred = batch[k].transferred
        /\ b.status = IF n = 0 THEN "completed" ELSE batch[k].status
    BY <1>0, <2>1, AfterFill
  <2> HIDE DEF b
  <2>3. FillingOK(r) /\ LedgerRow(k) /\ batch[k] = FreshBatch /\ TransfersOf(k) = {}
        /\ Pending(k) = {}
    BY <1>0, <2>1 DEF Ledger, FillingOK
  <2>4. /\ batch'[k] = b /\ \A j \in StartKey : j # k => batch'[j] = batch[j]
        /\ \A j \in StartKey : j # k => item'[j] = item[j]
        /\ \A s \in Student : item'[k][s] = IF s \in P THEN "pending" ELSE item[k][s]
    BY <1>0, <2>1 DEF TablesOK
  <2>5. \A j \in StartKey : TransfersOf(j)' = TransfersOf(j)
    BY <2>1 DEF TransfersOf
  <2>6. LedgerRow(k)'
    <3>1. Pending(k)' = P
      BY <2>1, <2>3, <2>4 DEF Pending
    <3>2. Moved(k)' \in SUBSET Moved(k) /\ Moved(k) \in SUBSET Student
      BY <2>4 DEF Moved, MovedBy
    <3>3. Cardinality(Moved(k)') <= Cardinality(Moved(k)) /\ Cardinality(Moved(k)') \in Nat
          /\ Cardinality(Moved(k)) \in Nat
      BY <3>2, SomeStudents, FS_Subset
    <3>4. Counted(TransfersOf(k))' = Counted(TransfersOf(k))
      BY <1>0, <2>1, <2>5, CountedTickets
    <3>5. \A s \in Student : item'[k][s] \in TransferKey => item'[k][s] \in TransfersOf(k)'
      BY <1>0, <2>3, <2>4, <2>5 DEF LedgerRow
    <3>6. FreshBatch.status = "pending" /\ FreshBatch.version = 1
          /\ FreshBatch.transferred = 0
      BY DEF FreshBatch, NoBatch
    <3>7. Cardinality(TransfersOf(k)) = 0
      BY <2>3, FS_EmptySet
    <3>8. /\ Cardinality(Moved(k)') <= b.transferred /\ b.transferred = 0
          /\ b.transferred = Counted(TransfersOf(k))' /\ b.version = 1
          /\ b.status \in {"pending", "completed"} /\ (b.status = "completed" => n = 0)
      BY <2>2, <2>3, <3>3, <3>4, <3>6 DEF LedgerRow
    <3>9. Cardinality(Pending(k)') = n /\ Cardinality(TransfersOf(k)') = 0
      BY <1>0, <2>5, <3>1, <3>7 DEF n
    <3>10. /\ b.version = 1 + Cardinality(TransfersOf(k)') /\ b.status # "none"
           /\ b.remaining + b.transferred <= b.total
           /\ Cardinality(Pending(k)') <= b.remaining
           /\ (b.status = "completed" => b.remaining = 0)
      BY <2>1, <2>2, <3>8, <3>9
    <3>. QED
      BY <2>4, <3>5, <3>8, <3>10 DEF LedgerRow
  <2>7. ASSUME NEW j \in StartKey, j # k
        PROVE  LedgerRow(j)'
    BY <2>1, <2>4, <2>5, <2>7, RowFrame DEF Ledger
  <2>8. /\ req'[r].pc = "done" /\ \A x \in Request : x # r => req'[x] = req[x]
        /\ \A x \in Request : Stays(x)
    BY <1>0, <2>1, AnswerOne
  <2>9. \A x \in Request : Filling(x)' => req[x].op.key \in StartKey \ {k}
    <3>1. \A x \in Request : Filling(x)' => Filling(x) /\ x # r
      BY <2>8 DEF Stays, Filling
    <3>. QED
      BY <1>0, <2>3, <3>1, KnownKeys DEF FillingOK
  <2>10. \A x \in Request : Reading(x)' => Reading(x) /\ req[x].op.batch \in StartKey
    BY <1>0, <2>8, KnownKeys DEF Stays
  <2>11. ASSUME NEW x \in Request, Reading(x)', req[x].op.batch = k
         PROVE  ReadingOK(x)'
    <3>1. Reading(x) /\ req'[x].op = req[x].op /\ req'[x].count = req[x].count
          /\ ReadingOK(x)
      BY <2>8, <2>11 DEF Stays, Ledger
    <3>2. b.status # "none"
      BY <2>2, <2>3, <3>1, <2>11 DEF ReadingOK
    <3>. QED
      BY <2>2, <2>4, <2>11, <3>1, <3>2 DEF ReadingOK
  <2>12. /\ \A x \in Request : Filling(x)' => FillingOK(x)'
         /\ \A x \in Request : Reading(x)' => ReadingOK(x)'
    BY ZenonT(60), <2>4, <2>5, <2>8, <2>9, <2>10, <2>11, RequestsRest
  <2>. QED
    BY <2>6, <2>7, <2>12 DEF Ledger
<1>. QED
  BY <1>2, <1>3, <1>4, <1>5, <1>6, StartFacts

\* A transfer's claim, in parts: t is its key, k its batch, S the c students it moves, n
\* the number left, b and u the rows it writes.
ClaimWrites(r, k, t, S, n, c, b, u) ==
  LET op == req[r].op IN
  /\ Reading(r) /\ t \in TransferKey /\ k \in StartKey /\ op.version \in Nat
  /\ op.batch = k /\ op.key = t
  /\ S \in SUBSET Student /\ n \in Nat /\ c \in Nat /\ b \in BatchRow /\ u \in TransferRow
  /\ Active(k) /\ batch[k].version = op.version /\ op.to # Leaver
  /\ S = Pending(k) \cap op.chosen /\ S # {} /\ transfer[t] = NoTransfer
  /\ c = Cardinality(S) /\ n = Cardinality(Pending(k)) - c
  /\ batch' = [batch EXCEPT ![k] = b]
  /\ b.total = batch[k].total /\ b.version = batch[k].version + 1
  /\ b.remaining = n /\ b.transferred = req[r].count + c
  /\ (n = 0 => b.status = "completed") /\ (n # 0 => b.status = "in_progress")
  /\ item' = [item EXCEPT ![k] = [s \in Student |-> IF s \in S THEN t ELSE @[s]]]
  /\ transfer' = [transfer EXCEPT ![t] = u]
  /\ u.batch = k /\ u.version = op.version /\ u.count = c /\ u # NoTransfer
  /\ employment' = IF n = 0 THEN "offboarded" ELSE employment
  /\ student' = [s \in Student |->
       IF s \in S /\ student[s].agent # op.to
       THEN [student[s] EXCEPT !.agent = op.to, !.seat = @ + 1]
       ELSE student[s]]
  /\ Answer(r, Ok(S, n, op.version + 1))

\* Every claim has these parts.
LEMMA ClaimParts ==
  ASSUME TypeInv, NEW r \in Request, TransferClaim(r), Claimed(r)
  PROVE  \E S, n, c, b, u : ClaimWrites(r, req[r].op.batch, req[r].op.key, S, n, c, b, u)
<1> DEFINE op == req[r].op
           k  == op.batch
           S  == Eligible(k, op.chosen)
           c  == Cardinality(S)
           n  == Cardinality(Pending(k)) - Cardinality(S)
           b  == NextRow(batch[k], n, req[r].count + c)
           u  == [batch |-> k, version |-> op.version, to |-> op.to,
                  chosen |-> op.chosen, count |-> c]
<1>1. /\ TablesOK /\ req[r] \in Requests /\ RequestOK(req[r])
      /\ op.type = "transfer" /\ op.key \in TransferKey /\ k \in StartKey
      /\ op.version \in Nat /\ op.to \in Agent \cup {Leaver} /\ op.chosen \in SUBSET Student
  BY ClaimFacts
<1>2. Reading(r) /\ op.to # Leaver /\ op.to \in Agent
  BY <1>1 DEF TransferClaim, At, Reading, RequestOK
<1>3. S = Pending(k) \cap op.chosen /\ S \in SUBSET Student
  BY <1>1 DEF Eligible
<1>4. /\ Active(k) /\ batch[k].version = op.version /\ S # {} /\ transfer[op.key] = NoTransfer
      /\ n \in Nat /\ c \in Nat
  BY DEF Claimed
<1>5. batch[k] \in BatchRow
  BY <1>1 DEF TablesOK
<1>6. u \in TransferRow /\ u.batch = k /\ u.version = op.version /\ u.count = c /\ u # NoTransfer
  <2> HIDE DEF S, c
  <2>. QED
    BY <1>1, <1>2, <1>4 DEF TransferRow, NoTransfer
<1>7. /\ b \in BatchRow /\ b.total = batch[k].total /\ b.version = batch[k].version + 1
      /\ b.remaining = n /\ b.transferred = req[r].count + c
      /\ (n = 0 => b.status = "completed") /\ (n # 0 => b.status = "in_progress")
  <2> HIDE DEF S, c, n
  <2> DEFINE d == req[r].count + c
  <2>1. d \in Nat
    BY <1>1, <1>4 DEF Requests
  <2>2. n \in Nat /\ b = NextRow(batch[k], n, d)
    BY <1>4
  <2> HIDE DEF b, d
  <2>3. /\ b \in BatchRow /\ b.remaining = n /\ b.transferred = d
        /\ (n = 0 => b.status = "completed") /\ (n # 0 => b.status = "in_progress")
    BY <1>5, <2>1, <2>2, AfterClaim
  <2>4. b.total = batch[k].total
    <3>1. NextRow(batch[k], n, d).total = batch[k].total
      BY <1>5, <2>1, <2>2, AfterClaim
    <3>. QED
      BY <2>2, <3>1
  <2>5. b.version = batch[k].version + 1
    <3>1. batch[k] \in [status : BatchStatus, version : Nat, total : Nat, remaining : Nat,
                        transferred : Nat]
      BY <1>5 DEF BatchRow
    <3>2. PICK v \in Nat : v = batch[k].version + 1
      BY <3>1
    <3>3. NextRow(batch[k], n, d).version = v
      BY <3>1, <3>2 DEF NextRow
    <3>. QED
      BY <2>2, <3>2, <3>3
  <2>. QED
    BY <2>3, <2>4, <2>5 DEF d
<1>8. /\ batch' = [batch EXCEPT ![k] = b] /\ transfer' = [transfer EXCEPT ![op.key] = u]
      /\ item' = [item EXCEPT ![k] = [s \in Student |-> IF s \in S THEN op.key ELSE @[s]]]
      /\ student' = [s \in Student |->
            IF s \in S /\ student[s].agent # op.to
            THEN [student[s] EXCEPT !.agent = op.to, !.seat = @ + 1]
            ELSE student[s]]
      /\ employment' = IF n = 0 THEN "offboarded" ELSE employment
      /\ Answer(r, Ok(S, n, op.version + 1))
  BY DEF Claimed
<1> HIDE DEF b, u, n, S
<1>9. n = Cardinality(Pending(k)) - c
  BY DEF n
<1> HIDE DEF c
<1>10. c = Cardinality(S)
  BY DEF c
<1>11. ClaimWrites(r, k, op.key, S, n, c, b, u)
  BY <1>1, <1>2, <1>3, <1>4, <1>6, <1>7, <1>8, <1>9, <1>10 DEF ClaimWrites
<1>. QED
  BY <1>11

\* What a claim does to the sets the counters count.
LEMMA ClaimSets ==
  ASSUME TypeInv, NEW r, NEW k, NEW t, NEW S, NEW n, NEW c, NEW b, NEW u,
         ClaimWrites(r, k, t, S, n, c, b, u)
  PROVE  /\ S \in SUBSET Pending(k)
         /\ TransfersOf(k)' = TransfersOf(k) \cup {t} /\ t \notin TransfersOf(k)
         /\ Pending(k)' = Pending(k) \ S
         /\ Moved(k)' \subseteq Moved(k) \cup S
         /\ \A s \in Student : item'[k][s] = IF s \in S THEN t ELSE item[k][s]
         /\ batch'[k] = b /\ transfer'[t] = u
         /\ \A x \in TransferKey : x # t => transfer'[x] = transfer[x]
         /\ \A j \in StartKey : j # k => /\ batch'[j] = batch[j] /\ item'[j] = item[j]
                                         /\ TransfersOf(j)' = TransfersOf(j)
                                         /\ t \notin TransfersOf(j)
<1>0. /\ TablesOK /\ k \in StartKey /\ t \in TransferKey /\ u.batch = k
      /\ transfer[t] = NoTransfer /\ S \in SUBSET Pending(k)
      /\ batch' = [batch EXCEPT ![k] = b] /\ transfer' = [transfer EXCEPT ![t] = u]
      /\ item' = [item EXCEPT ![k] = [s \in Student |-> IF s \in S THEN t ELSE @[s]]]
  BY TypeParts DEF ClaimWrites
<1>1. /\ batch'[k] = b /\ transfer'[t] = u
      /\ \A x \in TransferKey : x # t => transfer'[x] = transfer[x]
      /\ \A j \in StartKey : j # k => batch'[j] = batch[j] /\ item'[j] = item[j]
      /\ \A s \in Student : item'[k][s] = IF s \in S THEN t ELSE item[k][s]
  BY <1>0 DEF TablesOK
<1>2. \A j \in StartKey : t \notin TransfersOf(j)
  BY <1>0 DEF TransfersOf, NoTransfer
<1>3. TransfersOf(k)' = TransfersOf(k) \cup {t}
  BY <1>0, <1>1 DEF TransfersOf
<1>4. \A j \in StartKey : j # k => TransfersOf(j)' = TransfersOf(j)
  BY <1>0, <1>1, <1>2 DEF TransfersOf
<1>5. Pending(k)' = Pending(k) \ S
  BY <1>0, <1>1 DEF Pending
<1>6. Moved(k)' \subseteq Moved(k) \cup S
  <2>1. ASSUME NEW s \in Moved(k)'
        PROVE  s \in Moved(k) \cup S
    <3>1. s \in Student /\ item'[k][s] \in TransferKey
      BY <2>1 DEF Moved, MovedBy
    <3>. QED
      BY <1>1, <3>1 DEF Moved, MovedBy
  <2>. QED
    BY <2>1
<1>. QED
  BY <1>0, <1>1, <1>2, <1>3, <1>4, <1>5, <1>6

\* execute_transfer keeps the ledger: the version it claims is the one it read the count
\* of transferred students at.
LEMMA LedgerClaim ==
  ASSUME TypeInv, Ledger, NEW r \in Request, NEW k, k = req[r].op.batch,
         NEW t, t = req[r].op.key, TransferClaim(r), Claimed(r)
  PROVE  Ledger'
<1>. PICK S, n, c, b, u : ClaimWrites(r, k, t, S, n, c, b, u)
  BY ClaimParts
<1>0. /\ Reading(r) /\ t \in TransferKey /\ k \in StartKey /\ req[r].op.version \in Nat
      /\ S \in SUBSET Student /\ S # {} /\ n \in Nat /\ c \in Nat
      /\ b \in BatchRow /\ u \in TransferRow
      /\ Active(k) /\ batch[k].version = req[r].op.version
      /\ c = Cardinality(S) /\ n = Cardinality(Pending(k)) - c
      /\ b.total = batch[k].total /\ b.version = batch[k].version + 1
      /\ b.remaining = n /\ b.transferred = req[r].count + c
      /\ (n = 0 => b.status = "completed") /\ (n # 0 => b.status = "in_progress")
      /\ u.count = c
      /\ Answer(r, Ok(S, n, req[r].op.version + 1))
  BY DEF ClaimWrites
<1>1. /\ S \in SUBSET Pending(k)
      /\ TransfersOf(k)' = TransfersOf(k) \cup {t} /\ t \notin TransfersOf(k)
      /\ Pending(k)' = Pending(k) \ S
      /\ Moved(k)' \subseteq Moved(k) \cup S
      /\ \A s \in Student : item'[k][s] = IF s \in S THEN t ELSE item[k][s]
      /\ batch'[k] = b /\ transfer'[t] = u
      /\ \A x \in TransferKey : x # t => transfer'[x] = transfer[x]
      /\ \A j \in StartKey : j # k => /\ batch'[j] = batch[j] /\ item'[j] = item[j]
                                      /\ TransfersOf(j)' = TransfersOf(j)
                                      /\ t \notin TransfersOf(j)
  BY ClaimSets
<1>2. ReqsOK /\ TablesOK /\ batch[k] \in BatchRow /\ LedgerRow(k)
  BY <1>0, TypeParts DEF TablesOK, Ledger
<1>3. batch[k].status # "none" /\ req[r].count = batch[k].transferred
  BY <1>0 DEF Active, Ledger, ReadingOK
<1>4. LedgerRow(k)'
  <2>1. Cardinality(TransfersOf(k)') = Cardinality(TransfersOf(k)) + 1
        /\ Cardinality(TransfersOf(k)) \in Nat
    <3>1. IsFiniteSet(TransfersOf(k)) /\ t \notin TransfersOf(k)
      BY <1>0, <1>1, <1>2 DEF TablesOK
    <3>2. /\ Cardinality(TransfersOf(k) \cup {t}) = Cardinality(TransfersOf(k)) + 1
          /\ Cardinality(TransfersOf(k)) \in Nat
      BY <3>1, FS_AddElement, FS_CardinalityType
    <3>. QED
      BY <1>1, <3>2
  <2>2. Counted(TransfersOf(k))' = Counted(TransfersOf(k)) + c
    <3>1. IsFiniteSet(TransfersOf(k)) /\ TransfersOf(k) \subseteq TransferKey
      BY <1>0, <1>2 DEF TablesOK, TransfersOf
    <3>2. \A x \in TransfersOf(k) \cup {t} : transfer'[x].count \in Nat
      BY <1>0, <1>1, <1>2, <3>1 DEF TablesOK, TransferRow
    <3>3. Cardinality(Tickets(transfer', TransfersOf(k) \cup {t}))
            = Cardinality(Tickets(transfer', TransfersOf(k))) + transfer'[t].count
      BY <1>1, <3>1, <3>2, TicketsAdd
    <3>4. \A x \in TransfersOf(k) : transfer'[x].count = transfer[x].count
      BY <1>1, <3>1
    <3>5. Tickets(transfer', TransfersOf(k)) = Tickets(transfer, TransfersOf(k))
      BY <3>4, TicketsSame
    <3>6. /\ Counted(TransfersOf(k))' = Cardinality(Tickets(transfer', TransfersOf(k)'))
          /\ Counted(TransfersOf(k)) = Cardinality(Tickets(transfer, TransfersOf(k)))
      BY CountedTickets
    <3>7. TransfersOf(k)' = TransfersOf(k) \cup {t} /\ transfer'[t].count = c
      BY <1>0, <1>1
    <3>. QED
      BY <3>3, <3>5, <3>6, <3>7
  <2>3. /\ Cardinality(Moved(k)') <= Cardinality(Moved(k)) + c
        /\ Cardinality(Moved(k)') \in Nat /\ Cardinality(Moved(k)) \in Nat
    <3>1. Moved(k) \in SUBSET Student /\ IsFiniteSet(Moved(k)) /\ IsFiniteSet(S)
          /\ Cardinality(Moved(k)) \in Nat
      BY <1>0, SomeStudents DEF Moved, MovedBy
    <3>2. /\ IsFiniteSet(Moved(k) \cup S)
          /\ Cardinality(Moved(k) \cup S)
               = Cardinality(Moved(k)) + Cardinality(S) - Cardinality(Moved(k) \cap S)
      BY <3>1, FS_Union
    <3>3. Moved(k) \cap S \in SUBSET Student
      BY <1>0
    <3>4. Cardinality(Moved(k) \cap S) \in Nat
      BY <3>3, SomeStudents
    <3>5. Moved(k)' \in SUBSET (Moved(k) \cup S)
      BY <1>1
    <3>6. Cardinality(Moved(k)') <= Cardinality(Moved(k) \cup S)
          /\ IsFiniteSet(Moved(k)')
      BY <3>2, <3>5, FS_Subset
    <3>7. Cardinality(Moved(k)') \in Nat
      BY <3>6, FS_CardinalityType
    <3>. QED
      BY <1>0, <3>1, <3>2, <3>4, <3>6, <3>7
  <2>4. Cardinality(Pending(k)') = n /\ Cardinality(Pending(k)) = n + c
    <3>1. Pending(k) \in SUBSET Student /\ Pending(k) \cap S = S
      BY <1>1 DEF Pending
    <3>2. IsFiniteSet(Pending(k)) /\ Cardinality(Pending(k)) \in Nat
      BY <3>1, SomeStudents
    <3>3. Cardinality(Pending(k) \ S)
            = Cardinality(Pending(k)) - Cardinality(Pending(k) \cap S)
      BY <3>2, FS_Difference
    <3>4. Pending(k)' = Pending(k) \ S /\ c = Cardinality(S) /\ c \in Nat
          /\ n = Cardinality(Pending(k)) - c
      BY <1>0, <1>1
    <3>5. Cardinality(Pending(k)') = Cardinality(Pending(k)) - c
      BY <3>1, <3>3, <3>4
    <3>. QED
      BY <3>2, <3>4, <3>5
  <2>5. \A s \in Student : item'[k][s] \in TransferKey => item'[k][s] \in TransfersOf(k)'
    BY <1>0, <1>1, <1>2 DEF LedgerRow
  <2>6. /\ b.transferred = Counted(TransfersOf(k))'
        /\ b.version = 1 + Cardinality(TransfersOf(k)')
        /\ Cardinality(Moved(k)') <= b.transferred
        /\ b.remaining + b.transferred <= b.total
        /\ Cardinality(Pending(k)') <= b.remaining
        /\ b.status = "completed" => b.remaining = 0
        /\ b.status # "none"
    <3>1. /\ batch[k].transferred \in Nat /\ batch[k].remaining \in Nat
          /\ batch[k].total \in Nat /\ batch[k].version \in Nat
      BY <1>2 DEF BatchRow
    <3>2. /\ batch[k].transferred = Counted(TransfersOf(k))
          /\ batch[k].version = 1 + Cardinality(TransfersOf(k))
          /\ Cardinality(Moved(k)) <= batch[k].transferred
          /\ batch[k].remaining + batch[k].transferred <= batch[k].total
          /\ Cardinality(Pending(k)) <= batch[k].remaining
      BY <1>2, <1>3 DEF LedgerRow
    <3>3. /\ b.transferred = batch[k].transferred + c /\ b.version = batch[k].version + 1
          /\ b.remaining = n /\ b.total = batch[k].total
          /\ (n = 0 => b.status = "completed") /\ (n # 0 => b.status = "in_progress")
      BY <1>0, <1>3
    <3>4. b.status # "none" /\ (b.status = "completed" => b.remaining = 0)
      BY <3>3
    <3>5. c \in Nat /\ n \in Nat
      BY <1>0
    <3>6. b.transferred = Counted(TransfersOf(k))'
      BY <2>2, <3>2, <3>3
    <3>7. b.version = 1 + Cardinality(TransfersOf(k)')
      BY <2>1, <3>2, <3>3
    <3>8. Cardinality(Moved(k)') <= b.transferred
      BY <2>3, <3>1, <3>2, <3>3, <3>5
    <3>9. b.remaining + b.transferred <= b.total
      BY <2>4, <3>1, <3>2, <3>3, <3>5
    <3>10. Cardinality(Pending(k)') <= b.remaining
      BY <2>4, <3>3, <3>5
    <3>. QED
      BY <3>4, <3>6, <3>7, <3>8, <3>9, <3>10
  <2>. QED
    BY <1>1, <2>5, <2>6 DEF LedgerRow
<1>5. ASSUME NEW j \in StartKey, j # k
      PROVE  LedgerRow(j)'
  <2>1. \A x \in TransfersOf(j) : transfer'[x] = transfer[x]
    BY <1>1, <1>5 DEF TransfersOf
  <2>. QED
    BY <1>1, <1>5, <2>1, RowFrame DEF Ledger
<1>6. /\ req'[r].pc = "done" /\ \A x \in Request : x # r => req'[x] = req[x]
      /\ \A x \in Request : Stays(x)
  BY <1>0, <1>2, AnswerOne
<1>7. \A x \in Request : Filling(x)' => req[x].op.key \in StartKey \ {k}
  <2>1. Pending(k) # {}
    BY <1>0, <1>1
  <2>2. \A x \in Request : Filling(x) => req[x].op.key # k
    BY <2>1 DEF Ledger, FillingOK
  <2>. QED
    BY <1>2, <1>6, <2>2, KnownKeys DEF Stays
<1>8. \A x \in Request : Reading(x)' => req[x].op.batch \in StartKey
  BY <1>2, <1>6, KnownKeys DEF Stays
<1>9. ASSUME NEW x \in Request, Reading(x)', req[x].op.batch = k
      PROVE  ReadingOK(x)'
  <2>1. /\ Reading(x) /\ req'[x].op = req[x].op /\ ReadingOK(x)
        /\ req[x].op.version \in Nat
    BY <1>2, <1>6, <1>9, KnownKeys DEF Stays, Ledger
  <2>2. b.status # "none"
    BY <1>0
  <2>3. req[x].op.version <= batch[k].version /\ batch[k].version \in Nat
    BY <1>2, <1>9, <2>1 DEF ReadingOK, BatchRow
  <2>4. req[x].op.version <= b.version /\ req[x].op.version # b.version
    BY <1>0, <2>1, <2>3
  <2>. QED
    BY <1>1, <1>9, <2>1, <2>2, <2>4 DEF ReadingOK
<1>10. /\ \A x \in Request : Filling(x)' => FillingOK(x)'
       /\ \A x \in Request : Reading(x)' => ReadingOK(x)'
  <2>1. \A j \in StartKey : j # k => /\ batch'[j] = batch[j] /\ item'[j] = item[j]
                                      /\ TransfersOf(j)' = TransfersOf(j)
    BY <1>1
  <2>2. \A x \in Request : Reading(x)' /\ req[x].op.batch = k => ReadingOK(x)'
    BY <1>9
  <2>. QED
    BY <1>6, <1>7, <1>8, <2>1, <2>2, RequestsRest
<1>. QED
  BY <1>4, <1>5, <1>10 DEF Ledger

\* The check of a transfer reads the count at the version it compares.
LEMMA LedgerCheck ==
  ASSUME TypeInv, Ledger, NEW r \in Request, TransferCheck(r)
  PROVE  Ledger'
<1> DEFINE op == req[r].op
           k  == op.batch
<1>0. /\ ReqsOK /\ TablesOK /\ req[r] \in Requests
      /\ op.type = "transfer" /\ op.key \in TransferKey /\ k \in StartKey
  BY ClaimFacts
<1>1. CASE Refuse(r)
  BY <1>0, <1>1, RefuseOne, LedgerFrame DEF db
<1>2. CASE Answer(r, Result(op.key)) /\ UNCHANGED db
  <2>1. \A x \in Request : Stays(x)
    BY <1>0, <1>2, AnswerOne
  <2>. QED
    BY <1>2, <2>1, LedgerFrame DEF db
<1>3. CASE /\ Active(k) /\ batch[k].version = op.version
           /\ req' = [req EXCEPT ![r].pc = "checked", ![r].count = batch[k].transferred]
           /\ UNCHANGED db
  <2>1. /\ req'[r].pc = "checked" /\ req'[r].op = op /\ req'[r].count = batch[k].transferred
        /\ \A x \in Request : x # r => req'[x] = req[x]
    BY <1>0, <1>3 DEF ReqsOK, Requests
  <2>2. UNCHANGED <<batch, item, transfer>>
    BY <1>3 DEF db
  <2>3. \A j \in StartKey : LedgerRow(j)'
    BY <2>2, RowFrame DEF Ledger, TransfersOf
  <2>4. ASSUME NEW x \in Request, Filling(x)'
        PROVE  FillingOK(x)'
    <3>1. \A q \in Request : Filling(q)' => Filling(q) /\ req'[q] = req[q]
      BY <2>1 DEF Filling
    <3>2. FillingOK(x) /\ req'[x] = req[x]
      BY <2>4, <3>1 DEF Ledger
    <3>. QED
      BY <2>2, <3>1, <3>2 DEF FillingOK, TransfersOf, Pending
  <2>5. ASSUME NEW x \in Request, Reading(x)'
        PROVE  ReadingOK(x)'
    <3>1. CASE x = r
      <4>1. batch[k].status # "none" /\ op.version <= batch[k].version
        <5>1. batch[k].version \in Nat
          BY <1>0 DEF TablesOK, BatchRow
        <5>. QED
          BY <1>3, <5>1 DEF Active
      <4>. QED
        BY <2>1, <2>2, <3>1, <4>1 DEF ReadingOK
    <3>2. CASE x # r
      <4>1. Reading(x) /\ req'[x] = req[x]
        BY <2>1, <2>5, <3>2 DEF Reading
      <4>. QED
        BY <2>2, <4>1 DEF Ledger, ReadingOK
    <3>. QED
      BY <3>1, <3>2
  <2>. QED
    BY <2>3, <2>4, <2>5 DEF Ledger
<1>. QED
  BY <1>1, <1>2, <1>3 DEF TransferCheck, Asks

\* Assignments and changes of employment keep the ledger.
LEMMA LedgerOther ==
  ASSUME TypeInv, Ledger, NEW r \in Request,
         AssignCheck(r) \/ AssignWrite(r) \/ EmployCheck(r) \/ EmployWrite(r)
  PROVE  Ledger'
<1>0. ReqsOK /\ RequestOK(req[r]) /\ req[r] \in Requests
      /\ req[r].op.type \in {"assign", "employ"}
  BY TypeParts DEF ReqsOK, AssignCheck, AssignWrite, EmployCheck, EmployWrite, Asks
<1>1. UNCHANGED <<batch, item, transfer>>
  BY DEF AssignCheck, AssignWrite, EmployCheck, EmployWrite, Refuse, Fail, Accept, db
<1>2. \/ \E reply : Answer(r, reply)
      \/ /\ req'[r].pc = "checked" /\ req'[r].op = req[r].op
         /\ \A x \in Request : x # r => req'[x] = req[x]
  <2>1. CASE AssignCheck(r)
    BY <1>0, <2>1 DEF AssignCheck, Refuse, Accept, ReqsOK, Requests
  <2>2. CASE AssignWrite(r)
    BY <2>2 DEF AssignWrite, Fail
  <2>3. CASE EmployCheck(r)
    BY <1>0, <2>3 DEF EmployCheck, Refuse, Accept, Advance, ReqsOK, Requests
  <2>4. CASE EmployWrite(r)
    BY <2>4 DEF EmployWrite
  <2>. QED
    BY <2>1, <2>2, <2>3, <2>4
<1>3. \A x \in Request : Stays(x)
  <2>1. CASE \E reply : Answer(r, reply)
    BY <1>0, <2>1, AnswerOne
  <2>2. CASE ~\E reply : Answer(r, reply)
    BY <1>0, <1>2, <2>2 DEF Stays, Filling, Reading
  <2>. QED
    BY <2>1, <2>2
<1>. QED
  BY <1>1, <1>3, LedgerFrame

\* A deleted student leaves every batch.
LEMMA DeleteSets ==
  ASSUME TypeInv, NEW s \in Student, DeleteStudent(s), NEW k \in StartKey
  PROVE  /\ Pending(k)' = Pending(k) \ {s} /\ Moved(k)' = Moved(k) \ {s}
         /\ \A x \in Student : item'[k][x] = IF x = s THEN None ELSE item[k][x]
         /\ TransfersOf(k)' = TransfersOf(k)
<1>1. \A x \in Student : item'[k][x] = IF x = s THEN None ELSE item[k][x]
  BY TypeParts DEF TablesOK, DeleteStudent
<1>2. Pending(k)' = Pending(k) \ {s}
  BY <1>1 DEF Pending
<1>3. Moved(k)' = Moved(k) \ {s}
  <2>1. \A x \in Student : x \in Moved(k)' <=> item'[k][x] \in TransferKey
    BY DEF Moved, MovedBy
  <2>2. \A x \in Student : x \in Moved(k) <=> item[k][x] \in TransferKey
    BY DEF Moved, MovedBy
  <2>3. Moved(k)' \subseteq Student /\ Moved(k) \subseteq Student
    BY DEF Moved, MovedBy
  <2>. QED
    BY <1>1, <2>1, <2>2, <2>3
<1>. QED
  BY <1>1, <1>2, <1>3 DEF DeleteStudent, TransfersOf

\* A deletion keeps the ledger: the counters still count the student.
LEMMA LedgerDelete ==
  ASSUME TypeInv, Ledger, NEW s \in Student, DeleteStudent(s)
  PROVE  Ledger'
<1>0. UNCHANGED <<batch, transfer, req>>
  BY DEF DeleteStudent
<1>1. ASSUME NEW k \in StartKey
      PROVE  LedgerRow(k)'
  <2>1. /\ Pending(k)' = Pending(k) \ {s} /\ Moved(k)' = Moved(k) \ {s}
        /\ \A x \in Student : item'[k][x] = IF x = s THEN None ELSE item[k][x]
        /\ TransfersOf(k)' = TransfersOf(k)
    BY DeleteSets
  <2>2. LedgerRow(k) /\ batch'[k] = batch[k] /\ batch[k] \in BatchRow
    BY <1>0, TypeParts DEF Ledger, TablesOK
  <2>3. /\ Cardinality(Pending(k)') <= Cardinality(Pending(k))
        /\ Cardinality(Moved(k)') <= Cardinality(Moved(k))
        /\ Cardinality(Pending(k)') \in Nat /\ Cardinality(Pending(k)) \in Nat
        /\ Cardinality(Moved(k)') \in Nat /\ Cardinality(Moved(k)) \in Nat
    <3>1. /\ Pending(k) \in SUBSET Student /\ Moved(k) \in SUBSET Student
          /\ Pending(k)' \in SUBSET Pending(k) /\ Moved(k)' \in SUBSET Moved(k)
          /\ Pending(k)' \in SUBSET Student /\ Moved(k)' \in SUBSET Student
      BY <2>1 DEF Pending, Moved, MovedBy
    <3>. QED
      BY <3>1, SomeStudents, FS_Subset
  <2>4. Counted(TransfersOf(k))' = Counted(TransfersOf(k))
    BY <1>0, <2>1, CountedTickets
  <2>5. \A x \in Student : item'[k][x] \in TransferKey => item'[k][x] \in TransfersOf(k)'
    BY <2>1, <2>2 DEF LedgerRow
  <2>6. /\ batch[k].remaining \in Nat /\ batch[k].transferred \in Nat
    BY <2>2 DEF BatchRow
  <2>7. /\ Cardinality(Moved(k)') <= batch[k].transferred
        /\ Cardinality(Pending(k)') <= batch[k].remaining
    BY <2>2, <2>3, <2>6 DEF LedgerRow
  <2>. QED
    BY <2>1, <2>2, <2>4, <2>5, <2>7 DEF LedgerRow
<1>2. ASSUME NEW x \in Request, Filling(x)'
      PROVE  FillingOK(x)'
  <2>1. Filling(x) /\ FillingOK(x) /\ req[x].op.key \in StartKey
    BY <1>0, <1>2, KnownKeys, TypeParts DEF Filling, Ledger
  <2>2. TransfersOf(req[x].op.key)' = {} /\ Pending(req[x].op.key)' = {}
    <3>1. ASSUME NEW k \in StartKey, TransfersOf(k) = {}, Pending(k) = {}
          PROVE  TransfersOf(k)' = {} /\ Pending(k)' = {}
      BY <3>1, DeleteSets
    <3>2. req'[x].op.key = req[x].op.key
      BY <1>0
    <3>. QED
      BY <2>1, <3>1, <3>2 DEF FillingOK
  <2>. QED
    BY <1>0, <2>1, <2>2 DEF FillingOK, Filling, FreshBatch, NoBatch
<1>3. \A x \in Request : Reading(x)' => ReadingOK(x)'
  BY <1>0 DEF Ledger, Reading, ReadingOK
<1>. QED
  BY <1>1, <1>2, <1>3 DEF Ledger

\* Every step keeps the ledger.
LEMMA StepLedger ==
  ASSUME TypeInv, Ledger, [Next]_vars
  PROVE  Ledger'
<1>0. ReqsOK
  BY TypeParts
<1>1. ASSUME NEW r \in Request,
             StartCheck(r) \/ StartInsert(r) \/ StartPlan(r) \/ StartFinish(r)
      PROVE  Ledger'
  BY <1>1, LedgerStart
<1>2. ASSUME NEW r \in Request, TransferCheck(r) \/ TransferClaim(r)
      PROVE  Ledger'
  <2>1. CASE TransferCheck(r)
    BY <2>1, LedgerCheck
  <2>2. CASE TransferClaim(r) /\ Claimed(r)
    BY <2>2, LedgerClaim
  <2>3. CASE Refuse(r)
    BY <1>0, <2>3, RefuseOne, LedgerFrame DEF db
  <2>. QED
    BY <1>2, <2>1, <2>2, <2>3, ClaimFacts
<1>3. ASSUME NEW r \in Request,
             AssignCheck(r) \/ AssignWrite(r) \/ EmployCheck(r) \/ EmployWrite(r)
      PROVE  Ledger'
  BY <1>3, LedgerOther
<1>4. ASSUME NEW r \in Request, NEW w \in Worker, NEW op \in Op, Send(r, w, op)
      PROVE  Ledger'
  <2>1. /\ req'[r].pc = "waiting" /\ \A x \in Request : x # r => req'[x] = req[x]
    BY <1>0, <1>4 DEF Send, ReqsOK, Requests
  <2>2. \A x \in Request : Stays(x)
    BY <2>1 DEF Stays, Filling, Reading
  <2>. QED
    BY <1>4, <2>2, LedgerFrame DEF Send, db
<1>5. ASSUME NEW s \in Student, DeleteStudent(s)
      PROVE  Ledger'
  BY <1>5, LedgerDelete
<1>6. ASSUME NEW w \in Worker, Crash(w)
      PROVE  Ledger'
  <2>1. \A x \in Request : req'[x] = req[x] \/ req'[x].pc = "done"
    BY <1>6 DEF Crash, Ended, Idle
  <2>2. \A x \in Request : Stays(x)
    BY <2>1 DEF Stays, Filling, Reading
  <2>. QED
    BY <1>6, <2>2, LedgerFrame DEF Crash, db
<1>7. CASE UNCHANGED vars
  BY <1>7, LedgerFrame DEF vars, Stays, Filling, Reading
<1>. QED
  BY <1>1, <1>2, <1>3, <1>4, <1>5, <1>6, <1>7, StepCases

\* The ledger is kept, with the types.
LEMMA LedgerInvariant == Spec => [](TypeInv /\ Ledger)
<1>1. Init => TypeInv /\ Ledger
  BY InitTypes, InitLedger
<1>2. TypeInv /\ Ledger /\ [Next]_vars => TypeInv' /\ Ledger'
  BY StepTypes, StepLedger
<1>. QED
  BY <1>1, <1>2, PTL DEF Spec

\* CountersMatch: with any number of workers, whose process locks exclude nothing between
\* them, the counters of a batch are those of its transfers, because the version a
\* transfer claims stands for what it read.
THEOREM CountersAddUp == Spec => []CountersMatch
<1>1. Ledger => CountersMatch
  BY DEF Ledger, LedgerRow, CountersMatch
<1>. QED
  BY <1>1, LedgerInvariant, PTL

-----------------------------------------------------------------------------
(* Replays. *)

AllHere == \A s \in Student : student[s].here
\* A transfer that was answered.
Answered(r) == /\ req[r].pc = "done" /\ req[r].op.type = "transfer"
               /\ req[r].reply.kind = "ok"

\* While nobody is deleted every student of a batch is pending or counted.
KeptRow(k) == AllHere => Cardinality(Pending(k)) + batch[k].transferred = batch[k].total

\* A transfer has an earlier version than its batch.
Older(t) == transfer[t] # NoTransfer => transfer[t].version < batch[transfer[t].batch].version

\* What a request was told is what the tables say of its transfer ever since.
Told(r) ==
  LET t == req[r].op.key
      x == req[r].reply
  IN /\ transfer[t] # NoTransfer
     /\ x.version = transfer[t].version + 1
     /\ \A s \in Student : student[s].here => (s \in x.ids <=> item[transfer[t].batch][s] = t)
     /\ AllHere => x = Result(t)

\* Every batch and every answer is as a replay needs it.
Replay == /\ \A k \in StartKey : KeptRow(k)
          /\ \A t \in TransferKey : Older(t)
          /\ \A r \in Request : Answered(r) => Told(r)

\* What the key of an answered request is.
LEMMA AnsweredKey ==
  ASSUME TypeInv, NEW r \in Request, Answered(r)
  PROVE  /\ req[r].op.key \in TransferKey
         /\ transfer[req[r].op.key] # NoTransfer => transfer[req[r].op.key].batch \in StartKey
<1>1. req[r].op \in Op /\ TablesOK
  BY TypeParts DEF ReqsOK, RequestOK, Answered
<1>2. req[r].op.key \in TransferKey
  BY <1>1, OpShapes DEF Answered
<1>. QED
  BY <1>1, <1>2 DEF TablesOK

\* Nobody comes back.
LEMMA NobodyReturns ==
  ASSUME TypeInv, [Next]_vars
  PROVE  \A s \in Student : student'[s].here => student[s].here
<1>0. student \in [Student -> StudentRow] /\ ReqsOK
  BY TypeParts DEF TablesOK
<1>1. ASSUME NEW r \in Request, TransferClaim(r)
      PROVE  \A s \in Student : student'[s].here => student[s].here
  <2>1. CASE Refuse(r)
    BY <2>1 DEF Refuse, db
  <2>2. CASE ~Refuse(r)
    <3>1. Claimed(r)
      BY <1>1, <2>2, ClaimFacts
    <3> DEFINE to == req[r].op.to
               S  == Eligible(req[r].op.batch, req[r].op.chosen)
    <3>2. student' = [s \in Student |->
                         IF s \in S /\ student[s].agent # to
                         THEN [student[s] EXCEPT !.agent = to, !.seat = @ + 1]
                         ELSE student[s]]
      BY <3>1 DEF Claimed
    <3> HIDE DEF to, S
    <3>. QED
      BY <1>0, <3>2 DEF StudentRow
  <2>. QED
    BY <2>1, <2>2
<1>2. ASSUME NEW r \in Request, AssignWrite(r)
      PROVE  \A s \in Student : student'[s].here => student[s].here
  BY <1>0, <1>2 DEF AssignWrite, Fail, db, StudentRow
<1>3. ASSUME NEW s \in Student, DeleteStudent(s)
      PROVE  \A x \in Student : student'[x].here => student[x].here
  BY <1>0, <1>3 DEF DeleteStudent
<1>4. ASSUME NEW r \in Request,
             \/ StartCheck(r) \/ StartInsert(r) \/ StartPlan(r) \/ StartFinish(r)
             \/ TransferCheck(r) \/ AssignCheck(r) \/ EmployCheck(r) \/ EmployWrite(r)
      PROVE  UNCHANGED student
  BY <1>4 DEF StartCheck, StartInsert, StartPlan, StartFinish, TransferCheck, AssignCheck,
              EmployCheck, EmployWrite, Refuse, Fail, Accept, db
<1>5. ASSUME \/ \E r \in Request, w \in Worker, op \in Op : Send(r, w, op)
             \/ \E w \in Worker : Crash(w)
             \/ UNCHANGED vars
      PROVE  UNCHANGED student
  BY <1>5 DEF Send, Crash, db, vars
<1>. QED
  BY <1>1, <1>2, <1>3, <1>4, <1>5, StepCases

\* What a retry would be told stays the same while nobody is deleted.
LEMMA ResultStable ==
  ASSUME NEW t, transfer'[t] = transfer[t],
         batch'[transfer[t].batch].total = batch[transfer[t].batch].total,
         \A s \in Student : item'[transfer[t].batch][s] = t <=> item[transfer[t].batch][s] = t,
         UpTo(t)' = UpTo(t), \A u \in UpTo(t) : transfer'[u] = transfer[u]
  PROVE  Result(t)' = Result(t)
<1>1. MovedBy(transfer[t].batch, t)' = MovedBy(transfer[t].batch, t)
  BY DEF MovedBy
<1>2. Counted(UpTo(t))' = Counted(UpTo(t))
  <2>1. /\ Counted(UpTo(t)) = Cardinality(Tickets(transfer, UpTo(t)))
        /\ Counted(UpTo(t))' = Cardinality(Tickets(transfer', UpTo(t)'))
    BY DEF Counted, Tickets
  <2>. QED
    BY <2>1, TicketsSame
<1>. QED
  BY <1>1, <1>2 DEF Result

\* What a transfer counts changes only with the transfers of its batch.
LEMMA UpToSame ==
  ASSUME NEW t, NEW b, b = transfer[t].batch, transfer'[t] = transfer[t],
         TransfersOf(b)' = TransfersOf(b),
         \A y \in TransfersOf(b) : transfer'[y] = transfer[y]
  PROVE  UpTo(t)' = UpTo(t)
<1>1. UpTo(t)' = {y \in TransfersOf(b)' : transfer'[y].version <= transfer[t].version}
  BY DEF UpTo
<1>2. @ = {y \in TransfersOf(b) : transfer[y].version <= transfer[t].version}
  OBVIOUS
<1>. QED
  BY <1>1, <1>2 DEF UpTo

\* A step that leaves alone what the answer of r says, whose key is t and whose batch is b.
Undisturbed(r, t, b) ==
  /\ req'[r] = req[r] /\ t = req[r].op.key /\ b = transfer[t].batch
  /\ transfer'[t] = transfer[t] /\ batch'[b].total = batch[b].total
  /\ \A s \in Student : student'[s].here => student[s].here
  /\ \A s \in Student : student'[s].here => (item'[b][s] = t <=> item[b][s] = t)
  /\ UpTo(t)' = UpTo(t)
  /\ \A u \in UpTo(t) : transfer'[u] = transfer[u]

\* An answer stays true where its batch keeps the students of those who are here.
LEMMA ToldFrame ==
  ASSUME NEW r, NEW t, NEW b, Told(r), Undisturbed(r, t, b)
  PROVE  Told(r)'
<1>0. /\ req'[r] = req[r] /\ t = req[r].op.key /\ b = transfer[t].batch
      /\ transfer'[t] = transfer[t] /\ batch'[b].total = batch[b].total
      /\ \A s \in Student : student'[s].here => student[s].here
      /\ \A s \in Student : student'[s].here => (item'[b][s] = t <=> item[b][s] = t)
      /\ UpTo(t)' = UpTo(t)
      /\ \A u \in UpTo(t) : transfer'[u] = transfer[u]
  BY DEF Undisturbed
<1>1. /\ transfer'[t] # NoTransfer /\ req'[r].reply.version = transfer'[t].version + 1
      /\ \A s \in Student : student'[s].here =>
           (s \in req'[r].reply.ids <=> item'[transfer'[t].batch][s] = t)
  <2>1. /\ transfer[t] # NoTransfer /\ req[r].reply.version = transfer[t].version + 1
        /\ \A s \in Student : student[s].here => (s \in req[r].reply.ids <=> item[b][s] = t)
    BY <1>0 DEF Told
  <2>2. transfer'[t] # NoTransfer /\ req'[r].reply.version = transfer'[t].version + 1
    BY <1>0, <2>1
  <2>3. ASSUME NEW s \in Student, student'[s].here
        PROVE  s \in req'[r].reply.ids <=> item'[transfer'[t].batch][s] = t
    <3>1. student[s].here /\ (item'[b][s] = t <=> item[b][s] = t)
      BY <1>0, <2>3
    <3>. QED
      BY <1>0, <2>1, <3>1
  <2>. QED
    BY <2>2, <2>3
<1>2. ASSUME AllHere'
      PROVE  req'[r].reply = Result(t)'
  <2>1. AllHere /\ \A s \in Student : item'[b][s] = t <=> item[b][s] = t
    BY <1>0, <1>2 DEF AllHere
  <2>2. req[r].reply = Result(t)
    BY <1>0, <2>1 DEF Told
  <2>3. Result(t)' = Result(t)
    BY <1>0, <2>1, ResultStable
  <2>. QED
    BY <1>0, <2>2, <2>3
<1>3. req'[r].op.key = t /\ NoTransfer' = NoTransfer
  BY <1>0 DEF NoTransfer
<1>. QED
  BY ZenonT(60), <1>1, <1>2, <1>3 DEF Told

\* A step that moves nobody: no transfer is written, a batch that has one keeps its total
\* and its items, and whoever is answered is told the truth.
LEMMA ToldRest ==
  ASSUME TypeInv, Replay, transfer' = transfer,
         \A s \in Student : student'[s].here => student[s].here,
         \A b \in StartKey : TransfersOf(b) # {} =>
           /\ batch'[b].total = batch[b].total
           /\ \A s \in Student : student'[s].here => item'[b][s] = item[b][s],
         \A x \in Request : Answered(x)' => (Answered(x) /\ req'[x] = req[x]) \/ Told(x)'
  PROVE  \A x \in Request : Answered(x)' => Told(x)'
<1>1. ASSUME NEW x \in Request, Answered(x), req'[x] = req[x]
      PROVE  Told(x)'
  <2> DEFINE t == req[x].op.key
             b == transfer[t].batch
  <2>1. t \in TransferKey /\ b \in StartKey /\ Told(x)
    BY <1>1, AnsweredKey DEF Replay, Told
  <2>2. t \in TransfersOf(b) /\ UpTo(t)' = UpTo(t)
    BY <1>1, <2>1 DEF TransfersOf, UpTo
  <2>3. /\ batch'[b].total = batch[b].total
        /\ \A s \in Student : student'[s].here => student[s].here /\ item'[b][s] = item[b][s]
    BY <2>1, <2>2
  <2>4. Undisturbed(x, t, b)
    BY <1>1, <2>2, <2>3 DEF Undisturbed
  <2>. QED
    BY <2>1, <2>4, ToldFrame
<1>. QED
  BY <1>1

\* A step that writes neither batches, items nor transfers.
LEMMA ReplayFrame ==
  ASSUME TypeInv, Replay, UNCHANGED <<batch, item, transfer>>,
         \A s \in Student : student'[s].here => student[s].here,
         \A x \in Request : Answered(x)' => (Answered(x) /\ req'[x] = req[x]) \/ Told(x)'
  PROVE  Replay'
<1>1. \A k \in StartKey : KeptRow(k)'
  BY DEF Replay, KeptRow, AllHere, Pending
<1>2. \A t \in TransferKey : Older(t)'
  BY DEF Replay, Older
<1>3. \A x \in Request : Answered(x)' => Told(x)'
  BY ToldRest
<1>. QED
  BY <1>1, <1>2, <1>3 DEF Replay

\* Where everything starts.
LEMMA InitReplay == ASSUME Init PROVE Replay
<1>1. ASSUME NEW k \in StartKey
      PROVE  KeptRow(k)
  <2>1. Pending(k) = {} /\ batch[k] = NoBatch
    BY DEF Init, Pending
  <2>. QED
    BY <2>1, FS_EmptySet DEF KeptRow, NoBatch
<1>2. \A t \in TransferKey : Older(t)
  BY DEF Init, Older
<1>3. \A r \in Request : ~Answered(r)
  BY DEF Init, Answered, Idle
<1>. QED
  BY <1>1, <1>2, <1>3 DEF Replay

\* A step of another request, or of one that asks for no transfer, answers no transfer.
LEMMA Quiet ==
  ASSUME ReqsOK, NEW r \in Request, req[r].op.type # "transfer", req'[r].op = req[r].op,
         \A x \in Request : x # r => req'[x] = req[x]
  PROVE  \A x \in Request : Answered(x)' => Answered(x) /\ req'[x] = req[x]
BY DEF Answered

\* start_handover and offboard_user: the batch they write has no transfers.
LEMMA ReplayStart ==
  ASSUME TypeInv, Ledger, Replay, NEW r \in Request, NEW k, k = req[r].op.key,
         StartCheck(r) \/ StartInsert(r) \/ StartPlan(r) \/ StartFinish(r)
  PROVE  Replay'
<1>0. /\ ReqsOK /\ TablesOK /\ req[r] \in Requests /\ RequestOK(req[r])
      /\ ~At(r, "done") /\ req[r].op.type # "transfer" /\ k \in StartKey
      /\ batch[k] \in BatchRow
  <2>1. /\ ReqsOK /\ TablesOK /\ req[r] \in Requests /\ RequestOK(req[r])
        /\ ~At(r, "done") /\ req[r].op.type # "transfer" /\ k \in StartKey
    BY StartFacts
  <2>. QED
    BY <2>1 DEF TablesOK
<1>1. \A b \in StartKey : batch[b].remaining \in Nat
  BY <1>0 DEF TablesOK, BatchRow
<1>2. CASE Refuse(r) \/ Fail(r) \/ \E n \in Nat : Accept(r, n)
  <2>1. \A x \in Request : Answered(x)' => Answered(x) /\ req'[x] = req[x]
    BY <1>0, <1>2, RefuseOne, Quiet
  <2>2. UNCHANGED db
    BY <1>0, <1>2, RefuseOne
  <2>. QED
    BY <2>1, <2>2, ReplayFrame DEF db
<1>3. ASSUME NEW pc \in {"checked", "inserted"}, Advance(r, pc)
      PROVE  \A x \in Request : Answered(x)' => Answered(x) /\ req'[x] = req[x]
  <2>1. req'[r].op = req[r].op /\ \A x \in Request : x # r => req'[x] = req[x]
    BY <1>0, <1>3 DEF Advance, ReqsOK, Requests
  <2>. QED
    BY <1>0, <2>1, Quiet
<1>4. CASE StartCheck(r)
  <2>1. CASE Advance(r, "checked") /\ UNCHANGED db
    <3>1. \A x \in Request : Answered(x)' => Answered(x) /\ req'[x] = req[x]
      BY <1>3, <2>1
    <3>. QED
      BY <2>1, <3>1, ReplayFrame DEF db
  <2>. QED
    BY <1>0, <1>1, <1>2, <1>4, <2>1 DEF StartCheck, Running
<1>5. CASE StartInsert(r)
  <2>1. CASE /\ batch[k].status = "none"
             /\ batch' = [batch EXCEPT ![k] = FreshBatch]
             /\ Advance(r, "inserted")
             /\ UNCHANGED <<employment, student, item, transfer>>
    <3>1. TransfersOf(k) = {} /\ Pending(k) = {}
      BY <1>0, <2>1, UnstartedRow
    <3>2. /\ batch'[k] = FreshBatch
          /\ \A j \in StartKey : j # k => batch'[j] = batch[j]
      BY <1>0, <2>1 DEF TablesOK
    <3>3. ASSUME NEW j \in StartKey
          PROVE  KeptRow(j)'
      <4>1. CASE j = k
        <5>1. Pending(j)' = {}
          BY <2>1, <3>1, <4>1 DEF Pending
        <5>2. FreshBatch.total = 0 /\ FreshBatch.transferred = 0
          BY DEF FreshBatch, NoBatch
        <5>3. Cardinality(Pending(j)') = 0
          BY <5>1, FS_EmptySet
        <5>. QED
          BY <3>2, <4>1, <5>2, <5>3 DEF KeptRow
      <4>2. CASE j # k
        <5>1. KeptRow(j) /\ Pending(j)' = Pending(j) /\ AllHere' = AllHere
              /\ batch'[j] = batch[j]
          BY <2>1, <3>2, <4>2 DEF Replay, Pending, AllHere
        <5>. QED
          BY <5>1 DEF KeptRow
      <4>. QED
        BY <4>1, <4>2
    <3>4. ASSUME NEW t \in TransferKey
          PROVE  Older(t)'
      <4>1. Older(t) /\ transfer[t].batch # k
        BY <3>1 DEF Replay, TransfersOf
      <4>2. transfer[t] # NoTransfer => transfer[t].batch \in StartKey
        BY <1>0 DEF TablesOK
      <4>. QED
        BY <2>1, <3>2, <4>1, <4>2 DEF Older
    <3>5. \A x \in Request : Answered(x)' => Told(x)'
      <4>1. \A b \in StartKey : TransfersOf(b) # {} => batch'[b] = batch[b]
        BY <3>1, <3>2
      <4>2. \A x \in Request : Answered(x)' => Answered(x) /\ req'[x] = req[x]
        BY <1>3, <2>1
      <4>. QED
        BY <2>1, <4>1, <4>2, ToldRest
    <3>. QED
      BY <3>3, <3>4, <3>5 DEF Replay
  <2>. QED
    BY <1>0, <1>1, <1>2, <1>5, <2>1 DEF StartInsert, FreshBatch
<1>6. CASE StartPlan(r)
  <2>1. req'[r].op = req[r].op /\ \A x \in Request : x # r => req'[x] = req[x]
    BY <1>0, <1>6 DEF StartPlan, ReqsOK, Requests
  <2>2. \A x \in Request : Answered(x)' => Answered(x) /\ req'[x] = req[x]
    BY <1>0, <2>1, Quiet
  <2>. QED
    BY <1>6, <2>2, ReplayFrame DEF StartPlan, db
<1>7. CASE Fills(r)
  <2> DEFINE P == req[r].plan
             n == Cardinality(P)
             b == [batch[k] EXCEPT !.total = n, !.remaining = n,
                                   !.status = IF n = 0 THEN "completed" ELSE @]
  <2>1. /\ batch' = [batch EXCEPT ![k] = b] /\ P \in SUBSET Student /\ n \in Nat
        /\ item' = [item EXCEPT ![k] = [s \in Student |-> IF s \in P THEN "pending" ELSE @[s]]]
        /\ UNCHANGED <<student, transfer>> /\ Answer(r, Ok({}, n, 0)) /\ Filling(r)
    BY <1>7 DEF Fills, Filling, At
  <2> HIDE DEF n
  <2>2. /\ b.total = n /\ b.version = batch[k].version
        /\ b.transferred = batch[k].transferred
    BY <1>0, <2>1, AfterFill
  <2> HIDE DEF b
  <2>3. batch[k] = FreshBatch /\ TransfersOf(k) = {} /\ Pending(k) = {}
    BY <1>0, <2>1 DEF Ledger, FillingOK
  <2>4. /\ batch'[k] = b /\ \A j \in StartKey : j # k => batch'[j] = batch[j]
        /\ \A j \in StartKey : j # k => item'[j] = item[j]
        /\ \A s \in Student : item'[k][s] = IF s \in P THEN "pending" ELSE item[k][s]
    BY <1>0, <2>1 DEF TablesOK
  <2>5. ASSUME NEW j \in StartKey
        PROVE  KeptRow(j)'
    <3>1. CASE j = k
      <4>1. Pending(k)' = P
        BY <2>1, <2>3, <2>4 DEF Pending
      <4>2. FreshBatch.transferred = 0
        BY DEF FreshBatch, NoBatch
      <4>3. b.transferred = 0 /\ Cardinality(Pending(k)') = n
        BY <2>2, <2>3, <4>1, <4>2 DEF n
      <4>. QED
        BY <2>1, <2>2, <2>4, <3>1, <4>3 DEF KeptRow
    <3>2. CASE j # k
      <4>1. KeptRow(j) /\ Pending(j)' = Pending(j) /\ AllHere' = AllHere
            /\ batch'[j] = batch[j]
        BY <2>1, <2>4, <3>2 DEF Replay, Pending, AllHere
      <4>. QED
        BY <4>1 DEF KeptRow
    <3>. QED
      BY <3>1, <3>2
  <2>6. ASSUME NEW t \in TransferKey
        PROVE  Older(t)'
    <3>1. Older(t) /\ transfer[t].batch # k
      BY <2>3 DEF Replay, TransfersOf
    <3>2. transfer[t] # NoTransfer => transfer[t].batch \in StartKey
      BY <1>0 DEF TablesOK
    <3>. QED
      BY <2>1, <2>4, <3>1, <3>2 DEF Older
  <2>7. \A x \in Request : Answered(x)' => Told(x)'
    <3>1. \A j \in StartKey : TransfersOf(j) # {} => batch'[j] = batch[j] /\ item'[j] = item[j]
      BY <2>3, <2>4
    <3>2. req'[r].op = req[r].op /\ \A x \in Request : x # r => req'[x] = req[x]
      BY <1>0, <2>1, AnswerOne
    <3>3. \A x \in Request : Answered(x)' => Answered(x) /\ req'[x] = req[x]
      BY <1>0, <3>2, Quiet
    <3>. QED
      BY <2>1, <3>1, <3>3, ToldRest
  <2>. QED
    BY <2>5, <2>6, <2>7 DEF Replay
<1>. QED
  BY <1>2, <1>4, <1>5, <1>6, <1>7, StartFacts

\* execute_transfer: a claim moves pending students only, and its version is above those of
\* the batch's transfers, so what they were told is left as it was.
LEMMA ReplayClaim ==
  ASSUME TypeInv, Ledger, Ledger', TypeInv', Replay, NEW r \in Request,
         NEW k, k = req[r].op.batch, NEW t, t = req[r].op.key, TransferClaim(r), Claimed(r),
         \A s \in Student : student'[s].here => student[s].here
  PROVE  Replay'
<1>. PICK S, n, c, b, u : ClaimWrites(r, k, t, S, n, c, b, u)
  BY ClaimParts
<1>0. /\ Reading(r) /\ t \in TransferKey /\ k \in StartKey /\ req[r].op.version \in Nat
      /\ S \in SUBSET Student /\ n \in Nat /\ c \in Nat
      /\ b \in BatchRow /\ u \in TransferRow
      /\ batch[k].version = req[r].op.version
      /\ c = Cardinality(S) /\ n = Cardinality(Pending(k)) - c
      /\ b.total = batch[k].total /\ b.version = batch[k].version + 1
      /\ transfer[t] = NoTransfer /\ b.transferred = req[r].count + c
      /\ u.count = c /\ u.batch = k /\ u.version = req[r].op.version /\ u # NoTransfer
      /\ Answer(r, Ok(S, n, req[r].op.version + 1))
  BY DEF ClaimWrites
<1>1. /\ S \in SUBSET Pending(k)
      /\ TransfersOf(k)' = TransfersOf(k) \cup {t} /\ t \notin TransfersOf(k)
      /\ Pending(k)' = Pending(k) \ S
      /\ \A s \in Student : item'[k][s] = IF s \in S THEN t ELSE item[k][s]
      /\ batch'[k] = b /\ transfer'[t] = u
      /\ \A x \in TransferKey : x # t => transfer'[x] = transfer[x]
      /\ \A j \in StartKey : j # k => /\ batch'[j] = batch[j] /\ item'[j] = item[j]
                                      /\ TransfersOf(j)' = TransfersOf(j)
                                      /\ t \notin TransfersOf(j)
  BY ClaimSets
<1>2. ReqsOK /\ TablesOK /\ batch[k] \in BatchRow /\ LedgerRow(k)
  BY <1>0, TypeParts DEF TablesOK, Ledger
<1>3. batch[k].status # "none" /\ req[r].count = batch[k].transferred
  BY <1>0 DEF ClaimWrites, Active, Ledger, ReadingOK
<1>4. Cardinality(Pending(k)') = n /\ Cardinality(Pending(k)) = n + c
  <2>1. Pending(k) \in SUBSET Student /\ Pending(k) \cap S = S
    BY <1>1 DEF Pending
  <2>2. IsFiniteSet(Pending(k)) /\ Cardinality(Pending(k)) \in Nat
    BY <2>1, SomeStudents
  <2>3. Cardinality(Pending(k) \ S) = Cardinality(Pending(k)) - Cardinality(Pending(k) \cap S)
    BY <2>2, FS_Difference
  <2>4. Pending(k)' = Pending(k) \ S /\ c = Cardinality(S) /\ c \in Nat
        /\ n = Cardinality(Pending(k)) - c
    BY <1>0, <1>1
  <2>5. Cardinality(Pending(k)') = Cardinality(Pending(k)) - c
    BY <2>1, <2>3, <2>4
  <2>. QED
    BY <2>2, <2>4, <2>5
<1>5. AllHere' => AllHere
  BY DEF AllHere
<1>6. ASSUME NEW j \in StartKey
      PROVE  KeptRow(j)'
  <2>1. CASE j = k
    <3>1. /\ batch[k].total \in Nat /\ batch[k].transferred \in Nat
          /\ n \in Nat /\ c \in Nat
      BY <1>0, <1>2 DEF BatchRow
    <3>2. b.transferred = batch[k].transferred + c /\ b.total = batch[k].total
      BY <1>0, <1>3
    <3>3. AllHere => n + c + batch[k].transferred = batch[k].total
      BY <1>0, <1>4 DEF Replay, KeptRow
    <3>4. AllHere' => n + b.transferred = b.total
      BY <1>5, <3>1, <3>2, <3>3
    <3>. QED
      BY <1>1, <1>4, <2>1, <3>4 DEF KeptRow
  <2>2. CASE j # k
    <3>1. KeptRow(j) /\ Pending(j)' = Pending(j) /\ batch'[j] = batch[j]
      BY <1>1, <2>2 DEF Replay, Pending
    <3>. QED
      BY <1>5, <3>1 DEF KeptRow
  <2>. QED
    BY <2>1, <2>2
<1>7. ASSUME NEW x \in TransferKey
      PROVE  Older(x)'
  <2>1. CASE x = t
    <3>1. u.version < b.version /\ u.batch = k
      BY <1>0
    <3>. QED
      BY <1>0, <1>1, <2>1, <3>1 DEF Older
  <2>2. CASE x # t
    <3>1. transfer'[x] = transfer[x] /\ Older(x)
          /\ (transfer[x] # NoTransfer => transfer[x].batch \in StartKey)
          /\ transfer[x] \in TransferRow
      BY <1>1, <1>2, <2>2 DEF Replay, TablesOK
    <3>2. CASE transfer[x].batch = k
      <4>1. transfer[x].version \in Nat /\ batch[k].version \in Nat
        BY <1>2, <3>1 DEF TransferRow, BatchRow
      <4>. QED
        BY <1>0, <1>1, <3>1, <3>2, <4>1 DEF Older, NoTransfer
    <3>3. CASE transfer[x].batch # k
      BY <1>1, <3>1, <3>3 DEF Older, NoTransfer
    <3>. QED
      BY <3>2, <3>3
  <2>. QED
    BY <2>1, <2>2
<1>8. /\ req'[r].pc = "done" /\ req'[r].op = req[r].op
      /\ req'[r].reply = Ok(S, n, req[r].op.version + 1)
      /\ \A x \in Request : x # r => req'[x] = req[x]
  BY <1>0, <1>2, AnswerOne
<1>9. Told(r)'
  <2>1. \A s \in Student : item[k][s] # t
    BY <1>0, <1>1, <1>2 DEF LedgerRow
  <2>2. \A s \in Student : s \in S <=> item'[k][s] = t
    BY <1>1, <2>1
  <2>3. ASSUME AllHere'
        PROVE  Result(t)' = Ok(S, n, req[r].op.version + 1)
    <3>1. MovedBy(k, t)' = S
      BY <1>0, <2>2 DEF MovedBy
    <3>2. UpTo(t)' = TransfersOf(k)'
      <4>1. ASSUME NEW x \in TransfersOf(k)'
            PROVE  transfer'[x].version <= transfer'[t].version
        <5>1. CASE x = t
          BY <1>0, <1>1, <5>1
        <5>2. CASE x # t
          <6>1. x \in TransferKey /\ x \in TransfersOf(k) /\ transfer'[x] = transfer[x]
                /\ transfer[x].batch = k /\ transfer[x] # NoTransfer
                /\ transfer[x] \in TransferRow
            BY ZenonT(60), <1>0, <1>1, <1>2, <4>1, <5>2 DEF TransfersOf, TablesOK, NoTransfer
          <6>2. transfer[x].version < batch[k].version /\ transfer[x].version \in Nat
            BY <6>1 DEF Replay, Older, TransferRow
          <6>. QED
            BY <1>0, <1>1, <6>1, <6>2
        <5>. QED
          BY <5>1, <5>2
      <4>2. transfer'[t].batch = k
        BY <1>0, <1>1
      <4>. QED
        BY <4>1, <4>2 DEF UpTo
    <3>3. Counted(UpTo(t))' = b.transferred
      <4>1. Counted(UpTo(t))' = Cardinality(Tickets(transfer', UpTo(t)'))
        BY DEF Counted, Tickets
      <4>2. Counted(TransfersOf(k))' = Cardinality(Tickets(transfer', TransfersOf(k)'))
        BY CountedTickets
      <4>3. batch'[k].transferred = Counted(TransfersOf(k))'
        BY <1>0 DEF Ledger, LedgerRow
      <4>. QED
        BY <1>1, <3>2, <4>1, <4>2, <4>3
    <3>4. n + b.transferred = b.total
      BY <1>0, <1>1, <1>4, <1>6, <2>3 DEF KeptRow
    <3>5. Max({b.total - b.transferred, 0}) = n
      <4>1. b.total - b.transferred = n
        BY <1>0, <3>4 DEF BatchRow
      <4>2. Max({n, 0}) = n
        BY <1>0 DEF Max
      <4>. QED
        BY <4>1, <4>2
    <3>6. Result(t)' = Ok(MovedBy(k, t)', Max({b.total - Counted(UpTo(t))', 0}), u.version + 1)
      BY <1>0, <1>1 DEF Result, Ok
    <3>. QED
      BY <1>0, <3>1, <3>3, <3>5, <3>6
  <2>4. /\ Ok(S, n, req[r].op.version + 1).version = req[r].op.version + 1
        /\ Ok(S, n, req[r].op.version + 1).ids = S
    BY DEF Ok
  <2>5. /\ req'[r].op.key = t /\ transfer'[t] # NoTransfer /\ transfer'[t].batch = k
        /\ transfer'[t].version = req[r].op.version
    BY <1>0, <1>1, <1>8
  <2>. QED
    BY <1>8, <2>2, <2>3, <2>4, <2>5 DEF Told, NoTransfer
<1>10. ASSUME NEW x \in Request, Answered(x)', x # r,
              NEW v, v = req[x].op.key, NEW j, j = transfer[v].batch
       PROVE  Told(x)'
  <2>1. Answered(x) /\ req'[x] = req[x] /\ Told(x)
    BY <1>8, <1>10 DEF Answered, Replay
  <2>2. v \in TransferKey /\ j \in StartKey /\ transfer[v] # NoTransfer /\ v # t
        /\ v \in TransfersOf(j)
    BY <1>0, <1>10, <2>1, AnsweredKey DEF Told, TransfersOf
  <2>3. transfer'[v] = transfer[v] /\ batch'[j].total = batch[j].total
    BY <1>0, <1>1, <2>2
  <2>4. \A s \in Student : item'[j][s] = v <=> item[j][s] = v
    <3>1. \A s \in S : item[k][s] = "pending"
      BY <1>1 DEF Pending
    <3>2. v # "pending"
      BY <2>2
    <3>. QED
      BY <1>1, <2>2, <3>1, <3>2
  <2>5. UpTo(v)' = UpTo(v)
    <3>1. CASE j = k
      <4>1. transfer[v].version < batch[k].version /\ transfer[v] \in TransferRow
        BY <1>2, <1>10, <2>2, <3>1 DEF Replay, Older, TablesOK
      <4>2. ~(u.version <= transfer[v].version)
        BY <1>0, <4>1 DEF TransferRow
      <4>3. \A y \in TransferKey : y \in UpTo(v)' <=> y \in UpTo(v)
        BY <1>0, <1>1, <1>10, <2>3, <3>1, <4>2 DEF UpTo
      <4>4. UpTo(v)' \subseteq TransferKey /\ UpTo(v) \subseteq TransferKey
        BY DEF UpTo, TransfersOf
      <4>. QED
        BY <4>3, <4>4
    <3>2. CASE j # k
      <4>1. TransfersOf(j)' = TransfersOf(j) /\ t \notin TransfersOf(j)
        BY <1>1, <2>2, <3>2
      <4>2. \A y \in TransfersOf(j) : transfer'[y] = transfer[y]
        BY <1>1, <4>1 DEF TransfersOf
      <4>. QED
        BY <1>10, <2>3, <4>1, <4>2, UpToSame
    <3>. QED
      BY <3>1, <3>2
  <2>6. \A y \in UpTo(v) : transfer'[y] = transfer[y]
    <3>1. \A y \in UpTo(v) : y \in TransferKey /\ transfer[y].batch = j
      BY <1>10 DEF UpTo, TransfersOf
    <3>2. transfer[t].batch # j
      BY <1>0, <2>2 DEF NoTransfer
    <3>. QED
      BY <1>1, <3>1, <3>2
  <2>7. \A s \in Student : student'[s].here =>
           /\ student[s].here
           /\ item'[j][s] = v <=> item[j][s] = v
    BY <2>4
  <2>8. Undisturbed(x, v, j)
    BY <1>10, <2>1, <2>3, <2>5, <2>6, <2>7 DEF Undisturbed
  <2>. QED
    BY <2>1, <2>8, ToldFrame
<1>. QED
  BY <1>6, <1>7, <1>9, <1>10 DEF Replay

\* execute_transfer's check answers a replay from the tables.
LEMMA ReplayCheck ==
  ASSUME TypeInv, Replay, NEW r \in Request, NEW t, t = req[r].op.key, TransferCheck(r)
  PROVE  Replay'
<1> DEFINE op == req[r].op
<1>0. /\ ReqsOK /\ TablesOK /\ req[r] \in Requests /\ t \in TransferKey
  BY ClaimFacts
<1>1. CASE Refuse(r)
  <2>1. /\ UNCHANGED db /\ \A x \in Request : x # r => req'[x] = req[x]
        /\ req'[r].reply.kind # "ok"
    BY <1>0, <1>1, RefuseOne
  <2>2. \A x \in Request : Answered(x)' => Answered(x) /\ req'[x] = req[x]
    BY <2>1 DEF Answered
  <2>. QED
    BY <2>1, <2>2, ReplayFrame DEF db
<1>2. CASE transfer[t] # NoTransfer /\ Answer(r, Result(t)) /\ UNCHANGED db
  <2>1. /\ req'[r].op = op /\ req'[r].reply = Result(t)
        /\ \A x \in Request : x # r => req'[x] = req[x]
    BY <1>0, <1>2, AnswerOne
  <2>2. Told(r)'
    <3>1. Result(t).version = transfer[t].version + 1
          /\ Result(t).ids = MovedBy(transfer[t].batch, t)
      BY DEF Result, Ok
    <3>2. Result(t)' = Result(t)
      BY <1>2 DEF Result, MovedBy, Counted, UpTo, TransfersOf, db
    <3>3. req'[r].op.key = t /\ UNCHANGED <<student, item, transfer>>
      BY <1>2, <2>1 DEF db
    <3>. QED
      BY ZenonT(60), <1>2, <2>1, <3>1, <3>2, <3>3 DEF Told, MovedBy, NoTransfer
  <2>3. \A x \in Request : Answered(x)' => (Answered(x) /\ req'[x] = req[x]) \/ Told(x)'
    BY <2>1, <2>2 DEF Answered
  <2>. QED
    BY <1>2, <2>3, ReplayFrame DEF db
<1>3. CASE /\ req' = [req EXCEPT ![r].pc = "checked", ![r].count = batch[op.batch].transferred]
           /\ UNCHANGED db
  <2>1. req'[r].pc = "checked" /\ \A x \in Request : x # r => req'[x] = req[x]
    BY <1>0, <1>3 DEF ReqsOK, Requests
  <2>2. \A x \in Request : Answered(x)' => Answered(x) /\ req'[x] = req[x]
    BY <2>1 DEF Answered
  <2>. QED
    BY <1>3, <2>2, ReplayFrame DEF db
<1>. QED
  BY <1>1, <1>2, <1>3 DEF TransferCheck

\* A deleted student is no longer asked about.
LEMMA ReplayDelete ==
  ASSUME TypeInv, Replay, NEW s \in Student, DeleteStudent(s)
  PROVE  Replay'
<1>1. /\ UNCHANGED <<batch, transfer, req>> /\ ~AllHere'
      /\ ~student'[s].here
      /\ \A x \in Student : student'[x].here => student[x].here /\ x # s
  BY TypeParts DEF DeleteStudent, TablesOK, AllHere
<1>2. \A k \in StartKey : KeptRow(k)'
  BY <1>1 DEF KeptRow
<1>3. \A t \in TransferKey : Older(t)'
  BY <1>1 DEF Replay, Older
<1>4. \A k \in StartKey, x \in Student : x # s => item'[k][x] = item[k][x]
  BY DeleteSets
<1>5. \A x \in Request : Answered(x)' => Answered(x) /\ req'[x] = req[x]
  BY <1>1 DEF Answered
<1>6. \A x \in Request : Answered(x)' => Told(x)'
  BY <1>1, <1>4, <1>5, ToldRest
<1>. QED
  BY <1>2, <1>3, <1>6 DEF Replay

\* Every step keeps what was answered true.
LEMMA StepReplay ==
  ASSUME TypeInv, TypeInv', Ledger, Ledger', Replay, [Next]_vars
  PROVE  Replay'
<1>0. ReqsOK /\ \A s \in Student : student'[s].here => student[s].here
  BY TypeParts, NobodyReturns
<1>1. ASSUME NEW r \in Request,
             StartCheck(r) \/ StartInsert(r) \/ StartPlan(r) \/ StartFinish(r)
      PROVE  Replay'
  BY <1>1, ReplayStart
<1>2. ASSUME NEW r \in Request, TransferCheck(r) \/ TransferClaim(r)
      PROVE  Replay'
  <2>1. CASE TransferCheck(r)
    BY <2>1, ReplayCheck
  <2>2. CASE TransferClaim(r) /\ Claimed(r)
    BY <1>0, <2>2, ReplayClaim
  <2>3. CASE Refuse(r)
    <3>1. /\ UNCHANGED db /\ \A x \in Request : x # r => req'[x] = req[x]
          /\ req'[r].reply.kind # "ok"
      BY <1>0, <2>3, RefuseOne
    <3>2. \A x \in Request : Answered(x)' => Answered(x) /\ req'[x] = req[x]
      BY <3>1 DEF Answered
    <3>. QED
      BY <3>1, <3>2, ReplayFrame DEF db
  <2>. QED
    BY <1>2, <2>1, <2>2, <2>3, ClaimFacts
<1>3. ASSUME NEW r \in Request,
             AssignCheck(r) \/ AssignWrite(r) \/ EmployCheck(r) \/ EmployWrite(r)
      PROVE  Replay'
  <2>1. UNCHANGED <<batch, item, transfer>>
    BY <1>3 DEF AssignCheck, AssignWrite, EmployCheck, EmployWrite, Refuse, Fail, Accept, db
  <2>2. req[r].op.type # "transfer" /\ req[r] \in Requests
    BY <1>0, <1>3 DEF AssignCheck, AssignWrite, EmployCheck, EmployWrite, Asks, ReqsOK
  <2>3. req'[r].op = req[r].op /\ \A x \in Request : x # r => req'[x] = req[x]
    <3>1. CASE \E reply : Answer(r, reply)
      BY <1>0, <3>1, AnswerOne
    <3>2. CASE AssignCheck(r) /\ ~\E reply : Answer(r, reply)
      BY <1>0, <2>2, <3>2 DEF AssignCheck, Refuse, Accept, ReqsOK, Requests
    <3>3. CASE EmployCheck(r) /\ ~\E reply : Answer(r, reply)
      BY <1>0, <2>2, <3>3 DEF EmployCheck, Refuse, Accept, Advance, ReqsOK, Requests
    <3>4. CASE AssignWrite(r) \/ EmployWrite(r)
      <4>1. \E reply : Answer(r, reply)
        BY <3>4 DEF AssignWrite, EmployWrite, Fail
      <4>. QED
        BY <3>1, <4>1
    <3>. QED
      BY <1>3, <3>1, <3>2, <3>3, <3>4
  <2>4. \A x \in Request : Answered(x)' => Answered(x) /\ req'[x] = req[x]
    BY <1>0, <2>2, <2>3, Quiet
  <2>. QED
    BY <1>0, <2>1, <2>4, ReplayFrame
<1>4. ASSUME NEW r \in Request, NEW w \in Worker, NEW op \in Op, Send(r, w, op)
      PROVE  Replay'
  <2>1. /\ req'[r].pc = "waiting" /\ \A x \in Request : x # r => req'[x] = req[x]
    BY <1>0, <1>4 DEF Send, ReqsOK, Requests
  <2>2. \A x \in Request : Answered(x)' => Answered(x) /\ req'[x] = req[x]
    BY <2>1 DEF Answered
  <2>. QED
    BY <1>0, <1>4, <2>2, ReplayFrame DEF Send, db
<1>5. ASSUME NEW s \in Student, DeleteStudent(s)
      PROVE  Replay'
  BY <1>5, ReplayDelete
<1>6. ASSUME NEW w \in Worker, Crash(w)
      PROVE  Replay'
  <2>1. \A x \in Request : req'[x] = req[x] \/ req'[x].reply.kind = "lost"
    BY <1>6 DEF Crash, Ended, Idle, NoReply
  <2>2. \A x \in Request : Answered(x)' => Answered(x) /\ req'[x] = req[x]
    BY <2>1 DEF Answered
  <2>. QED
    BY <1>0, <1>6, <2>2, ReplayFrame DEF Crash, db
<1>7. CASE UNCHANGED vars
  BY <1>0, <1>7, ReplayFrame DEF vars, Answered
<1>. QED
  BY <1>1, <1>2, <1>3, <1>4, <1>5, <1>6, <1>7, StepCases

\* What was answered stays true.
LEMMA ReplayInvariant == Spec => [](TypeInv /\ Ledger /\ Replay)
<1>1. Init => Replay
  BY InitReplay
<1>2. TypeInv /\ TypeInv' /\ Ledger /\ Ledger' /\ Replay /\ [Next]_vars => Replay'
  BY StepReplay
<1>. QED
  BY <1>1, <1>2, LedgerInvariant, PTL DEF Spec

\* ReplaysAgree: however many requests repeat a transfer under its key, before or after
\* other transfers of the batch, in this worker or another, they are told the same.
THEOREM RetriesAgree == Spec => []ReplaysAgree
<1>1. TypeInv /\ Replay => ReplaysAgree
  <2> SUFFICES ASSUME TypeInv, Replay, NEW t \in TransferKey, NEW x \in Answers(t),
                      NEW y \in Answers(t)
               PROVE  /\ x.version = y.version
                      /\ \A s \in Student : student[s].here => (s \in x.ids <=> s \in y.ids)
                      /\ (\A s \in Student : student[s].here) => x = y
    BY DEF ReplaysAgree
  <2>1. ASSUME NEW z \in Answers(t)
        PROVE  /\ z.version = transfer[t].version + 1
               /\ \A s \in Student : student[s].here =>
                    (s \in z.ids <=> item[transfer[t].batch][s] = t)
               /\ (\A s \in Student : student[s].here) => z = Result(t)
    <3>1. PICK q \in Request : /\ Asks(q, {"transfer"}) /\ req[q].op.key = t
                               /\ req[q].reply.kind = "ok" /\ z = req[q].reply
      BY DEF Answers
    <3>2. RequestOK(req[q])
      BY TypeParts DEF ReqsOK
    <3>3. Answered(q)
      BY <3>1, <3>2 DEF Answered, Asks, RequestOK, NoReply
    <3>. QED
      BY <3>1, <3>3 DEF Replay, Told, AllHere
  <2>. QED
    BY <2>1
<1>. QED
  BY <1>1, ReplayInvariant, PTL

\* One worker only, and no request that changes an employment.
OneWorker == \A v, w \in Worker : v = w
NobodySuspends == \A op \in Op : op.type # "employ"

-----------------------------------------------------------------------------
(* One batch. *)

Serving(r) == Starts(r) /\ req[r].pc \in {"checked", "inserted", "planned"}
\* A request that is going on, and a batch that was started.
Live(r) == req[r].pc \in {"waiting", "checked", "inserted", "planned"}
Used(k) == batch[k].status # "none"

\* A request that is going on has a worker.
Employed(r) == Live(r) => req[r].worker \in Worker
\* One that passed the check of start_handover finds no batch at its insert.
Clear(r) == Starts(r) /\ req[r].pc = "checked" => \A k \in StartKey : ~Used(k)

\* One request starts a handover at a time, no second batch is ever made, and a completed
\* one has the leaver offboarded, which is what refuses another start.
Single ==
  /\ \A r \in Request : Employed(r) /\ Clear(r)
  /\ \A q, r \in Request : Serving(q) /\ Serving(r) => q = r
  /\ \A k, j \in StartKey : Used(k) /\ Used(j) => k = j
  /\ \A k \in StartKey : batch[k].status = "completed" => employment = "offboarded"

\* A request that a step leaves as it was, as far as the start of a handover cares.
Calm(x) == /\ Serving(x)' => Serving(x)
           /\ Starts(x)' /\ req'[x].pc = "checked" => Starts(x) /\ req[x].pc = "checked"
           /\ Employed(x)'

\* A request that ends.
LEMMA CalmAnswer ==
  ASSUME ReqsOK, Single, NEW r \in Request, NEW reply, Answer(r, reply)
  PROVE  \A x \in Request : Calm(x)
<1>1. req'[r].pc = "done" /\ \A x \in Request : x # r => req'[x] = req[x]
  BY AnswerOne
<1>. QED
  BY <1>1 DEF Calm, Serving, Starts, Asks, Employed, Live, Single

\* A step that writes neither batches nor the employment.
LEMMA SingleFrame ==
  ASSUME Single, batch' = batch, employment' = employment, \A x \in Request : Calm(x)
  PROVE  Single'
<1>1. \A r \in Request : Employed(r)' /\ Clear(r)'
  BY DEF Single, Calm, Clear, Starts, Asks, Used
<1>2. \A q, r \in Request : Serving(q)' /\ Serving(r)' => q = r
  BY DEF Single, Calm
<1>. QED
  BY <1>1, <1>2 DEF Single, Used

\* A refusal, a failure or an accepted call.
LEMMA SingleRefuse ==
  ASSUME ReqsOK, Single, NEW r \in Request,
         Refuse(r) \/ Fail(r) \/ \E n \in Nat : Accept(r, n)
  PROVE  Single'
<1>1. PICK reply : Answer(r, reply) /\ UNCHANGED db
  BY DEF Refuse, Fail, Accept
<1>. QED
  BY <1>1, CalmAnswer, SingleFrame DEF db

\* Where everything starts.
LEMMA InitSingle == ASSUME Init PROVE Single
<1>1. \A k \in StartKey : batch[k].status = "none"
  BY DEF Init, NoBatch
<1>2. \A r \in Request : req[r].pc = "idle"
  BY DEF Init, Idle
<1>. QED
  BY <1>1, <1>2 DEF Single, Employed, Clear, Serving, Starts, Asks, Live, Used

\* start_handover and offboard_user.
LEMMA SingleStart ==
  ASSUME OneWorker, TypeInv, Ledger, Single, NEW r \in Request, NEW k, k = req[r].op.key,
         StartCheck(r) \/ StartInsert(r) \/ StartPlan(r) \/ StartFinish(r)
  PROVE  Single'
<1>0. /\ ReqsOK /\ TablesOK /\ req[r] \in Requests /\ RequestOK(req[r])
      /\ ~At(r, "done") /\ Starts(r) /\ k \in StartKey
      /\ req[r].op.type \in {"start", "offboard"}
  BY StartFacts DEF Starts, Asks
<1>1. \A b \in StartKey : batch[b].remaining \in Nat /\ batch[b].status \in BatchStatus
  BY <1>0 DEF TablesOK, BatchRow
<1>2. CASE Refuse(r) \/ Fail(r) \/ \E n \in Nat : Accept(r, n)
  BY <1>0, <1>2, SingleRefuse
<1>3. ASSUME NEW pc \in {"checked", "inserted", "planned"}, NEW q,
             q = [req[r] EXCEPT !.pc = pc] \/ (\E P : q = [req[r] EXCEPT !.pc = pc, !.plan = P]),
             req' = [req EXCEPT ![r] = q]
      PROVE  /\ req'[r].pc = pc /\ req'[r].op = req[r].op /\ req'[r].worker = req[r].worker
             /\ \A x \in Request : x # r => req'[x] = req[x]
             /\ \A x \in Request : Employed(x)'
  <2>1. req'[r].pc = pc /\ req'[r].op = req[r].op /\ req'[r].worker = req[r].worker
    BY <1>0, <1>3 DEF Requests, ReqsOK
  <2>2. \A x \in Request : x # r => req'[x] = req[x]
    BY <1>0, <1>3 DEF ReqsOK
  <2>3. Live(r)
    BY <1>0 DEF Live, At, Starts, Asks, Requests, Pcs
  <2>. QED
    BY <2>1, <2>2, <2>3 DEF Employed, Live, Single
<1>4. CASE StartCheck(r)
  <2>1. CASE /\ Advance(r, "checked") /\ UNCHANGED db /\ At(r, "waiting") /\ Free(r)
             /\ batch[k].status = "none" /\ Running = {}
             /\ employment \in {"active", "suspended"}
    <3>1. /\ req'[r].pc = "checked" /\ req'[r].op = req[r].op
          /\ \A x \in Request : x # r => req'[x] = req[x]
          /\ \A x \in Request : Employed(x)'
      BY <1>0, <1>3, <2>1 DEF Advance
    <3>2. \A j \in StartKey : ~Used(j)
      <4>1. ASSUME NEW j \in StartKey, Used(j)
            PROVE  FALSE
        <5>1. ~Active(j)
          BY <2>1 DEF Running
        <5>2. batch[j].status = "completed"
          BY <1>1, <4>1, <5>1 DEF Active, Used, BatchStatus
        <5>. QED
          BY <2>1, <5>2 DEF Single
      <4>. QED
        BY <4>1
    <3>3. \A q \in Request : Serving(q) => q = r
      <4>1. ASSUME NEW q \in Request, Serving(q), q # r
            PROVE  FALSE
        <5>1. Holding(q)
          BY <4>1 DEF Serving, Holding, Starts, Asks
        <5>2. req[q].worker \in Worker /\ req[r].worker \in Worker
          BY <2>1, <4>1 DEF Single, Employed, Live, Serving, At
        <5>3. Lock(q) = Lock(r)
          <6>1. req[q].op.type # "transfer" /\ req[r].op.type # "transfer"
            BY <1>0, <4>1 DEF Serving, Starts, Asks
          <6>2. req[q].worker = req[r].worker
            BY <5>2 DEF OneWorker
          <6>. QED
            BY <6>1, <6>2 DEF Lock
        <5>. QED
          BY <2>1, <4>1, <5>1, <5>3 DEF Free
      <4>. QED
        BY <4>1
    <3>4. \A q, x \in Request : Serving(q)' /\ Serving(x)' => q = x
      BY <3>1, <3>3 DEF Serving, Starts, Asks
    <3>5. \A x \in Request : Clear(x)'
      BY <2>1, <3>2 DEF Clear, Used, db
    <3>. QED
      BY <2>1, <3>1, <3>2, <3>4, <3>5 DEF Single, Used, db
  <2>. QED
    BY <1>0, <1>1, <1>2, <1>4, <2>1 DEF StartCheck, Running
<1>5. CASE StartInsert(r)
  <2>1. CASE /\ At(r, "checked")
             /\ batch' = [batch EXCEPT ![k] = FreshBatch]
             /\ Advance(r, "inserted")
             /\ UNCHANGED <<employment, student, item, transfer>>
    <3>1. /\ req'[r].pc = "inserted" /\ req'[r].op = req[r].op
          /\ \A x \in Request : x # r => req'[x] = req[x]
          /\ \A x \in Request : Employed(x)'
      BY <1>0, <1>3, <2>1 DEF Advance
    <3>2. \A j \in StartKey : ~Used(j)
      BY <1>0, <2>1 DEF Single, Clear, At
    <3>3. Serving(r) /\ \A q, x \in Request : Serving(q)' /\ Serving(x)' => q = x
      BY <1>0, <2>1, <3>1 DEF Single, Serving, Starts, Asks, At
    <3>4. \A x \in Request : Clear(x)'
      BY <3>1, <3>3 DEF Clear, Single, Serving, Starts, Asks
    <3>5. \A j \in StartKey : (Used(j)' => j = k) /\ batch'[j].status # "completed"
      <4>1. FreshBatch.status = "pending"
        BY DEF FreshBatch, NoBatch
      <4>. QED
        BY <1>0, <2>1, <3>2, <4>1 DEF Used, TablesOK
    <3>. QED
      BY <3>1, <3>3, <3>4, <3>5 DEF Single
  <2>. QED
    BY <1>0, <1>1, <1>2, <1>5, <2>1 DEF StartInsert, FreshBatch
<1>6. CASE StartPlan(r)
  <2> DEFINE P == {s \in Student : student[s].agent = Leaver}
             q == [req[r] EXCEPT !.pc = "planned", !.plan = P]
  <2>1. req' = [req EXCEPT ![r] = q] /\ UNCHANGED db /\ At(r, "inserted")
    BY <1>0, <1>6 DEF StartPlan, Requests
  <2>2. /\ req'[r].pc = "planned" /\ req'[r].op = req[r].op
        /\ \A x \in Request : x # r => req'[x] = req[x]
        /\ \A x \in Request : Employed(x)'
    BY <1>3, <2>1
  <2>3. \A x \in Request : Calm(x)
    BY <1>0, <2>1, <2>2 DEF Calm, Serving, Starts, Asks, At
  <2>. QED
    BY <2>1, <2>3, SingleFrame DEF db
<1>7. CASE Fills(r)
  <2> DEFINE P == req[r].plan
             n == Cardinality(P)
             b == [batch[k] EXCEPT !.total = n, !.remaining = n,
                                   !.status = IF n = 0 THEN "completed" ELSE @]
  <2>1. /\ batch' = [batch EXCEPT ![k] = b] /\ n \in Nat
        /\ employment' = IF n = 0 THEN "offboarded" ELSE "handover_pending"
        /\ Answer(r, Ok({}, n, 0)) /\ Filling(r)
    BY <1>7 DEF Fills, Filling, At
  <2> HIDE DEF n
  <2>2. batch[k] = FreshBatch /\ batch[k] \in BatchRow
    BY <1>0, <2>1 DEF Ledger, FillingOK, TablesOK
  <2>3. b.status = IF n = 0 THEN "completed" ELSE batch[k].status
    BY <2>1, <2>2, AfterFill
  <2> HIDE DEF b
  <2>4. FreshBatch.status = "pending"
    BY DEF FreshBatch, NoBatch
  <2>5. \A x \in Request : Calm(x)
    BY <1>0, <2>1, CalmAnswer
  <2>6. Used(k) /\ \A j \in StartKey : j # k => ~Used(j)
    BY <1>0, <2>2, <2>4 DEF Single, Used
  <2>7. \A j \in StartKey : j # k => batch'[j] = batch[j]
    BY <1>0, <2>1 DEF TablesOK
  <2>8. batch'[k] = b
    BY <1>0, <2>1 DEF TablesOK
  <2>9. \A x \in Request : Clear(x)'
    BY <1>0, <2>5, <2>6 DEF Calm, Clear, Single
  <2>10. \A x, q \in Request : Employed(x)' /\ (Serving(x)' /\ Serving(q)' => x = q)
    BY <2>5 DEF Calm, Single
  <2>11. \A j \in StartKey : batch'[j].status = "completed" => employment' = "offboarded"
    BY <1>0, <2>1, <2>2, <2>3, <2>4, <2>6, <2>7, <2>8 DEF Used
  <2>12. \A i, j \in StartKey : Used(i)' /\ Used(j)' => i = j
    BY <2>6, <2>7 DEF Used
  <2>. QED
    BY <2>9, <2>10, <2>11, <2>12 DEF Single
<1>. QED
  BY <1>2, <1>4, <1>5, <1>6, <1>7, StartFacts

\* A transfer.
LEMMA SingleTransfer ==
  ASSUME TypeInv, Single, NEW r \in Request, NEW k, k = req[r].op.batch,
         TransferCheck(r) \/ TransferClaim(r)
  PROVE  Single'
<1>0. /\ ReqsOK /\ TablesOK /\ req[r] \in Requests /\ RequestOK(req[r])
      /\ req[r].pc # "idle" /\ ~At(r, "done") /\ req[r].op.type = "transfer"
      /\ k \in StartKey
  BY ClaimFacts
<1>1. CASE \E reply : Answer(r, reply) /\ UNCHANGED db
  BY <1>0, <1>1, CalmAnswer, SingleFrame DEF db
<1>2. CASE /\ req' = [req EXCEPT ![r].pc = "checked", ![r].count = batch[k].transferred]
           /\ UNCHANGED db /\ At(r, "waiting")
  <2>1. req'[r].op = req[r].op /\ req'[r].worker = req[r].worker
    BY <1>0, <1>2 DEF Requests, ReqsOK
  <2>2. \A x \in Request : x # r => req'[x] = req[x]
    BY <1>0, <1>2 DEF ReqsOK
  <2>3. Live(r) /\ ~Starts(r) /\ ~Starts(r)'
    BY <1>0, <1>2, <2>1 DEF Live, At, Starts, Asks
  <2>4. \A x \in Request : Calm(x)
    BY <2>1, <2>2, <2>3 DEF Calm, Serving, Starts, Asks, Employed, Live, Single
  <2>. QED
    BY <1>2, <2>4, SingleFrame DEF db
<1>3. CASE TransferClaim(r) /\ Claimed(r)
  <2>. PICK S, n, c, b, u : ClaimWrites(r, k, req[r].op.key, S, n, c, b, u)
    BY <1>3, ClaimParts
  <2>1. /\ batch'[k] = b
        /\ \A j \in StartKey : j # k => batch'[j] = batch[j]
    BY ClaimSets
  <2>2. /\ Active(k) /\ Answer(r, Ok(S, n, req[r].op.version + 1))
        /\ n = 0 => b.status = "completed" /\ employment' = "offboarded"
        /\ n # 0 => b.status = "in_progress"
    BY DEF ClaimWrites
  <2>3. \A x \in Request : Calm(x)
    BY <1>0, <2>2, CalmAnswer
  <2>4. Used(k) /\ \A j \in StartKey : j # k => ~Used(j)
    BY <1>0, <2>2 DEF Single, Used, Active
  <2>5. \A x \in Request : Clear(x)'
    BY <1>0, <2>3, <2>4 DEF Calm, Clear, Single
  <2>6. \A x, q \in Request : Employed(x)' /\ (Serving(x)' /\ Serving(q)' => x = q)
    BY <2>3 DEF Calm, Single
  <2>7. \A j \in StartKey : batch'[j].status = "completed" => employment' = "offboarded"
    BY <2>1, <2>2, <2>4 DEF Used
  <2>8. \A i, j \in StartKey : Used(i)' /\ Used(j)' => i = j
    BY <2>1, <2>4 DEF Used
  <2>. QED
    BY <2>5, <2>6, <2>7, <2>8 DEF Single
<1>4. CASE Refuse(r)
  BY <1>0, <1>4, SingleRefuse
<1>. QED
  BY <1>0, <1>1, <1>2, <1>3, <1>4, ClaimFacts DEF TransferCheck

\* Everything else.
LEMMA SingleOther ==
  ASSUME NobodySuspends, TypeInv, Single,
         \/ \E r \in Request :
              AssignCheck(r) \/ AssignWrite(r) \/ EmployCheck(r) \/ EmployWrite(r)
         \/ \E r \in Request, w \in Worker, op \in Op : Send(r, w, op)
         \/ \E s \in Student : DeleteStudent(s)
         \/ \E w \in Worker : Crash(w)
         \/ UNCHANGED vars
  PROVE  Single'
<1>0. ReqsOK
  BY TypeParts
<1>1. ASSUME NEW r \in Request, AssignCheck(r) \/ AssignWrite(r)
      PROVE  Single'
  <2>1. req[r] \in Requests /\ req[r].op.type = "assign" /\ req[r].pc \in {"waiting", "checked"}
    BY <1>0, <1>1 DEF ReqsOK, AssignCheck, AssignWrite, Asks, At
  <2>2. CASE \E reply : Answer(r, reply) /\ UNCHANGED <<batch, employment>>
    BY <1>0, <2>2, CalmAnswer, SingleFrame
  <2>3. CASE /\ req' = [req EXCEPT ![r].pc = "checked", ![r].seat = student[req[r].op.student].seat]
             /\ UNCHANGED db
    <3>1. req'[r].op = req[r].op /\ req'[r].worker = req[r].worker
      BY <1>0, <2>1, <2>3 DEF Requests, ReqsOK
    <3>2. \A x \in Request : x # r => req'[x] = req[x]
      BY <1>0, <2>3 DEF ReqsOK
    <3>3. Live(r) /\ ~Starts(r) /\ ~Starts(r)'
      BY <2>1, <3>1 DEF Live, Starts, Asks
    <3>4. \A x \in Request : Calm(x)
      BY <3>1, <3>2, <3>3 DEF Calm, Serving, Starts, Asks, Employed, Live, Single
    <3>. QED
      BY <2>3, <3>4, SingleFrame DEF db
  <2>. QED
    BY <1>1, <2>2, <2>3 DEF AssignCheck, AssignWrite, Refuse, Fail, Accept, db
<1>2. ASSUME NEW r \in Request, EmployCheck(r) \/ EmployWrite(r)
      PROVE  FALSE
  <2>1. req[r].op \in Op /\ req[r].op.type = "employ"
    BY <1>0, <1>2 DEF ReqsOK, RequestOK, EmployCheck, EmployWrite, Asks
  <2>. QED
    BY <2>1 DEF NobodySuspends
<1>3. ASSUME NEW r \in Request, NEW w \in Worker, NEW op \in Op, Send(r, w, op)
      PROVE  Single'
  <2>1. req[r] \in Requests /\ UNCHANGED db
    BY <1>0, <1>3 DEF ReqsOK, Send
  <2>2. req'[r].pc = "waiting" /\ req'[r].worker = w
    BY <1>0, <1>3, <2>1 DEF Send, Requests, ReqsOK
  <2>3. \A x \in Request : x # r => req'[x] = req[x]
    BY <1>0, <1>3 DEF Send, ReqsOK
  <2>4. \A x \in Request : Calm(x)
    BY <2>2, <2>3 DEF Calm, Serving, Starts, Asks, Employed, Live, Single
  <2>. QED
    BY <2>1, <2>4, SingleFrame DEF db
<1>4. ASSUME UNCHANGED <<req, batch, employment>>
      PROVE  Single'
  BY <1>4 DEF Single, Employed, Clear, Serving, Starts, Asks, Live, Used
<1>5. ASSUME NEW w \in Worker, Crash(w)
      PROVE  Single'
  <2>1. \A x \in Request : req'[x].pc = "done" \/ req'[x] = req[x]
    BY <1>5 DEF Crash, Ended, Idle
  <2>2. \A x \in Request : Calm(x)
    BY <2>1 DEF Calm, Serving, Starts, Asks, Employed, Live, Single
  <2>. QED
    BY <1>5, <2>2, SingleFrame DEF Crash, db
<1>. QED
  BY <1>1, <1>2, <1>3, <1>4, <1>5 DEF DeleteStudent, vars

\* Every step keeps it.
LEMMA StepSingle ==
  ASSUME OneWorker, NobodySuspends, TypeInv, Ledger, Single, [Next]_vars
  PROVE  Single'
<1>1. CASE Next
  BY <1>1, StepCases, SingleStart, SingleTransfer, SingleOther
<1>2. CASE UNCHANGED vars
  BY <1>2, SingleOther
<1>. QED
  BY <1>1, <1>2

\* Single is an invariant, with what it rests on.
LEMMA SingleInvariant ==
  ASSUME OneWorker, NobodySuspends
  PROVE  Spec => [](TypeInv /\ Ledger /\ Single)
<1>1. Init => Single
  BY InitSingle
<1>2. TypeInv /\ Ledger /\ Single /\ [Next]_vars => Single'
  BY StepSingle
<1>. QED
  BY <1>1, <1>2, LedgerInvariant, PTL DEF Spec

\* OneBatch: with one worker, and nobody who suspends or resumes the leaver while the
\* handover goes on, the leaver gets one batch, however many times, under whatever keys
\* and through whichever endpoint the handover is asked for, whatever crashes.
THEOREM LeaverGetsOneBatch ==
  ASSUME OneWorker, NobodySuspends
  PROVE  Spec => []OneBatch
<1>1. Single => OneBatch
  <2> DEFINE U == {k \in StartKey : batch[k].status # "none"}
  <2> SUFFICES ASSUME Single PROVE Cardinality(U) <= 1
    BY DEF OneBatch
  <2>1. CASE U = {}
    <3>1. Cardinality({}) = 0
      BY FS_EmptySet
    <3> HIDE DEF U
    <3>. QED
      BY <2>1, <3>1
  <2>2. ASSUME NEW k \in U
        PROVE  Cardinality(U) = 1
    <3>1. U = {k}
      BY <2>2 DEF Single, Used
    <3>. QED
      BY <3>1, FS_Singleton
  <2>. QED
    BY <2>1, <2>2
<1>. QED
  BY <1>1, SingleInvariant, PTL

-----------------------------------------------------------------------------
(* The promise. *)

\* What the promise sees of the tables.
Phase == IF Filled # {} THEN "running" ELSE IF Completed # {} THEN "over" ELSE "before"
\* Who is left, who is gone, and the phase of a batch by its row.
Left == UNION {Pending(k) : k \in StartKey}
Gone == UNION {Moved(k) : k \in StartKey}
PhaseOf(b) == IF b.status \in {"pending", "in_progress"} /\ b.total > 0 THEN "running"
              ELSE IF b.status = "completed" THEN "over" ELSE "before"

\* The part of a step that it sees.
Writes(r) ==
  \/ /\ At(r, "checked") /\ Starts(r) /\ req[r].op.key \in StartKey
     /\ batch[req[r].op.key].status = "none"
     /\ batch' = [batch EXCEPT ![req[r].op.key] = FreshBatch] /\ item' = item
  \/ Fills(r) /\ Starts(r) /\ req[r].op.key \in StartKey
  \/ TransferClaim(r) /\ Claimed(r)

\* Every step is of one of these kinds.
LEMMA StepKinds ==
  ASSUME TypeInv, [Next]_vars
  PROVE  \/ UNCHANGED <<batch, item>>
         \/ \E r \in Request : Writes(r)
         \/ \E s \in Student : DeleteStudent(s)
<1>1. ASSUME NEW r \in Request,
             StartCheck(r) \/ StartInsert(r) \/ StartPlan(r) \/ StartFinish(r)
      PROVE  UNCHANGED <<batch, item>> \/ Writes(r)
  <2>1. Starts(r) /\ req[r].op.key \in StartKey /\ (StartFinish(r) => Fail(r) \/ Fills(r))
    BY <1>1, StartFacts
  <2>2. CASE StartCheck(r) \/ StartPlan(r)
    BY <2>2 DEF StartCheck, StartPlan, Refuse, Accept, db
  <2>3. CASE StartInsert(r)
    BY <2>1, <2>3 DEF StartInsert, Refuse, Accept, db, Writes, FreshBatch
  <2>4. CASE StartFinish(r)
    BY <2>1, <2>4 DEF Fail, db, Writes
  <2>. QED
    BY <1>1, <2>2, <2>3, <2>4
<1>2. ASSUME NEW r \in Request, TransferCheck(r) \/ TransferClaim(r)
      PROVE  UNCHANGED <<batch, item>> \/ Writes(r)
  <2>1. TransferClaim(r) => Refuse(r) \/ Claimed(r)
    BY <1>2, ClaimFacts
  <2>2. TransferCheck(r) => UNCHANGED db
    BY DEF TransferCheck, Refuse
  <2>. QED
    BY <1>2, <2>1, <2>2 DEF Refuse, db, Writes
<1>3. ASSUME NEW r \in Request,
             AssignCheck(r) \/ AssignWrite(r) \/ EmployCheck(r) \/ EmployWrite(r)
      PROVE  UNCHANGED <<batch, item>>
  BY <1>3 DEF AssignCheck, AssignWrite, EmployCheck, EmployWrite, Refuse, Fail, Accept,
              Advance, db
<1>4. ASSUME UNCHANGED vars \/ (\E w \in Worker : Crash(w))
             \/ (\E r \in Request, w \in Worker, op \in Op : Send(r, w, op))
      PROVE  UNCHANGED <<batch, item>>
  BY <1>4 DEF Crash, Send, vars, db
<1>. QED
  BY <1>1, <1>2, <1>3, <1>4, StepCases

\* When no batch but k was started, it sees the rows of k.
ViewOf == Ledger => \A k \in StartKey :
            (\A j \in StartKey : Used(j) => j = k)
            => Left = Pending(k) /\ Gone = Moved(k) /\ Phase = PhaseOf(batch[k])

\* So it is in every state.
LEMMA View == ViewOf
<1> SUFFICES ASSUME Ledger, NEW k \in StartKey, \A j \in StartKey : Used(j) => j = k
             PROVE  Left = Pending(k) /\ Gone = Moved(k) /\ Phase = PhaseOf(batch[k])
  BY DEF ViewOf
<1>1. \A j \in StartKey : j # k => Pending(j) = {} /\ Moved(j) = {}
  BY UnstartedRow DEF Used
<1>2. Left = Pending(k)
  BY <1>1 DEF Left
<1>3. Gone = Moved(k)
  BY <1>1 DEF Gone
<1>4. \A j \in StartKey : j \in Filled => j = k
  BY DEF Filled, Active, Used
<1>5. \A j \in StartKey : j \in Completed => j = k
  BY DEF Completed, Used
<1>6. Phase = PhaseOf(batch[k])
  BY <1>4, <1>5 DEF Phase, PhaseOf, Filled, Completed, Active
<1>. QED
  BY <1>2, <1>3, <1>6

\* And after every step.
LEMMA ViewNext == ViewOf'
BY View, PTL

\* What it sees is what the promise speaks of.
LEMMA Shown ==
  /\ Promise!vars = <<Phase, Left, Gone>>
  /\ Promise!Init <=> Phase = "before" /\ Left = {} /\ Gone = {}
  /\ Promise!vars' = <<Phase', Left', Gone'>>
BY DEF Promise!vars, Promise!Init, Phase, Left, Gone

\* Nothing is seen of an empty batch.
LEMMA SeesInsert ==
  ASSUME Ledger, Ledger', NEW k \in StartKey, Single', item' = item,
         \A j \in StartKey : ~Used(j), batch'[k] = FreshBatch
  PROVE  Phase' = Phase /\ Left' = Left /\ Gone' = Gone
<1>0. Used(k)'
  BY DEF Used, FreshBatch, NoBatch
<1>1. Left = Pending(k) /\ Gone = Moved(k) /\ Phase = PhaseOf(batch[k])
  BY View DEF ViewOf
<1>2. Left' = Pending(k)' /\ Gone' = Moved(k)' /\ Phase' = PhaseOf(batch'[k])
  BY <1>0, ViewNext DEF ViewOf, Single
<1>3. PhaseOf(batch[k]) = "before" /\ PhaseOf(FreshBatch) = "before"
  BY DEF PhaseOf, FreshBatch, NoBatch, Used
<1>4. Pending(k)' = Pending(k) /\ Moved(k)' = Moved(k)
  BY DEF Pending, Moved, MovedBy
<1>. QED
  BY <1>1, <1>2, <1>3, <1>4

\* The second commit of start_handover is the start that was promised.
LEMMA SeesFill ==
  ASSUME TypeInv, Ledger, Ledger', Single, Single', NEW r \in Request,
         NEW k \in StartKey, k = req[r].op.key, Fills(r), Starts(r)
  PROVE  \E P \in SUBSET Student :
           /\ Phase = "before" /\ Phase' = IF P = {} THEN "over" ELSE "running"
           /\ Left' = P /\ Gone' = Gone
<1> DEFINE P == req[r].plan
           n == Cardinality(P)
           b == [batch[k] EXCEPT !.total = n, !.remaining = n,
                                 !.status = IF n = 0 THEN "completed" ELSE @]
<1>1. /\ batch' = [batch EXCEPT ![k] = b] /\ n \in Nat /\ P \in SUBSET Student /\ Filling(r)
      /\ item' = [item EXCEPT ![k] = [s \in Student |-> IF s \in P THEN "pending" ELSE @[s]]]
  BY DEF Fills, Filling, At
<1>2. IsFiniteSet(P) /\ (n = 0 <=> P = {})
  BY <1>1, SomeStudents, FS_EmptySet
<1> HIDE DEF n, P
<1>3. /\ batch[k] = FreshBatch /\ batch[k] \in BatchRow /\ TransfersOf(k) = {} /\ Pending(k) = {}
      /\ TablesOK
  BY <1>1, TypeParts DEF Ledger, FillingOK, TablesOK
<1>4. FreshBatch.status = "pending" /\ FreshBatch.total = 0
  BY DEF FreshBatch, NoBatch
<1>5. b.total = n /\ b.status = IF n = 0 THEN "completed" ELSE batch[k].status
  BY ZenonT(60), <1>1, <1>3, AfterFill
<1> HIDE DEF b
<1>6. batch'[k] = b /\ \A s \in Student : item'[k][s] = IF s \in P THEN "pending" ELSE item[k][s]
  BY <1>1, <1>3 DEF TablesOK
<1>7. \A s \in Student : item[k][s] \notin TransferKey
  BY <1>3 DEF Ledger, LedgerRow
<1>8. Pending(k)' = P
  <2>1. \A s \in Student : s \in Pending(k)' <=> s \in P
    BY <1>3, <1>6 DEF Pending
  <2>2. Pending(k)' \subseteq Student
    BY DEF Pending
  <2>. QED
    BY <1>1, <2>1, <2>2
<1>9. Moved(k) = {} /\ Moved(k)' = {}
  BY <1>6, <1>7 DEF Moved, MovedBy
<1>10. Left = Pending(k) /\ Gone = Moved(k) /\ Phase = PhaseOf(batch[k])
  BY <1>3, <1>4, View DEF ViewOf, Single, Used
<1>11. Left' = Pending(k)' /\ Gone' = Moved(k)' /\ Phase' = PhaseOf(b)
  BY <1>3, <1>4, <1>5, <1>6, ViewNext DEF ViewOf, Single, Used
<1>12. Phase = "before"
  BY <1>3, <1>4, <1>10 DEF PhaseOf
<1>13. Phase' = IF P = {} THEN "over" ELSE "running"
  BY <1>1, <1>2, <1>3, <1>4, <1>5, <1>11 DEF PhaseOf
<1>. QED
  BY <1>1, <1>8, <1>9, <1>10, <1>11, <1>12, <1>13

\* A claim moves students as promised.
LEMMA SeesClaim ==
  ASSUME TypeInv, Ledger, Ledger', Single, Single', NEW r \in Request,
         NEW k, k = req[r].op.batch, NEW t, t = req[r].op.key, TransferClaim(r), Claimed(r)
  PROVE  \E S \in SUBSET Student :
           /\ Phase = "running" /\ S # {} /\ S \subseteq Left
           /\ Left' = Left \ S /\ Gone' = Gone \cup S
           /\ Phase' = IF Left' = {} THEN "over" ELSE "running"
<1>. PICK S, n, c, b, u : ClaimWrites(r, k, t, S, n, c, b, u)
  BY ClaimParts
<1>1. /\ k \in StartKey /\ t \in TransferKey /\ Active(k) /\ S # {} /\ n \in Nat
      /\ c = Cardinality(S) /\ n = Cardinality(Pending(k)) - c
      /\ b.total = batch[k].total
      /\ (n = 0 => b.status = "completed") /\ (n # 0 => b.status = "in_progress")
  BY DEF ClaimWrites
<1>2. /\ S \in SUBSET Pending(k) /\ Pending(k)' = Pending(k) \ S /\ batch'[k] = b
      /\ Moved(k)' \subseteq Moved(k) \cup S
      /\ \A s \in Student : item'[k][s] = IF s \in S THEN t ELSE item[k][s]
  BY ClaimSets
<1>3. Pending(k) \in SUBSET Student
  BY DEF Pending
<1>4. Moved(k) \cup S \subseteq Moved(k)'
  <2>1. ASSUME NEW s \in S
        PROVE  s \in Moved(k)'
    BY <1>1, <1>2, <1>3 DEF Moved, MovedBy
  <2>2. ASSUME NEW s \in Moved(k)
        PROVE  s \in Moved(k)'
    BY <1>1, <1>2 DEF Moved, MovedBy
  <2>. QED
    BY <2>1, <2>2
<1>5. /\ IsFiniteSet(Pending(k)) /\ Cardinality(Pending(k)) \in Nat
      /\ IsFiniteSet(S) /\ c \in Nat /\ c # 0
  BY <1>1, <1>2, <1>3, SomeStudents, FS_EmptySet
<1>6. n = 0 <=> Pending(k)' = {}
  <2>1. IsFiniteSet(Pending(k) \ S) /\ Cardinality(Pending(k) \ S) = n
    <3>1. Pending(k) \cap S = S
      BY <1>2
    <3>2. /\ IsFiniteSet(Pending(k) \ S)
          /\ Cardinality(Pending(k) \ S) = Cardinality(Pending(k)) - Cardinality(Pending(k) \cap S)
      BY <1>5, FS_Difference
    <3>. QED
      BY <1>1, <3>1, <3>2
  <2>. QED
    BY <1>2, <2>1, FS_EmptySet
<1>7. batch[k].total \in Nat /\ batch[k].total > 0
  <2>1. batch[k] \in BatchRow
    BY <1>1, TypeParts DEF TablesOK
  <2>2. /\ Cardinality(Pending(k)) <= batch[k].remaining
        /\ batch[k].remaining + batch[k].transferred <= batch[k].total
    BY <1>1 DEF Ledger, LedgerRow
  <2>3. Cardinality(Pending(k)) > 0
    BY <1>1, <1>5
  <2>. QED
    BY <1>5, <2>1, <2>2, <2>3 DEF BatchRow
<1>8. Left = Pending(k) /\ Gone = Moved(k) /\ Phase = PhaseOf(batch[k])
  BY <1>1, View DEF ViewOf, Single, Used, Active
<1>9. Left' = Pending(k)' /\ Gone' = Moved(k)' /\ Phase' = PhaseOf(b)
  BY <1>1, <1>2, ViewNext DEF ViewOf, Single, Used
<1>10. Phase = "running"
  BY <1>1, <1>7, <1>8 DEF PhaseOf, Active
<1>11. Phase' = IF Left' = {} THEN "over" ELSE "running"
  BY <1>1, <1>6, <1>7, <1>9 DEF PhaseOf
<1>12. Left' = Left \ S /\ S \subseteq Left /\ S \in SUBSET Student
  BY <1>2, <1>3, <1>8, <1>9
<1>13. Gone' = Gone \cup S
  BY <1>2, <1>4, <1>8, <1>9
<1>. QED
  BY <1>1, <1>10, <1>11, <1>12, <1>13

\* A student who is deleted leaves the promise.
LEMMA SeesDelete ==
  ASSUME TypeInv, NEW s \in Student, DeleteStudent(s)
  PROVE  Phase' = Phase /\ Left' = Left \ {s} /\ Gone' = Gone \ {s}
<1>1. \A k \in StartKey : Pending(k)' = Pending(k) \ {s} /\ Moved(k)' = Moved(k) \ {s}
  BY DeleteSets
<1>2. Phase' = Phase
  BY DEF DeleteStudent, Phase, Filled, Completed, Active
<1>3. Left' = Left \ {s}
  BY <1>1 DEF Left
<1>4. Gone' = Gone \ {s}
  BY <1>1 DEF Gone
<1>. QED
  BY <1>2, <1>3, <1>4

\* Every step keeps the promise.
LEMMA StepPromise ==
  ASSUME TypeInv, Ledger, Ledger', Single, Single', [Next]_vars
  PROVE  [Promise!Next]_(Promise!vars)
<1>1. ASSUME Phase' = Phase, Left' = Left, Gone' = Gone
      PROVE  [Promise!Next]_(Promise!vars)
  BY <1>1, Shown
<1>2. CASE UNCHANGED <<batch, item>>
  BY <1>1, <1>2 DEF Phase, Left, Gone, Filled, Completed, Active, Pending, Moved, MovedBy
<1>3. ASSUME NEW r \in Request, Writes(r)
      PROVE  [Promise!Next]_(Promise!vars)
  <2> DEFINE k == req[r].op.key
  <2>1. CASE /\ At(r, "checked") /\ Starts(r) /\ k \in StartKey
             /\ batch' = [batch EXCEPT ![k] = FreshBatch] /\ item' = item
    <3>1. \A j \in StartKey : ~Used(j)
      BY <2>1 DEF Single, Clear, At
    <3>2. batch'[k] = FreshBatch
      BY <2>1, TypeParts DEF TablesOK
    <3>. QED
      BY <1>1, <2>1, <3>1, <3>2, SeesInsert
  <2>2. CASE Fills(r) /\ Starts(r) /\ k \in StartKey
    <3>1. PICK P \in SUBSET Student :
            /\ Phase = "before" /\ Phase' = IF P = {} THEN "over" ELSE "running"
            /\ Left' = P /\ Gone' = Gone
      BY <2>2, SeesFill
    <3>2. Promise!Start(P)
      BY <3>1 DEF Promise!Start, Phase, Left, Gone
    <3>. QED
      BY <3>2 DEF Promise!Next
  <2>3. CASE TransferClaim(r) /\ Claimed(r)
    <3>1. PICK S \in SUBSET Student :
            /\ Phase = "running" /\ S # {} /\ S \subseteq Left
            /\ Left' = Left \ S /\ Gone' = Gone \cup S
            /\ Phase' = IF Left' = {} THEN "over" ELSE "running"
      BY <2>3, SeesClaim
    <3>2. Promise!Move(S)
      BY <3>1 DEF Promise!Move, Phase, Left, Gone
    <3>. QED
      BY <3>2 DEF Promise!Next
  <2>. QED
    BY <1>3, <2>1, <2>2, <2>3 DEF Writes
<1>4. ASSUME NEW s \in Student, DeleteStudent(s)
      PROVE  [Promise!Next]_(Promise!vars)
  <2>1. Phase' = Phase /\ Left' = Left \ {s} /\ Gone' = Gone \ {s}
    BY <1>4, SeesDelete
  <2>2. CASE s \in Left \cup Gone
    <3>1. Promise!Delete(s)
      BY <2>1, <2>2 DEF Promise!Delete, Phase, Left, Gone
    <3>. QED
      BY <3>1 DEF Promise!Next
  <2>3. CASE s \notin Left \cup Gone
    BY <1>1, <2>1, <2>3
  <2>. QED
    BY <2>2, <2>3
<1>. QED
  BY <1>2, <1>3, <1>4, StepKinds

\* KeepsPromise: under the same conditions the handover that the requests carry out is the
\* one promised.  It starts once, with all its students, in the second commit and never in
\* the first; each of them leaves it once, moved by the one transfer that claimed the
\* version or deleted; and it is over exactly when a transfer took the last one.
THEOREM PromiseKept ==
  ASSUME OneWorker, NobodySuspends
  PROVE  Spec => KeepsPromise
<1>1. Init => Promise!Init
  <2> SUFFICES ASSUME Init PROVE Phase = "before" /\ Left = {} /\ Gone = {}
    BY Shown
  <2>1. \A k \in StartKey : batch[k].status = "none" /\ \A s \in Student : item[k][s] = None
    BY DEF Init, NoBatch
  <2>2. Filled = {} /\ Completed = {}
    BY <2>1 DEF Filled, Completed, Active
  <2>3. \A k \in StartKey : Pending(k) = {} /\ Moved(k) = {}
    BY <2>1 DEF Pending, Moved, MovedBy
  <2>. QED
    BY <2>2, <2>3 DEF Phase, Left, Gone
<1>2. /\ TypeInv /\ Ledger /\ Single
      /\ TypeInv' /\ Ledger' /\ Single'
      /\ [Next]_vars
      => [Promise!Next]_(Promise!vars)
  BY StepPromise
<1>. QED
  BY <1>1, <1>2, SingleInvariant, PTL DEF Spec, KeepsPromise, Promise!Spec
=============================================================================
