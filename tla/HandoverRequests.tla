--------------------------- MODULE HandoverRequests ---------------------------
(***************************************************************************)
(* The handover endpoints as concurrent HTTP requests about one leaving    *)
(* agent.  CrmCore takes every handler as one transaction; here a handler  *)
(* is the steps the database sees.  SQLite reads before the first write of *)
(* a session each stand alone, what was read stays cached in the session,  *)
(* and from the first write to the commit no other session writes, so the  *)
(* write part is one step.  So are the reads of a check: of what another   *)
(* request may change among them the check uses one read, or reads whose   *)
(* disagreement is refused.  start_handover commits twice: the release of  *)
(* its outermost savepoint makes the empty batch durable before the rest.  *)
(*                                                                         *)
(* A request runs once; a client that retries sends another one with the   *)
(* same idempotency key.  A worker may crash, which loses its requests and *)
(* its locks and nothing that was committed.  Only what the protocol turns *)
(* on is kept: no work items, no terminal students (CrmCore has both).     *)
(***************************************************************************)
EXTENDS FiniteSets, Integers, FiniteSetsExt

CONSTANTS
  Request, Worker,
  Student,
  Agent,        \* the other agents, all of them active
  Leaver,
  None,
  StartKey,     \* idempotency keys of start_handover; LegacyKey is offboard_user's
  LegacyKey,
  TransferKey,  \* idempotency keys of execute_transfer
  Op,           \* what clients may ask for
  MaxCrash

Ops ==
  [type : {"start"}, key : StartKey] \cup [type : {"offboard"}, key : {LegacyKey}]
  \cup [type : {"transfer"}, key : TransferKey, batch : StartKey, version : Nat \ {0},
        to : Agent \cup {Leaver}, chosen : SUBSET Student]
  \cup [type : {"assign"}, student : Student, to : Agent \cup {Leaver}]
  \cup [type : {"employ"}, to : {"active", "suspended"}]

ASSUME OpAssumption == Op \subseteq Ops /\ LegacyKey \in StartKey
ASSUME FiniteAssumption == IsFiniteSet(Student) /\ MaxCrash \in Nat
ASSUME NamesAssumption == /\ None \notin StartKey \cup TransferKey
                          /\ "pending" \notin TransferKey \cup {None}

VARIABLES
  employment,  \* the agent_employment row of Leaver
  student,     \* Student -> [here, agent, seat]; seat tells assignment rows apart
  batch,       \* StartKey -> handover_batches row
  item,        \* StartKey -> Student -> None, "pending" or the transfer that moved it
  transfer,    \* TransferKey -> handover_transfers row
  req,         \* Request -> its progress, what it read and its reply
  crashes

db == <<employment, student, batch, item, transfer>>
vars == <<employment, student, batch, item, transfer, req, crashes>>

NoBatch == [status |-> "none", version |-> 0, total |-> 0, remaining |-> 0,
            transferred |-> 0]
NoTransfer == [batch |-> None, version |-> 0, to |-> None, chosen |-> {}, count |-> 0]
Active(k) == batch[k].status \in {"pending", "in_progress"}
Pending(k) == {s \in Student : item[k][s] = "pending"}
MovedBy(k, t) == {s \in Student : item[k][s] = t}
Moved(k) == UNION {MovedBy(k, t) : t \in TransferKey}
TransfersOf(k) == {t \in TransferKey : transfer[t].batch = k}

NoReply == [kind |-> "none", ids |-> {}, left |-> 0, version |-> 0]
Idle == [pc |-> "idle", worker |-> None, op |-> None, seat |-> 0,
         count |-> 0, plan |-> {}, reply |-> NoReply]

Init == /\ employment = "active"
        /\ student \in [Student -> [here : {TRUE}, agent : Agent \cup {Leaver}, seat : {0}]]
        /\ batch = [k \in StartKey |-> NoBatch]
        /\ item = [k \in StartKey |-> [s \in Student |-> None]]
        /\ transfer = [t \in TransferKey |-> NoTransfer]
        /\ req = [r \in Request |-> Idle]
        /\ crashes = 0

-----------------------------------------------------------------------------
(* Requests, their locks and their replies. *)
At(r, pc) == req[r].pc = pc
Asks(r, types) == req[r].pc # "idle" /\ req[r].op.type \in types
Advance(r, pc) == req' = [req EXCEPT ![r].pc = pc]

\* What a request read goes with its session.
Ended(q, reply) == [Idle EXCEPT !.pc = "done", !.op = q.op, !.reply = reply]
Answer(r, reply) == req' = [req EXCEPT ![r] = Ended(@, reply)]
Ok(ids, n, version) == [kind |-> "ok", ids |-> ids, left |-> n, version |-> version]
Refuse(r) == /\ Answer(r, [NoReply EXCEPT !.kind = "conflict"])
             /\ UNCHANGED db
Fail(r)   == /\ Answer(r, [NoReply EXCEPT !.kind = "error"])
             /\ UNCHANGED db
Accept(r, n) == Answer(r, Ok({}, n, 0)) /\ UNCHANGED db

\* handover_transaction_lock and handover_batch_transaction_lock live in one process
\* and are held until the handler leaves its "async with".
Lock(r) == <<req[r].worker, req[r].op.type = "transfer",
             IF req[r].op.type = "transfer" THEN req[r].op.batch ELSE None>>
\* Mutant: a request that waits keeps the others out already.
Claiming(r) == /\ req[r].pc \in {"waiting", "checked", "inserted", "planned"}
               /\ Asks(r, {"start", "offboard", "transfer"})
Holding(r) == /\ req[r].pc \in {"checked", "inserted", "planned"}
              /\ Asks(r, {"start", "offboard", "transfer"})
\* Mutant: nobody waits.
NoLock(r) == TRUE
Free(r) == \A q \in Request \ {r} : Holding(q) => Lock(q) # Lock(r)

Send(r, w, op) ==
  /\ At(r, "idle")
  /\ req' = [req EXCEPT ![r].pc = "waiting", ![r].worker = w, ![r].op = op]
  /\ UNCHANGED db

-----------------------------------------------------------------------------
(* start_handover, and offboard_user which first looks for a running batch. *)
Starts(r) == Asks(r, {"start", "offboard"})
Running == {k \in StartKey : Active(k)}

StartCheck(r) ==
  LET k == req[r].op.key IN
  /\ Starts(r) /\ At(r, "waiting") /\ Free(r)
  /\ IF req[r].op.type = "offboard" /\ Running # {}
     THEN \E b \in Running : Accept(r, batch[b].remaining)
     ELSE IF batch[k].status # "none" THEN Accept(r, batch[k].remaining)
     ELSE IF Running # {} \/ employment \notin {"active", "suspended"} THEN Refuse(r)
     ELSE Advance(r, "checked") /\ UNCHANGED db

\* The savepoint: unique key, and one running batch for the agent.
StartInsert(r) ==
  LET k == req[r].op.key IN
  /\ Starts(r) /\ At(r, "checked")
  /\ IF batch[k].status # "none" THEN Accept(r, batch[k].remaining)
     ELSE IF Running # {} THEN Refuse(r)
     ELSE /\ batch' = [batch EXCEPT ![k] = [NoBatch EXCEPT !.status = "pending",
                                                           !.version = 1]]
          /\ Advance(r, "inserted")
          /\ UNCHANGED <<employment, student, item, transfer>>

StartPlan(r) ==
  /\ Starts(r) /\ At(r, "inserted")
  /\ req' = [req EXCEPT ![r].pc = "planned",
                        ![r].plan = {s \in Student : student[s].agent = Leaver}]
  /\ UNCHANGED db

\* The second commit.  A planned student that was deleted meanwhile fails it.
StartFinish(r) ==
  LET k == req[r].op.key
      P == req[r].plan
      n == Cardinality(P)
  IN /\ Starts(r) /\ At(r, "planned")
     /\ IF \E s \in P : ~student[s].here THEN Fail(r)
        ELSE /\ item' = [item EXCEPT ![k] = [s \in Student |-> IF s \in P THEN "pending" ELSE @[s]]]
             /\ batch' = [batch EXCEPT ![k].total = n, ![k].remaining = n,
                                       ![k].status = IF n = 0 THEN "completed" ELSE @]
             /\ employment' = IF n = 0 THEN "offboarded" ELSE "handover_pending"
             /\ Answer(r, Ok({}, n, 0))
             /\ UNCHANGED <<student, transfer>>

-----------------------------------------------------------------------------
(* execute_transfer.  chosen = Student stands for mode all_remaining. *)

\* _existing_transfer_result: what is left is counted anew, from the total; the sum of
\* the counts is the size of a disjoint union.
\* Mutant: leaves the transfer itself out.
EarlierThan(t) == {u \in TransfersOf(transfer[t].batch) : transfer[u].version < transfer[t].version}
UpTo(t) == {u \in TransfersOf(transfer[t].batch) : transfer[u].version <= transfer[t].version}
Counted(T) == Cardinality(UNION {{t} \X (1..transfer[t].count) : t \in T})
Result(t) ==
  LET b == batch[transfer[t].batch] IN
  Ok(MovedBy(transfer[t].batch, t), Max({b.total - Counted(UpTo(t)), 0}),
     transfer[t].version + 1)

\* _replay_transfer_result: the key must have been used for the same request.
SameRequest(op) ==
  LET t == transfer[op.key] IN
  /\ t.batch = op.batch /\ t.version = op.version /\ t.to = op.to
  /\ Cardinality(t.chosen) = Cardinality(op.chosen)
  /\ MovedBy(op.batch, op.key) \subseteq op.chosen

TransferCheck(r) ==
  LET op == req[r].op IN
  /\ Asks(r, {"transfer"}) /\ At(r, "waiting") /\ Free(r)
  /\ IF transfer[op.key] # NoTransfer
     THEN IF SameRequest(op) THEN Answer(r, Result(op.key)) /\ UNCHANGED db ELSE Refuse(r)
     ELSE IF ~Active(op.batch) \/ batch[op.batch].version # op.version \/ op.to = Leaver
     THEN Refuse(r)
     ELSE /\ req' = [req EXCEPT ![r].pc = "checked",
                                ![r].count = batch[op.batch].transferred]
          /\ UNCHANGED db

\* _claim_batch_version is the first write, so all that follows is one step; a conflict
\* rolls the claim back.  transferred_items adds to the count that was read before.
\* Mutant: whatever the version is by now.
ClaimsAny(k, version) == Active(k)
Claims(k, version) == Active(k) /\ batch[k].version = version
\* Mutant: whatever was asked for, pending or not.
AllChosen(k, chosen) == chosen
Eligible(k, chosen) == Pending(k) \cap chosen
TransferClaim(r) ==
  LET op == req[r].op
      k  == op.batch
      S  == Eligible(k, op.chosen)
      n  == Cardinality(Pending(k)) - Cardinality(S)
  IN /\ Asks(r, {"transfer"}) /\ At(r, "checked")
     /\ IF \/ ~Claims(k, op.version)
           \/ S = {}
           \/ transfer[op.key] # NoTransfer   \* used for another batch meanwhile
           \/ n = 0 /\ employment \notin {"handover_pending", "offboarded"}
        THEN Refuse(r)
        ELSE /\ student' = [s \in Student |->
                  IF s \in S /\ student[s].agent # op.to
                  THEN [student[s] EXCEPT !.agent = op.to, !.seat = @ + 1]
                  ELSE student[s]]
             /\ item' = [item EXCEPT ![k] = [s \in Student |-> IF s \in S THEN op.key ELSE @[s]]]
             /\ transfer' = [transfer EXCEPT ![op.key] =
                  [batch |-> k, version |-> op.version, to |-> op.to,
                   chosen |-> op.chosen, count |-> Cardinality(S)]]
             /\ batch' = [batch EXCEPT ![k].version = @ + 1, ![k].remaining = n,
                  ![k].transferred = req[r].count + Cardinality(S),
                  ![k].status = IF n = 0 THEN "completed" ELSE "in_progress"]
             /\ employment' = IF n = 0 THEN "offboarded" ELSE employment
             /\ Answer(r, Ok(S, n, op.version + 1))

-----------------------------------------------------------------------------
(* What else goes on: assign_students of one student, update_user's suspension and  *)
(* resumption of the leaver, and delete_students_cascade.                           *)
AssignCheck(r) ==
  LET s == student[req[r].op.student]
      to == req[r].op.to
  IN /\ Asks(r, {"assign"}) /\ At(r, "waiting")
     /\ IF \/ ~s.here
           \/ to = Leaver /\ employment # "active"
           \/ s.agent = Leaver /\ to # Leaver /\ employment = "handover_pending"
        THEN Refuse(r)
        ELSE IF s.agent = to THEN Accept(r, 0)
        ELSE /\ req' = [req EXCEPT ![r].pc = "checked", ![r].seat = s.seat]
             /\ UNCHANGED db

\* One active assignment row per student: a row written meanwhile fails the insert.
AssignWrite(r) ==
  LET s == req[r].op.student IN
  /\ Asks(r, {"assign"}) /\ At(r, "checked")
  /\ IF ~student[s].here \/ student[s].seat # req[r].seat THEN Fail(r)
     ELSE /\ student' = [student EXCEPT ![s].agent = req[r].op.to, ![s].seat = @ + 1]
          /\ Answer(r, Ok({}, 0, 0))
          /\ UNCHANGED <<employment, batch, item, transfer>>

EmployCheck(r) ==
  /\ Asks(r, {"employ"}) /\ At(r, "waiting")
  /\ IF employment = req[r].op.to THEN Accept(r, 0)
     ELSE IF employment \notin {"active", "suspended"} THEN Refuse(r)
     ELSE Advance(r, "checked") /\ UNCHANGED db

EmployWrite(r) ==
  /\ Asks(r, {"employ"}) /\ At(r, "checked")
  /\ employment' = req[r].op.to
  /\ Answer(r, Ok({}, 0, 0))
  /\ UNCHANGED <<student, batch, item, transfer>>

DeleteStudent(s) ==
  /\ student[s].here
  /\ student' = [student EXCEPT ![s] = [here |-> FALSE, agent |-> None, seat |-> @.seat + 1]]
  /\ item' = [k \in StartKey |-> [item[k] EXCEPT ![s] = None]]
  /\ UNCHANGED <<employment, batch, transfer, req>>

Crash(w) ==
  LET Lost == {r \in Request : req[r].worker = w /\ req[r].pc \notin {"idle", "done"}} IN
  /\ crashes < MaxCrash
  /\ Lost # {}
  /\ req' = [r \in Request |->
               IF r \in Lost
               THEN Ended(req[r], [NoReply EXCEPT !.kind = "lost"])
               ELSE req[r]]
  /\ crashes' = crashes + 1
  /\ UNCHANGED db

-----------------------------------------------------------------------------
Work(r) ==
  /\ \/ StartCheck(r) \/ StartInsert(r) \/ StartPlan(r) \/ StartFinish(r)
     \/ TransferCheck(r) \/ TransferClaim(r)
     \/ AssignCheck(r) \/ AssignWrite(r)
     \/ EmployCheck(r) \/ EmployWrite(r)
  /\ UNCHANGED crashes

Next ==
  \/ \E r \in Request : Work(r)
  \/ \E r \in Request, w \in Worker, op \in Op : Send(r, w, op) /\ UNCHANGED crashes
  \/ \E s \in Student : DeleteStudent(s) /\ UNCHANGED crashes
  \/ \E w \in Worker : Crash(w)

\* The event loop runs every task that can go on; nobody has to send a request.
Fairness == \A r \in Request : WF_vars(Work(r))
Spec == Init /\ [][Next]_vars
FairSpec == Spec /\ Fairness

-----------------------------------------------------------------------------
(* What the protocol keeps. *)
BatchStatus == {"none", "pending", "in_progress", "completed"}
\* The rows of the batch, its items and its transfers, and the requests in flight.
TypeOK ==
  /\ employment \in {"active", "suspended", "handover_pending", "offboarded"}
  /\ student \in [Student -> [here : BOOLEAN, agent : Agent \cup {Leaver, None}, seat : Nat]]
  /\ batch \in [StartKey -> [status : BatchStatus, version : Nat, total : Nat,
                             remaining : Nat, transferred : Nat]]
  /\ item \in [StartKey -> [Student -> TransferKey \cup {None, "pending"}]]
  /\ transfer \in [TransferKey -> [batch : StartKey \cup {None}, version : Nat,
                     to : Agent \cup {None}, chosen : SUBSET Student, count : Nat]]
  /\ DOMAIN req = Request
  /\ crashes \in 0..MaxCrash

\* A leaving agent gets one batch, however many times, under whatever keys and through
\* whichever endpoint the handover is asked for.  It needs one worker, whose lock all
\* starts share, and nobody who suspends or resumes the leaver meanwhile: EmployWrite
\* writes a status decided on earlier over that of an offboarding which ended in between.
OneBatch == Cardinality({k \in StartKey : batch[k].status # "none"}) <= 1

\* The counters of a batch are those of its transfers, and nothing is moved that they do
\* not count, whichever workers run transfers at once: the version that a transfer
\* claims stands for everything it read.
CountersMatch ==
  \A k \in StartKey : LET b == batch[k] IN
     /\ b.transferred = Counted(TransfersOf(k))
     /\ b.status # "none" => b.version = 1 + Cardinality(TransfersOf(k))
     /\ Cardinality(Moved(k)) <= b.transferred
     /\ b.remaining + b.transferred <= b.total
     /\ Cardinality(Pending(k)) <= b.remaining
     /\ b.status = "completed" => b.remaining = 0

\* A retry is told what the first request was told, but for the students deleted since:
\* the same version and students, and what was left when no student ever was deleted.
Answers(t) == {req[r].reply : r \in {q \in Request :
                 Asks(q, {"transfer"}) /\ req[q].op.key = t /\ req[q].reply.kind = "ok"}}
ReplaysAgree ==
  \A t \in TransferKey : \A x, y \in Answers(t) :
     /\ x.version = y.version
     /\ \A s \in Student : student[s].here => (s \in x.ids <=> s \in y.ids)
     /\ (\A s \in Student : student[s].here) => x = y

\* The handover the requests carry out keeps HandoverPromise: a batch counts from its
\* second commit on, when it has students or is completed at once.
Filled == {k \in StartKey : Active(k) /\ batch[k].total > 0}
Completed == {k \in StartKey : batch[k].status = "completed"}
Promise == INSTANCE HandoverPromise WITH
  phase <- IF Filled # {} THEN "running" ELSE IF Completed # {} THEN "over" ELSE "before",
  left  <- UNION {Pending(k) : k \in StartKey},
  moved <- UNION {Moved(k) : k \in StartKey}
KeepsPromise == Promise!Spec

\* Every request is answered or lost with its worker: no lock is held for ever.
EveryRequestEnds == \A r \in Request : At(r, "waiting") ~> At(r, "done")
=============================================================================
