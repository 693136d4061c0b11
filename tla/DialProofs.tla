------------------------------ MODULE DialProofs ------------------------------
(***************************************************************************)
(* What the two result windows promise, for any students, results and      *)
(* bounds.  The desk's promise rests on one agreement: wherever two of the *)
(* stored session, the open window, the dials in flight and the call being *)
(* recorded are about one student, they name one dial log.                 *)
(***************************************************************************)
EXTENDS DialFlow, SequenceTheorems, TLAPS

USE OutcomesAssumption, NobodyAssumption, BoundsAssumption

-----------------------------------------------------------------------------
(* Types. *)

\* The service's rows.
LogRow == [student : Students, done : BOOLEAN]
\* A student as the service keeps it, with the history of its attempts.
LeadRow == [status : Statuses, first : Statuses \cup {"none"}, reminders : Nat]

\* What the service holds.
ServiceTypes ==
  /\ logs \in Seq(LogRow) /\ DOMAIN logs \subseteq Numbers
  /\ lead \in [Students -> LeadRow]
  /\ notes \in [Students -> Nat]

\* What the tab holds: every log it names is one the service has.
TabTypes ==
  /\ stored = None \/ (stored \in Session /\ stored.log \in DOMAIN logs)
  /\ \A a \in asks : a.student \in Students /\ a.reuse \in {0} \cup DOMAIN logs
  /\ modal = None \/ (modal \in Window /\ modal.log \in DOMAIN logs)
  /\ req = None \/ (req \in Request /\ modal # None)
  /\ (req # None /\ req.kind = "call") => req.what \in DOMAIN logs

\* The types of a state, and the window the tab shows.
Types == client \in Clients /\ ServiceTypes /\ TabTypes

\* A step never takes a log or a note away.
Grows ==
  /\ DOMAIN logs \subseteq DOMAIN logs'
  /\ \A s \in Students : notes'[s] >= notes[s]

\* None is told apart from a session, a window and a request by its fields.
LEMMA NoneIsNothing ==
  /\ None \notin Session /\ None \notin Window /\ None \notin Request
  /\ None.student \notin Students
<1>1. None.student = "none"
  BY DEF None
<1>2. \A w \in Session \cup Window : w.student \in Students
  BY DEF Session, Window
<1>3. DOMAIN None = {"student"}
  BY DEF None
<1>4. \A r \in Request : "kind" \in DOMAIN r
  BY DEF Request
<1>. QED
  BY <1>1, <1>2, <1>3, <1>4

\* The status a result sets is one of a student who was touched.
LEMMA OutcomeStatus ==
  ASSUME NEW o \in Outcomes
  PROVE  StatusOf[o] \in Statuses \ {"new"}
  BY DEF StatusOf, Statuses

\* A request is of one kind, and what it is about goes with the kind.
LEMMA RequestKinds ==
  ASSUME NEW r \in Request
  PROVE  /\ r.kind \in {"mark", "call", "note", "follow"}
         /\ r.kind = "mark" => r.what \in Outcomes
         /\ r.kind = "call" => r.what \in Numbers
  BY DEF Request

\* A mark, a date and an undo keep the type of a student's record.
LEMMA RowTypes ==
  ASSUME NEW l \in LeadRow
  PROVE  /\ \A o \in Outcomes : Marked(l, o) \in LeadRow
         /\ Reminded(l) \in LeadRow
         /\ Undone(l) \in LeadRow
<1>1. ASSUME NEW o \in Outcomes PROVE Marked(l, o) \in LeadRow
  BY <1>1, OutcomeStatus DEF Marked, LeadRow
<1>2. Reminded(l) \in LeadRow
  <2>1. [l EXCEPT !.reminders = @ + 1] \in LeadRow
    BY DEF LeadRow
  <2>. QED
    BY <2>1 DEF Reminded, LeadRow, Statuses
<1>3. Undone(l) \in LeadRow
  <2>1. [l EXCEPT !.status = "new"] \in LeadRow
    BY DEF LeadRow, Statuses
  <2>. QED
    BY <2>1 DEF Undone, LeadRow
<1>. QED
  BY <1>1, <1>2, <1>3

\* What the service does with a request keeps its types and its logs.
LEMMA ApplyTypes ==
  ASSUME Types, req # None, Apply(req, modal.student)
  PROVE  /\ ServiceTypes' /\ Grows /\ DOMAIN logs' = DOMAIN logs
         /\ req.kind = "call" => logs'[req.what].done
         /\ req.kind = "note" => notes'[modal.student] > 0
         /\ modal.student \in Students
<1>1. req \in Request /\ modal \in Window /\ modal.student \in Students
  BY NoneIsNothing DEF Types, TabTypes, Window
<1>2. CASE req.kind = "mark"
  <2>1. lead' = [lead EXCEPT ![modal.student] = Marked(@, req.what)] /\ UNCHANGED <<logs, notes>>
    BY <1>2 DEF Apply
  <2>2. Marked(lead[modal.student], req.what) \in LeadRow
    BY <1>1, <1>2, RequestKinds, RowTypes DEF Types, ServiceTypes
  <2>. QED
    BY <1>1, <1>2, <2>1, <2>2 DEF Types, ServiceTypes, Grows
<1>3. CASE req.kind = "follow"
  <2>1. lead' = [lead EXCEPT ![modal.student] = Reminded(@)] /\ UNCHANGED <<logs, notes>>
    BY <1>3 DEF Apply
  <2>2. Reminded(lead[modal.student]) \in LeadRow
    BY <1>1, RowTypes DEF Types, ServiceTypes
  <2>. QED
    BY <1>1, <1>3, <2>1, <2>2 DEF Types, ServiceTypes, Grows
<1>4. CASE req.kind = "note"
  <2>1. notes' = [notes EXCEPT ![modal.student] = @ + 1] /\ UNCHANGED <<logs, lead>>
    BY <1>4 DEF Apply
  <2>. QED
    BY <1>1, <1>4, <2>1 DEF Types, ServiceTypes, Grows
<1>5. CASE req.kind = "call"
  <2>1. logs' = [logs EXCEPT ![req.what].done = TRUE] /\ UNCHANGED <<lead, notes>>
    BY <1>5 DEF Apply
  <2>2. req.what \in DOMAIN logs
    BY <1>5 DEF Types, TabTypes
  <2> DEFINE row == [logs[req.what] EXCEPT !.done = TRUE]
  <2>3. logs[req.what] \in LogRow
    BY <2>2 DEF Types, ServiceTypes
  <2>4. row \in LogRow /\ row.done
    BY <2>3 DEF LogRow
  <2>5. logs' = [logs EXCEPT ![req.what] = row]
    BY <2>1
  <2> HIDE DEF row
  <2>6. logs' \in Seq(LogRow) /\ Len(logs') = Len(logs) /\ logs'[req.what] = row
    BY <2>2, <2>4, <2>5, ExceptSeq DEF Types, ServiceTypes
  <2>7. DOMAIN logs' = DOMAIN logs
    BY <2>5
  <2>8. /\ lead' \in [Students -> LeadRow] /\ notes' \in [Students -> Nat]
        /\ \A s \in Students : notes'[s] >= notes[s]
    BY <2>1 DEF Types, ServiceTypes
  <2>. QED
    BY <1>1, <1>5, <2>4, <2>6, <2>7, <2>8 DEF Types, ServiceTypes, Grows
<1>. QED
  BY <1>1, <1>2, <1>3, <1>4, <1>5, RequestKinds

\* A dial is answered with a log of that student's, an old one or the next.
LEMMA AnswerTypes ==
  ASSUME Types, NEW a \in asks, NEW n \in Answers(a), logs' = Logged(a, n),
         UNCHANGED <<lead, notes>>
  PROVE  /\ ServiceTypes' /\ Grows
         /\ n \in DOMAIN logs' /\ n \in Numbers
         /\ a.reuse # 0 => n = a.reuse
<1>1. logs \in Seq(LogRow) /\ a.student \in Students
  BY DEF Types, ServiceTypes, TabTypes
<1>2. n \in DOMAIN logs \/ n \in {Len(logs) + 1} \cap Numbers
  BY DEF Answers, Pending
<1>3. a.reuse # 0 => n = a.reuse
  BY DEF Answers
<1>4. /\ lead' \in [Students -> LeadRow] /\ notes' \in [Students -> Nat]
      /\ \A s \in Students : notes'[s] >= notes[s]
  BY DEF Types, ServiceTypes
<1>5. DOMAIN logs = 1..Len(logs) /\ Len(logs) \in Nat /\ DOMAIN logs \subseteq Numbers
  BY <1>1 DEF Types, ServiceTypes
<1>6. CASE n \in DOMAIN logs
  <2>1. logs' = logs
    BY <1>6 DEF Logged
  <2>2. DOMAIN logs' = DOMAIN logs
    BY <2>1
  <2>. QED
    BY <1>1, <1>3, <1>4, <1>5, <1>6, <2>1, <2>2 DEF ServiceTypes, Grows
<1>7. CASE n \notin DOMAIN logs
  <2>1. logs' = Append(logs, [student |-> a.student, done |-> FALSE])
    BY <1>7 DEF Logged
  <2>2. [student |-> a.student, done |-> FALSE] \in LogRow
    BY <1>1 DEF LogRow
  <2>3. logs' \in Seq(LogRow) /\ DOMAIN logs' = 1..(Len(logs) + 1)
    BY <1>1, <2>1, <2>2
  <2>4. n = Len(logs) + 1 /\ n \in Numbers
    BY <1>2, <1>7
  <2>5. DOMAIN logs \subseteq DOMAIN logs' /\ DOMAIN logs' \subseteq Numbers /\ n \in DOMAIN logs'
    BY <1>5, <2>3, <2>4 DEF Numbers
  <2>. QED
    BY <1>3, <1>4, <2>3, <2>4, <2>5 DEF ServiceTypes, Grows
<1>. QED
  BY <1>6, <1>7

-----------------------------------------------------------------------------
(* The inductive invariant. *)

\* At the desk, what is known of one student's dial names one log.
OneLog ==
  client = "desk" =>
    /\ \A a, b \in asks : a.student = b.student => a = b
    /\ \A a \in asks : stored.student = a.student => a.reuse = stored.log
    /\ modal # None =>
         /\ stored.student = modal.student => stored.log = modal.log
         /\ \A a \in asks : a.student = modal.student => a.reuse = modal.log
         /\ (req # None /\ req.kind = "call") => req.what = modal.log

\* A note is typed on the phone alone, goes before the call, and one that the
\* window took for sent is with the service.
NoteGoes ==
  modal # None =>
    /\ client = "desk" => modal.note = "none"
    /\ modal.note = "sent" => notes[modal.student] > 0
    /\ (req # None /\ req.kind = "call") => modal.note # "typed"
    /\ (req # None /\ req.kind = "note") => client = "mobile"

\* The three together.
Kept == Types /\ OneLog /\ NoteGoes

\* A tab that has just been opened.
LEMMA KeptInit == Init => Kept
<1>. SUFFICES ASSUME Init PROVE Kept
  OBVIOUS
<1>1. logs \in Seq(LogRow) /\ DOMAIN logs = {}
  BY DEF Init
<1>2. lead \in [Students -> LeadRow] /\ notes \in [Students -> Nat]
  BY DEF Init, LeadRow, Statuses
<1>. QED
  BY <1>1, <1>2 DEF Init, Kept, Types, ServiceTypes, TabTypes, OneLog, NoteGoes

\* A step of the tab alone.
LEMMA ServiceStays ==
  ASSUME Types, UNCHANGED service
  PROVE  ServiceTypes' /\ Grows /\ DOMAIN logs' = DOMAIN logs
<1>1. logs' = logs /\ lead' = lead /\ notes' = notes
  BY DEF service
<1>2. DOMAIN logs' = DOMAIN logs
  BY <1>1
<1>. QED
  BY <1>1, <1>2 DEF Types, ServiceTypes, Grows

-----------------------------------------------------------------------------
(* The dials. *)

\* A dial names the log of the stored session of that student, if there is one.
LEMMA AskStep ==
  ASSUME Kept, NEW s \in Students, MobileAsk(s) \/ DeskAsk(s)
  PROVE  Kept'
<1> DEFINE new == [student |-> s, reuse |-> Reusable(s)]
<1>1. /\ asks' = asks \cup {new} /\ modal = None /\ client \in Clients
      /\ UNCHANGED <<client, stored, modal, req, picks, undo, service>>
      /\ client = "desk" => ~\E a \in asks : a.student = s
  BY DEF MobileAsk, DeskAsk, Ask, Kept, Types
<1>2. ServiceTypes' /\ DOMAIN logs' = DOMAIN logs
  BY <1>1, ServiceStays DEF Kept
<1>3. /\ new.student = s /\ new.reuse \in {0} \cup DOMAIN logs
      /\ stored.student = s => new.reuse = stored.log
  BY NoneIsNothing DEF Kept, Types, TabTypes, Reusable
<1> HIDE DEF new
<1>4. Types'
  BY <1>1, <1>2, <1>3 DEF Kept, Types, TabTypes
<1>5. OneLog' /\ NoteGoes'
  BY <1>1, <1>3 DEF Kept, OneLog, NoteGoes
<1>. QED
  BY <1>4, <1>5 DEF Kept

\* The number arrives: the session stored names the log of the dial.
LEMMA ArrivesStep ==
  ASSUME Kept, NEW a \in asks, PhoneArrives(a)
  PROVE  Kept' /\ Grows
<1>1. PICK n \in Answers(a) : logs' = Logged(a, n) /\ stored' = [student |-> a.student, log |-> n]
  BY DEF PhoneArrives
<1>2. asks' = asks \ {a} /\ UNCHANGED <<client, modal, req, picks, undo, lead, notes>>
  BY DEF PhoneArrives
<1>3. /\ ServiceTypes' /\ Grows /\ n \in DOMAIN logs' /\ n \in Numbers
      /\ a.reuse # 0 => n = a.reuse
  BY <1>1, <1>2, AnswerTypes DEF Kept
<1>4. a.student \in Students /\ stored'.student = a.student /\ stored'.log = n
  BY <1>1 DEF Kept, Types, TabTypes
<1>5. stored' \in Session
  BY <1>1, <1>3, <1>4 DEF Session
<1>6. Types'
  BY <1>2, <1>3, <1>4, <1>5 DEF Kept, Types, TabTypes, Grows
<1>7. OneLog'
  <2>. SUFFICES ASSUME client = "desk" PROVE OneLog'
    BY <1>2 DEF OneLog
  <2>1. \A b \in asks' : b.student # a.student
    BY <1>2 DEF Kept, OneLog
  <2>2. modal # None /\ a.student = modal.student => n = modal.log
    <3>. SUFFICES ASSUME modal # None, a.student = modal.student PROVE n = modal.log
      OBVIOUS
    <3>1. modal.log \in Numbers /\ a.reuse = modal.log
      BY DEF Kept, Types, TabTypes, OneLog, Window
    <3>. QED
      BY <1>3, <3>1 DEF Numbers
  <2>. QED
    BY <1>2, <1>4, <2>1, <2>2 DEF Kept, OneLog
<1>8. NoteGoes'
  BY <1>2 DEF Kept, NoteGoes
<1>. QED
  BY <1>3, <1>6, <1>7, <1>8 DEF Kept

\* No number: the service may have a new log the tab never hears of.
LEMMA PhoneFailsStep ==
  ASSUME Kept, NEW a \in asks, PhoneFails(a)
  PROVE  Kept' /\ Grows
<1>1. asks' = asks \ {a} /\ UNCHANGED <<client, stored, modal, req, picks, undo, lead, notes>>
  BY DEF PhoneFails
<1>2. ServiceTypes' /\ Grows
  <2>1. CASE UNCHANGED logs
    BY <1>1, <2>1, ServiceStays DEF Kept, service
  <2>2. ASSUME NEW n \in Answers(a), logs' = Logged(a, n)
        PROVE  ServiceTypes' /\ Grows
    BY <1>1, <2>2, AnswerTypes DEF Kept
  <2>. QED
    BY <2>1, <2>2 DEF PhoneFails
<1>3. Types'
  BY <1>1, <1>2 DEF Kept, Types, TabTypes, Grows
<1>4. OneLog' /\ NoteGoes'
  BY <1>1 DEF Kept, OneLog, NoteGoes
<1>. QED
  BY <1>2, <1>3, <1>4 DEF Kept

-----------------------------------------------------------------------------
(* The window of the desk. *)

\* The call the desk goes on to is the one of its window.
LEMMA DeskFinishes ==
  ASSUME Kept, client = "desk", modal # None, DeskFinish
  PROVE  /\ modal' = modal
         /\ \/ req' = None
            \/ req' \in Request /\ req'.kind = "call" /\ req'.what = modal.log
<1>1. modal \in Window /\ modal.student \in Students /\ modal.log \in Numbers
  BY DEF Kept, Types, TabTypes, Window
<1>2. Matches => Completing.log = modal.log
  BY DEF Kept, OneLog, Matches, Completing
<1>3. [kind |-> "call", what |-> modal.log] \in Request
  BY <1>1 DEF Request
<1>. QED
  BY <1>2, <1>3 DEF DeskFinish

\* A step of the desk's window that goes on to its call, or waits.
LEMMA DeskWaits ==
  ASSUME Kept, client = "desk", modal # None,
         ServiceTypes', Grows, DOMAIN logs' = DOMAIN logs,
         UNCHANGED <<client, stored, asks>>,
         modal' \in Window, modal'.student = modal.student, modal'.log = modal.log,
         modal'.note = modal.note,
         \/ req' = None
         \/ req' \in Request /\ req'.kind \in {"mark", "follow"}
         \/ req' \in Request /\ req'.kind = "call" /\ req'.what = modal.log
  PROVE  Kept'
<1>1. modal' # None /\ modal.log \in DOMAIN logs /\ modal.note = "none"
  BY NoneIsNothing DEF Kept, Types, TabTypes, NoteGoes
<1>2. Types'
  BY <1>1 DEF Kept, Types, TabTypes
<1>3. OneLog'
  BY <1>1 DEF Kept, OneLog
<1>4. NoteGoes'
  BY <1>1 DEF Kept, NoteGoes
<1>. QED
  BY <1>2, <1>3, <1>4 DEF Kept

\* Every step of the desk's window, and when it goes away.
LEMMA DeskStep ==
  ASSUME Kept, DeskNext
  PROVE  /\ Kept' /\ Grows /\ client = "desk"
         /\ modal # None /\ modal' = None => logs'[modal.log].done
<1>1. client = "desk"
  BY DEF DeskNext, DeskOpens, DeskSaveDate, DeskEnds, DeskPick, DeskMarked, DeskDated, DeskRecorded,
         DeskFails, DeskIdle, Desk
<1>2. modal # None => modal \in Window /\ modal.student \in Students
  BY DEF Kept, Types, TabTypes, Window
<1>3. req # None => req \in Request /\ modal # None
  BY DEF Kept, Types, TabTypes
<1>4. CASE DeskOpens
  <2> DEFINE new == [student |-> stored.student, log |-> stored.log, step |-> "status",
                     note |-> "none", retry |-> FALSE]
  <2>1. /\ modal = None /\ stored # None /\ modal' = new
        /\ UNCHANGED <<client, stored, asks, req, service>>
    BY <1>4 DEF DeskOpens
  <2>2. stored \in Session /\ stored.log \in DOMAIN logs /\ req = None
    BY <1>3, <2>1 DEF Kept, Types, TabTypes
  <2>3. new \in Window /\ new.student = stored.student /\ new.log = stored.log /\ new.note = "none"
    BY <2>2 DEF Window, Session, Steps
  <2>4. ServiceTypes' /\ Grows /\ DOMAIN logs' = DOMAIN logs
    BY <2>1, ServiceStays DEF Kept
  <2> HIDE DEF new
  <2>5. Types'
    BY <2>1, <2>2, <2>3, <2>4 DEF Kept, Types, TabTypes
  <2>6. OneLog'
    BY <1>1, <2>1, <2>2, <2>3 DEF Kept, OneLog
  <2>7. NoteGoes'
    BY <2>1, <2>2, <2>3 DEF NoteGoes
  <2>. QED
    BY <1>1, <2>1, <2>4, <2>5, <2>6, <2>7 DEF Kept
<1>5. CASE DeskSaveDate \/ \E o \in Outcomes : DeskPick(o)
  <2>1. /\ modal # None /\ UNCHANGED <<client, stored, asks, modal, service>>
        /\ req' \in Request /\ req'.kind \in {"mark", "follow"}
    BY <1>5 DEF DeskSaveDate, DeskPick, DeskSend, DeskIdle, Request
  <2>2. ServiceTypes' /\ Grows /\ DOMAIN logs' = DOMAIN logs
    BY <2>1, ServiceStays DEF Kept
  <2>. QED
    BY <1>1, <1>2, <2>1, <2>2, DeskWaits
<1>6. CASE DeskEnds
  <2>1. /\ modal # None /\ UNCHANGED <<client, stored, asks, service>> /\ DeskFinish
    BY <1>6 DEF DeskEnds, DeskIdle
  <2>2. ServiceTypes' /\ Grows /\ DOMAIN logs' = DOMAIN logs
    BY <2>1, ServiceStays DEF Kept
  <2>3. /\ modal' = modal
        /\ req' = None \/ (req' \in Request /\ req'.kind = "call" /\ req'.what = modal.log)
    BY <1>1, <2>1, DeskFinishes
  <2>. QED
    BY <1>1, <1>2, <2>1, <2>2, <2>3, DeskWaits
<1>7. CASE DeskMarked \/ DeskDated
  <2>1. /\ req # None /\ Apply(req, modal.student) /\ UNCHANGED <<client, stored, asks>>
        /\ (modal' = [modal EXCEPT !.step = "follow"] /\ req' = None) \/ DeskFinish
    BY <1>7 DEF DeskMarked, DeskDated
  <2>2. ServiceTypes' /\ Grows /\ DOMAIN logs' = DOMAIN logs
    BY <2>1, ApplyTypes DEF Kept
  <2>3. CASE modal' = [modal EXCEPT !.step = "follow"] /\ req' = None
    <3>1. /\ modal' \in Window /\ modal'.student = modal.student
          /\ modal'.log = modal.log /\ modal'.note = modal.note
      BY <1>2, <1>3, <2>1, <2>3 DEF Window, Steps
    <3>. QED
      BY <1>1, <1>3, <2>1, <2>2, <2>3, <3>1, DeskWaits, NoneIsNothing
  <2>4. CASE DeskFinish
    <3>1. /\ modal' = modal
          /\ req' = None \/ (req' \in Request /\ req'.kind = "call" /\ req'.what = modal.log)
      BY <1>1, <1>3, <2>1, <2>4, DeskFinishes
    <3>. QED
      BY <1>1, <1>2, <1>3, <2>1, <2>2, <3>1, DeskWaits
  <2>. QED
    BY <2>1, <2>3, <2>4
<1>8. CASE DeskRecorded
  <2>1. /\ req # None /\ req.kind = "call" /\ Apply(req, modal.student)
        /\ stored' = Cleared(req.what) /\ modal' = None /\ req' = None
        /\ UNCHANGED <<client, asks>>
    BY <1>8 DEF DeskRecorded
  <2>2. ServiceTypes' /\ Grows /\ DOMAIN logs' = DOMAIN logs /\ logs'[req.what].done
    BY <2>1, ApplyTypes DEF Kept
  <2>3. req.what = modal.log
    BY <1>1, <1>3, <2>1 DEF Kept, OneLog
  <2>4. stored' = None \/ stored' = stored
    BY <2>1 DEF Cleared
  <2>5. Types'
    BY <2>1, <2>2, <2>4 DEF Kept, Types, TabTypes
  <2>6. OneLog'
    BY <2>1, <2>4, NoneIsNothing DEF Kept, Types, TabTypes, OneLog
  <2>7. NoteGoes'
    BY <2>1 DEF NoteGoes
  <2>. QED
    BY <1>1, <2>2, <2>3, <2>5, <2>6, <2>7 DEF Kept
<1>9. CASE DeskFails
  <2>1. /\ req # None
        /\ Apply(req, modal.student) \/ UNCHANGED service
        /\ req' = None /\ UNCHANGED <<client, stored, asks, modal>>
    BY <1>9 DEF DeskFails
  <2>2. ServiceTypes' /\ Grows /\ DOMAIN logs' = DOMAIN logs
    BY <2>1, ApplyTypes, ServiceStays DEF Kept
  <2>. QED
    BY <1>1, <1>2, <1>3, <2>1, <2>2, DeskWaits
<1>. QED
  BY <1>4, <1>5, <1>6, <1>7, <1>8, <1>9 DEF DeskNext

-----------------------------------------------------------------------------
(* The window of the phone. *)

\* The phone goes on to the call of some log the service has, or gives it up.
LEMMA MobileCalls ==
  ASSUME Kept, modal # None, NEW m \in Window, MobileCall(m)
  PROVE  \/ modal' = None /\ req' = None
         \/ /\ modal' = m /\ req' \in Request /\ req'.kind = "call"
            /\ req'.what \in DOMAIN logs
<1>1. Completing.log \in DOMAIN logs /\ Completing.log \in Numbers
  BY DEF Kept, Types, TabTypes, Completing, Session, Window
<1>2. [kind |-> "call", what |-> Completing.log] \in Request
  BY <1>1 DEF Request
<1>. QED
  BY <1>1, <1>2 DEF MobileCall

\* What a step of the phone's window may do next: send the note that is typed,
\* go on to the call with no note left to send, wait, or go away.
NextOf(m) ==
  \/ modal' = None /\ req' = None
  \/ /\ modal' = m /\ req' \in Request /\ req'.kind = "call"
     /\ req'.what \in DOMAIN logs /\ m.note # "typed"
  \/ modal' = m /\ req' \in Request /\ req'.kind # "call"
  \/ modal' = m /\ req' = None

\* finishDial sends the note first.
LEMMA MobileFinishes ==
  ASSUME Kept, modal # None, NEW m \in Window, MobileFinish(m)
  PROVE  NextOf(m) /\ (m.note = "typed" => modal' = m)
<1>1. CASE m.note = "typed"
  BY <1>1 DEF MobileFinish, NextOf, Request
<1>2. CASE m.note # "typed"
  BY <1>2, MobileCalls DEF MobileFinish, NextOf
<1>. QED
  BY <1>1, <1>2

\* A step of the phone's window over a window m that is the open one, but for
\* its step, its retry and its note.
LEMMA MobileWaits ==
  ASSUME Kept, client = "mobile", modal # None, ServiceTypes', Grows,
         UNCHANGED client, stored' = stored \/ stored' = None, UNCHANGED asks,
         NEW m \in Window, m.student = modal.student, m.log = modal.log,
         m.note = "sent" => notes'[m.student] > 0,
         NextOf(m)
  PROVE  Kept'
<1>1. modal \in Window /\ modal.log \in DOMAIN logs /\ modal.student \in Students /\ m # None
  BY NoneIsNothing DEF Kept, Types, TabTypes, Window
<1>2. Types'
  <2>1. modal' = None \/ (modal' \in Window /\ modal'.log \in DOMAIN logs')
    BY <1>1 DEF NextOf, Grows
  <2>2. req' = None \/ (req' \in Request /\ modal' # None)
    BY <1>1 DEF NextOf
  <2>3. (req' # None /\ req'.kind = "call") => req'.what \in DOMAIN logs'
    BY DEF NextOf, Grows
  <2>4. stored' = None \/ (stored' \in Session /\ stored'.log \in DOMAIN logs')
    BY DEF Kept, Types, TabTypes, Grows
  <2>5. \A a \in asks' : a.student \in Students /\ a.reuse \in {0} \cup DOMAIN logs'
    BY DEF Kept, Types, TabTypes, Grows
  <2>. QED
    BY <2>1, <2>2, <2>3, <2>4, <2>5 DEF Kept, Types, TabTypes
<1>3. OneLog'
  BY DEF OneLog
<1>4. NoteGoes'
  BY DEF NoteGoes, NextOf
<1>. QED
  BY <1>2, <1>3, <1>4 DEF Kept

\* Every step of the phone's window, and when it goes away.
LEMMA MobileStep ==
  ASSUME Kept, MobileNext
  PROVE  /\ Kept' /\ Grows /\ client = "mobile"
         /\ (modal # None /\ modal' = None /\ modal.note # "none") => notes'[modal.student] > 0
<1>1. client = "mobile"
  BY DEF MobileNext, MobileOpens, MobileType, MobileSaveDate, MobileEnds, MobileTurn, MobilePick,
         MobileMarked, MobileDated, MobileNoted, MobileRecorded, MobileFails, MobileFree,
         MobileIdle, Mobile
<1>2. modal # None => modal \in Window /\ modal.student \in Students /\ modal.log \in DOMAIN logs
  BY DEF Kept, Types, TabTypes, Window
<1>3. req # None => req \in Request /\ modal # None
  BY DEF Kept, Types, TabTypes
<1>4. ASSUME ServiceTypes', Grows, modal # None, modal.note = "sent"
      PROVE  notes'[modal.student] > 0
  <2>1. notes[modal.student] \in Nat /\ notes[modal.student] > 0
    BY <1>2, <1>4 DEF Kept, Types, ServiceTypes, NoteGoes
  <2>. QED
    BY <1>2, <1>4, <2>1 DEF Grows, ServiceTypes
<1>5. ASSUME ServiceTypes', Grows, modal # None, UNCHANGED <<client, asks>>,
             stored' = stored \/ stored' = None,
             NEW m \in Window, m.student = modal.student, m.log = modal.log,
             m.note = "sent" => notes'[m.student] > 0, NextOf(m)
      PROVE  Kept'
  BY <1>1, <1>5, MobileWaits
<1>6. CASE MobileOpens
  <2> DEFINE new == [student |-> stored.student, log |-> stored.log, step |-> "contact",
                     note |-> "none", retry |-> FALSE]
  <2>1. /\ modal = None /\ stored # None /\ modal' = new
        /\ UNCHANGED <<client, stored, asks, req, service>>
    BY <1>6 DEF MobileOpens
  <2>2. stored \in Session /\ stored.log \in DOMAIN logs /\ req = None
    BY <1>3, <2>1 DEF Kept, Types, TabTypes
  <2>3. new \in Window /\ new.log = stored.log /\ new.note = "none"
    BY <2>2 DEF Window, Session, Steps
  <2>4. ServiceTypes' /\ Grows /\ DOMAIN logs' = DOMAIN logs
    BY <2>1, ServiceStays DEF Kept
  <2> HIDE DEF new
  <2>5. Types'
    BY <2>1, <2>2, <2>3, <2>4 DEF Kept, Types, TabTypes
  <2>6. OneLog' /\ NoteGoes'
    BY <1>1, <2>1, <2>2, <2>3 DEF OneLog, NoteGoes
  <2>. QED
    BY <1>1, <2>1, <2>4, <2>5, <2>6 DEF Kept
<1>7. CASE MobileSaveDate \/ \E o \in Outcomes : MobilePick(o)
  <2>1. /\ modal # None /\ UNCHANGED <<client, stored, asks, modal, service>>
        /\ req' \in Request /\ req'.kind \in {"mark", "follow"}
    BY <1>7 DEF MobileSaveDate, MobilePick, MobileSend, MobileFree, MobileIdle, Request
  <2>2. ServiceTypes' /\ Grows
    BY <2>1, ServiceStays DEF Kept
  <2>3. NextOf(modal)
    BY <2>1 DEF NextOf
  <2>4. modal.note = "sent" => notes'[modal.student] > 0
    BY <1>4, <2>1, <2>2
  <2>. QED
    BY <1>1, <1>2, <1>5, <2>1, <2>2, <2>3, <2>4
<1>8. CASE MobileType \/ \E step \in Steps : MobileTurn(step)
  <2>1. /\ modal # None /\ req = None /\ UNCHANGED <<client, stored, asks, req, service>>
        /\ \/ modal' = [modal EXCEPT !.note = "typed"]
           \/ \E step \in Steps : modal' = [modal EXCEPT !.step = step]
    BY <1>8 DEF MobileType, MobileTurn, MobileFree, MobileIdle
  <2>2. ServiceTypes' /\ Grows
    BY <2>1, ServiceStays DEF Kept
  <2>3. /\ modal' \in Window /\ modal'.student = modal.student /\ modal'.log = modal.log
        /\ modal'.note \in {modal.note, "typed"}
    BY <1>2, <2>1 DEF Window
  <2>4. NextOf(modal') /\ modal' # None
    BY <2>1, <2>3, NoneIsNothing DEF NextOf
  <2>5. modal'.note = "sent" => notes'[modal'.student] > 0
    BY <1>4, <2>1, <2>2, <2>3
  <2>. QED
    BY <1>1, <1>5, <2>1, <2>2, <2>3, <2>4, <2>5
<1>9. CASE MobileEnds
  <2>1. /\ modal # None /\ UNCHANGED <<client, stored, asks, service>> /\ MobileFinish(modal)
    BY <1>9 DEF MobileEnds, MobileIdle
  <2>2. ServiceTypes' /\ Grows
    BY <2>1, ServiceStays DEF Kept
  <2>3. NextOf(modal) /\ (modal.note = "typed" => modal' = modal)
    BY <1>2, <2>1, MobileFinishes
  <2>4. modal.note = "sent" => notes'[modal.student] > 0
    BY <1>4, <2>1, <2>2
  <2>. QED
    BY <1>1, <1>2, <1>5, <2>1, <2>2, <2>3, <2>4 DEF Window
<1>10. CASE MobileMarked \/ MobileDated
  <2>1. /\ req # None /\ Apply(req, modal.student) /\ UNCHANGED <<client, stored, asks>>
        /\ \/ \E step \in {"missed", "intent"} : modal' = [modal EXCEPT !.step = step] /\ req' = None
           \/ MobileFinish(modal)
    BY <1>10 DEF MobileMarked, MobileDated
  <2>2. ServiceTypes' /\ Grows
    BY <2>1, ApplyTypes DEF Kept
  <2>3. modal.note = "sent" => notes'[modal.student] > 0
    BY <1>3, <1>4, <2>1, <2>2
  <2>4. CASE MobileFinish(modal)
    <3>1. NextOf(modal) /\ (modal.note = "typed" => modal' = modal)
      BY <1>2, <1>3, <2>1, <2>4, MobileFinishes
    <3>. QED
      BY <1>1, <1>2, <1>3, <1>5, <2>1, <2>2, <2>3, <3>1 DEF Window
  <2>5. ASSUME NEW step \in {"missed", "intent"}, modal' = [modal EXCEPT !.step = step], req' = None
        PROVE  Kept' /\ modal' # None
    <3>1. /\ modal' \in Window /\ modal'.student = modal.student
          /\ modal'.log = modal.log /\ modal'.note = modal.note
      BY <1>2, <1>3, <2>1, <2>5 DEF Window, Steps
    <3>2. NextOf(modal')
      BY <2>5 DEF NextOf
    <3>. QED
      BY <1>3, <1>5, <2>1, <2>2, <2>3, <3>1, <3>2, NoneIsNothing
  <2>. QED
    BY <1>1, <2>1, <2>2, <2>4, <2>5
<1>11. CASE MobileNoted
  <2> DEFINE m == [modal EXCEPT !.note = "sent"]
  <2>1. /\ req # None /\ req.kind = "note" /\ Apply(req, modal.student)
        /\ MobileCall(m) /\ UNCHANGED <<client, stored, asks>>
    BY <1>11 DEF MobileNoted
  <2>2. ServiceTypes' /\ Grows /\ notes'[modal.student] > 0
    BY <2>1, ApplyTypes DEF Kept
  <2>3. m \in Window /\ m.student = modal.student /\ m.log = modal.log /\ m.note = "sent"
    BY <1>2, <1>3, <2>1 DEF Window
  <2> HIDE DEF m
  <2>4. NextOf(m)
    BY <1>3, <2>1, <2>3, MobileCalls DEF NextOf
  <2>. QED
    BY <1>1, <1>3, <1>5, <2>1, <2>2, <2>3, <2>4
<1>12. CASE MobileRecorded
  <2>1. /\ req # None /\ req.kind = "call" /\ Apply(req, modal.student)
        /\ stored' = Cleared(req.what) /\ modal' = None /\ req' = None
        /\ UNCHANGED <<client, asks>>
    BY <1>12 DEF MobileRecorded
  <2>2. ServiceTypes' /\ Grows
    BY <2>1, ApplyTypes DEF Kept
  <2>3. stored' = None \/ stored' = stored
    BY <2>1 DEF Cleared
  <2>4. NextOf(modal) /\ modal.note # "typed"
    BY <1>3, <2>1 DEF Kept, NoteGoes, NextOf
  <2>5. modal.note = "sent" => notes'[modal.student] > 0
    BY <1>3, <1>4, <2>1, <2>2
  <2>. QED
    BY <1>1, <1>2, <1>3, <1>5, <2>1, <2>2, <2>3, <2>4, <2>5 DEF Window
<1>13. CASE MobileFails
  <2>1. /\ req # None
        /\ Apply(req, modal.student) \/ UNCHANGED service
        /\ req' = None /\ UNCHANGED <<client, stored, asks>>
        /\ modal' = [modal EXCEPT !.retry = @ \/ req.kind \in {"note", "call"}]
    BY <1>13 DEF MobileFails
  <2>2. ServiceTypes' /\ Grows
    BY <2>1, ApplyTypes, ServiceStays DEF Kept
  <2>3. /\ modal' \in Window /\ modal'.student = modal.student
        /\ modal'.log = modal.log /\ modal'.note = modal.note
    BY <1>2, <1>3, <2>1 DEF Window
  <2>4. NextOf(modal')
    BY <2>1 DEF NextOf
  <2>5. modal'.note = "sent" => notes'[modal'.student] > 0
    BY <1>3, <1>4, <2>1, <2>2, <2>3
  <2>. QED
    BY <1>1, <1>3, <1>5, <2>1, <2>2, <2>3, <2>4, <2>5, NoneIsNothing
<1>. QED
  BY <1>6, <1>7, <1>8, <1>9, <1>10, <1>11, <1>12, <1>13 DEF MobileNext

-----------------------------------------------------------------------------
(* The undo toast and a reload, and the theorems. *)

\* The undo, and whatever else leaves the tab's dials and window alone.
LEMMA UndoStep ==
  ASSUME Kept, NEW s \in Students, ToastExpires(s) \/ ClickUndo(s) \/ UndoAnswered(s)
  PROVE  Kept' /\ Grows /\ UNCHANGED modal
<1>1. /\ UNCHANGED <<client, stored, asks, modal, req, logs, notes>>
      /\ lead' = lead \/ lead' = [lead EXCEPT ![s] = Undone(@)]
  BY DEF ToastExpires, ClickUndo, UndoAnswered, service
<1>2. lead' \in [Students -> LeadRow]
  BY <1>1, RowTypes DEF Kept, Types, ServiceTypes
<1>3. DOMAIN logs' = DOMAIN logs
  BY <1>1
<1>4. ServiceTypes' /\ Grows
  BY <1>1, <1>2, <1>3 DEF Kept, Types, ServiceTypes, Grows
<1>5. Types'
  BY <1>1, <1>3, <1>4 DEF Kept, Types, TabTypes
<1>6. OneLog' /\ NoteGoes'
  BY <1>1 DEF Kept, OneLog, NoteGoes
<1>. QED
  BY <1>1, <1>4, <1>5, <1>6 DEF Kept

\* After a reload the stored session is all there is.
LEMMA ReloadStep ==
  ASSUME Kept, Reload
  PROVE  Kept' /\ Grows
<1>1. /\ UNCHANGED <<client, stored>> /\ modal' = None /\ req' = None /\ asks' = {}
      /\ \/ UNCHANGED service
         \/ req # None /\ Apply(req, modal.student)
  BY DEF Reload
<1>2. ServiceTypes' /\ Grows
  BY <1>1, ApplyTypes, ServiceStays DEF Kept
<1>3. Types'
  BY <1>1, <1>2 DEF Kept, Types, TabTypes, Grows
<1>4. OneLog' /\ NoteGoes'
  BY <1>1 DEF OneLog, NoteGoes
<1>. QED
  BY <1>2, <1>3, <1>4 DEF Kept

\* Every step keeps the invariant; a window ends by the last step of its own.
LEMMA KeptStep ==
  ASSUME Kept, [Next]_vars
  PROVE  /\ Kept'
         /\ Ends /\ client = "desk" => logs'[modal.log].done
         /\ Ends /\ modal.note # "none" => notes'[modal.student] > 0
<1>1. CASE UNCHANGED vars
  <2>1. UNCHANGED <<client, stored, asks, modal, req, logs, lead, notes>>
    BY <1>1 DEF vars, browser, service
  <2>2. DOMAIN logs' = DOMAIN logs
    BY <2>1
  <2>. QED
    BY <2>1, <2>2 DEF Kept, Types, ServiceTypes, TabTypes, OneLog, NoteGoes, Ends
<1>2. CASE MobileNext
  BY <1>2, MobileStep DEF Ends
<1>3. CASE DeskNext
  <2>1. modal # None => modal.note = "none"
    BY <1>3, DeskStep DEF Kept, NoteGoes
  <2>. QED
    BY <1>3, <2>1, DeskStep DEF Ends
<1>4. ASSUME NEW s \in Students, ToastExpires(s) \/ ClickUndo(s) \/ UndoAnswered(s)
      PROVE  Kept' /\ ~Ends
  BY <1>4, UndoStep DEF Ends
<1>5. ASSUME NEW s \in Students, MobileAsk(s) \/ DeskAsk(s)
      PROVE  Kept' /\ ~Ends
  BY <1>5, AskStep DEF Ends, MobileAsk, DeskAsk
<1>6. ASSUME NEW a \in asks, PhoneArrives(a) \/ PhoneFails(a)
      PROVE  Kept' /\ ~Ends
  BY <1>6, ArrivesStep, PhoneFailsStep DEF Ends, PhoneArrives, PhoneFails
<1>7. CASE Reload
  BY <1>7, ReloadStep DEF Ends
<1>. QED
  BY <1>1, <1>2, <1>3, <1>4, <1>5, <1>6, <1>7 DEF Next, Around

\* The invariant holds in every state.
THEOREM DialTypes == Spec => []Kept
<1>1. Kept /\ [Next]_vars => Kept'
  BY KeptStep
<1>. QED
  BY KeptInit, <1>1, PTL DEF Spec

\* The desk's window goes away only with its own call on record, however dials
\* and lost answers crossed.
THEOREM DeskRecords == Spec => DeskRecordsCall
<1>1. Kept /\ [Next]_vars => [Ends /\ client = "desk" => logs'[modal.log].done]_vars
  BY KeptStep
<1>. QED
  BY <1>1, DialTypes, PTL DEF Spec, DeskRecordsCall

\* A note typed about an invalid number is with the service before the window
\* goes away.
THEOREM NoteReaches == Spec => NoteReachesService
<1>1. Kept /\ [Next]_vars => [Ends /\ modal.note # "none" => notes'[modal.student] > 0]_vars
  BY KeptStep
<1>. QED
  BY <1>1, DialTypes, PTL DEF Spec, NoteReachesService

\* No request the service takes leaves a date with an untouched student.
LEMMA ApplyUntouched ==
  ASSUME Kept, UntouchedHasNoDate, req # None, Apply(req, modal.student)
  PROVE  UntouchedHasNoDate'
<1>1. req \in Request /\ modal.student \in Students
  BY ApplyTypes, NoneIsNothing DEF Kept, Types, TabTypes
<1>2. CASE req.kind = "mark"
  <2>1. lead' = [lead EXCEPT ![modal.student] = Marked(@, req.what)]
    BY <1>2 DEF Apply
  <2>2. Marked(lead[modal.student], req.what).status # "new"
    BY <1>1, <1>2, RequestKinds, OutcomeStatus DEF Marked
  <2>. QED
    BY <1>1, <2>1, <2>2 DEF Kept, Types, ServiceTypes, UntouchedHasNoDate
<1>3. CASE req.kind = "follow"
  <2>1. lead' = [lead EXCEPT ![modal.student] = Reminded(@)]
    BY <1>3 DEF Apply
  <2>2. Reminded(lead[modal.student]).status # "new"
    <3>1. lead[modal.student] \in LeadRow
      BY <1>1 DEF Kept, Types, ServiceTypes
    <3>2. [lead[modal.student] EXCEPT !.reminders = @ + 1] \in LeadRow
      BY <3>1 DEF LeadRow
    <3>. QED
      BY <3>1, <3>2 DEF Reminded, LeadRow
  <2>. QED
    BY <1>1, <2>1, <2>2 DEF Kept, Types, ServiceTypes, UntouchedHasNoDate
<1>4. CASE req.kind \in {"note", "call"}
  BY <1>4 DEF Apply, UntouchedHasNoDate
<1>. QED
  BY <1>1, <1>2, <1>3, <1>4, RequestKinds

\* An untouched student has no date set, however results, dates and undos
\* with lost answers cross.
THEOREM UntouchedDateless == Spec => []UntouchedHasNoDate
<1>1. Init => UntouchedHasNoDate
  BY DEF Init, UntouchedHasNoDate
<1>2. ASSUME Kept, UntouchedHasNoDate, [Next]_vars
      PROVE  UntouchedHasNoDate'
  <2>. USE <1>2
  <2>1. CASE UNCHANGED lead
    BY <2>1 DEF UntouchedHasNoDate
  <2>2. CASE req # None /\ Apply(req, modal.student)
    BY <2>2, ApplyUntouched
  <2>3. ASSUME NEW s \in Students, lead' = [lead EXCEPT ![s] = Undone(@)]
        PROVE  UntouchedHasNoDate'
    <3>1. lead[s] \in LeadRow
      BY DEF Kept, Types, ServiceTypes
    <3>2. [lead[s] EXCEPT !.status = "new"] \in LeadRow
      BY <3>1 DEF LeadRow, Statuses
    <3>3. Undone(lead[s]).reminders = 0
      BY <3>1, <3>2 DEF Undone, LeadRow
    <3>. QED
      BY <2>3, <3>3 DEF Kept, Types, ServiceTypes, UntouchedHasNoDate
  <2>4. CASE UNCHANGED vars
    BY <2>1, <2>4 DEF vars, service
  <2>5. CASE MobileNext
    <3>1. UNCHANGED lead \/ (req # None /\ Apply(req, modal.student))
      BY <2>5 DEF MobileNext, MobileOpens, MobileType, MobileSaveDate, MobileEnds, MobileTurn,
             MobilePick, MobileSend, MobileMarked, MobileDated, MobileNoted, MobileRecorded,
             MobileFails, service
    <3>. QED
      BY <2>1, <2>2, <3>1
  <2>6. CASE DeskNext
    <3>1. UNCHANGED lead \/ (req # None /\ Apply(req, modal.student))
      BY <2>6 DEF DeskNext, DeskOpens, DeskSaveDate, DeskEnds, DeskPick, DeskSend, DeskMarked,
             DeskDated, DeskRecorded, DeskFails, service
    <3>. QED
      BY <2>1, <2>2, <3>1
  <2>7. CASE Around
    <3>1. \/ UNCHANGED lead
          \/ req # None /\ Apply(req, modal.student)
          \/ \E s \in Students : lead' = [lead EXCEPT ![s] = Undone(@)]
      BY <2>7 DEF Around, ToastExpires, ClickUndo, UndoAnswered, MobileAsk, DeskAsk, Ask,
             PhoneArrives, PhoneFails, Reload, service
    <3>. QED
      BY <2>1, <2>2, <2>3, <3>1
  <2>. QED
    BY <2>4, <2>5, <2>6, <2>7 DEF Next
<1>3. Kept /\ UntouchedHasNoDate /\ [Next]_vars => UntouchedHasNoDate'
  BY <1>2
<1>. QED
  BY <1>1, <1>3, DialTypes, PTL DEF Spec
=============================================================================
