---------------------------- MODULE DialSession ----------------------------
(***************************************************************************)
(* One counsellor's browser tab while it dials: the phone request of a     *)
(* student, the dial session kept in sessionStorage (dialSession.js), the  *)
(* result window and the undo toast, with the part of the service they     *)
(* talk to.  MobileDial and DeskDial are the two result windows.           *)
(*                                                                         *)
(* A request is answered in one step: taken, refused, or taken with the    *)
(* answer lost, which the browser cannot tell from a refusal.              *)
(***************************************************************************)
EXTENDS Integers, Sequences, FiniteSets

CONSTANTS
  Outcomes,      \* the results of a call that are modelled
  Students,      \* the students on the counsellor's list
  MaxAsks,       \* phone requests in flight at a time
  MaxPicks,      \* results picked in a behaviour
  MaxLogs,       \* dial logs the service hands out in a behaviour
  MaxReminders,  \* open reminders of one student
  MaxNotes       \* notes written for one student

StatusOf == [very_interested |-> "contacted", interested_wechat |-> "revisit",
             missed_call |-> "missed", phone_invalid |-> "invalid"]

ASSUME OutcomesAssumption == Outcomes \subseteq DOMAIN StatusOf
\* The student of None is nobody.
ASSUME NobodyAssumption == "none" \notin Students
ASSUME BoundsAssumption ==
  MaxAsks \in Nat /\ MaxPicks \in Nat /\ MaxLogs \in Nat /\ MaxReminders \in Nat /\ MaxNotes \in Nat

VARIABLES
  client,   \* which result window this tab shows
  stored,   \* sessionStorage.pendingDial: a session, or None
  asks,     \* phone requests in flight
  dialing,  \* the student whose dial button the phone list disables, or None
  modal,    \* the open result window, or None
  req,      \* the request that window waits for, or None
  picks,    \* results picked so far, bounded by MaxPicks
  undo,     \* by student: the undo button is shown, or its request in flight
  logs,     \* the service's dial logs, by number
  lead,     \* the service's record of each student
  notes     \* notes the service holds, by student

browser == <<stored, asks, dialing, modal, req, picks, undo>>
service == <<logs, lead, notes>>
vars == <<client, browser, service>>

Clients == {"mobile", "desk"}
None == [student |-> "none"]
Statuses == {"new", "contacted", "revisit", "missed", "invalid"}
Steps == {"contact", "connected", "invalid", "missed", "intent", "status", "follow"}

\* The result is followed by a date for the next contact.
AsksForDate(o) == o = "interested_wechat"

Numbers == 1 .. MaxLogs
Session == [student : Students, log : Numbers]
Window == [student : Students, log : Numbers, step : Steps,
           note : {"none", "typed", "sent"}, retry : BOOLEAN]
Request == [kind : {"mark"}, what : Outcomes] \cup [kind : {"call"}, what : Numbers]
             \cup [kind : {"note", "follow"}, what : {0}]

Init ==
  /\ client \in Clients
  /\ stored = None /\ asks = {} /\ dialing = None
  /\ modal = None /\ req = None /\ picks = 0 /\ undo = [s \in Students |-> "none"]
  /\ logs = <<>>
  /\ lead = [s \in Students |-> [status |-> "new", first |-> "none", reminders |-> 0]]
  /\ notes = [s \in Students |-> 0]

----------------------------------------------------------------------------
(* What the service does with a request it takes.                          *)

\* PUT /students/{id}: `first` is the status the latest logged change set,
\* when that change took the student out of the untouched state.
Marked(l, o) ==
  LET st == StatusOf[o]
  IN  [status |-> st,
       first |-> IF l.status = st THEN l.first ELSE IF l.status = "new" THEN st ELSE "none",
       reminders |-> IF st = "invalid" THEN 0 ELSE l.reminders]

\* POST /follow-ups always adds a row, and moves a live student to "revisit".
Reminded(l) ==
  [l EXCEPT !.reminders = @ + 1, !.status = IF @ = "invalid" THEN @ ELSE "revisit"]

\* POST /students/{id}/undo-outcome.
UndoAllowed(l) ==
  /\ l.first # "none"
  /\ l.status = l.first \/ (l.status = "revisit" /\ l.reminders > 0)
\* Mutant: an undo leaves the dates set since.
UndoneKeepsDates(l) == [l EXCEPT !.status = "new"]

Undone(l) == [l EXCEPT !.status = "new", !.reminders = 0]

Pending(s) == {n \in DOMAIN logs : logs[n].student = s /\ ~logs[n].done}

\* The service's part of a window's request.
Apply(r, s) ==
  /\ CASE r.kind = "mark" -> /\ lead' = [lead EXCEPT ![s] = Marked(@, r.what)]
                             /\ UNCHANGED <<logs, notes>>
       [] r.kind = "follow" -> /\ lead[s].reminders < MaxReminders
                               /\ lead' = [lead EXCEPT ![s] = Reminded(@)]
                               /\ UNCHANGED <<logs, notes>>
       [] r.kind = "note" -> /\ notes[s] < MaxNotes
                             /\ notes' = [notes EXCEPT ![s] = @ + 1]
                             /\ UNCHANGED <<logs, lead>>
       [] r.kind = "call" -> /\ logs' = [logs EXCEPT ![r.what].done = TRUE]
                             /\ UNCHANGED <<lead, notes>>

----------------------------------------------------------------------------
(* Asking for a number.                                                    *)

\* The log the stored session lets this dial reuse.
Reusable(s) == IF stored.student = s THEN stored.log ELSE 0

Ask(s) ==
  /\ Cardinality(asks) < MaxAsks
  /\ asks' = asks \cup {[student |-> s, reuse |-> Reusable(s)]}
  /\ UNCHANGED <<client, stored, modal, req, picks, undo, service>>

\* A dial button of the phone list: only the last student asked for is greyed out.
MobileAsk(s) ==
  /\ Cardinality(asks) < MaxAsks
  /\ client = "mobile" /\ modal = None
  /\ dialing # s
  /\ dialing' = s
  /\ Ask(s)

\* A dial button of the desk: one request per student at a time.
DeskAsk(s) ==
  /\ Cardinality(asks) < MaxAsks
  /\ client = "desk" /\ modal = None
  /\ ~\E a \in asks : a.student = s
  /\ UNCHANGED dialing
  /\ Ask(s)

\* A log the service may answer with: the one named, else a pending one that
\* is recent enough, else a new one.
Answers(a) ==
  IF a.reuse # 0 THEN {a.reuse} \cap Pending(a.student)
  ELSE Pending(a.student) \cup ({Len(logs) + 1} \cap Numbers)

Logged(a, n) == IF n \in DOMAIN logs THEN logs
                ELSE Append(logs, [student |-> a.student, done |-> FALSE])

\* The number arrives: the session is stored over whatever was there and the
\* tab follows the tel: link.
PhoneArrives(a) ==
  /\ a \in asks
  /\ \E n \in Answers(a) :
       /\ logs' = Logged(a, n)
       /\ stored' = [student |-> a.student, log |-> n]
  /\ asks' = asks \ {a}
  /\ dialing' = None
  /\ UNCHANGED <<client, modal, req, picks, undo, lead, notes>>

\* No number: refused, without a phone, or the answer was lost.
PhoneFails(a) ==
  /\ a \in asks
  /\ \/ UNCHANGED logs
     \/ \E n \in Answers(a) : logs' = Logged(a, n)
  /\ asks' = asks \ {a}
  /\ dialing' = None
  /\ UNCHANGED <<client, stored, modal, req, picks, undo, lead, notes>>

----------------------------------------------------------------------------
(* completePendingDial.                                                    *)

\* The session it completes: the stored one, else the window's own.
Completing == IF stored # None THEN stored ELSE modal
Matches == Completing.student = modal.student

Cleared(n) == IF stored # None /\ stored.log = n THEN None ELSE stored

----------------------------------------------------------------------------
(* The undo toast and the world around the tab.                            *)

\* The toast of a student's first outcome offers the undo.
Toasted(s, o) == IF lead[s].status = "new" THEN [undo EXCEPT ![s] = "shown"] ELSE undo

ToastExpires(s) ==
  /\ undo[s] = "shown"
  /\ undo' = [undo EXCEPT ![s] = "none"]
  /\ UNCHANGED <<client, stored, asks, dialing, modal, req, picks, service>>

ClickUndo(s) ==
  /\ undo[s] = "shown"
  /\ undo' = [undo EXCEPT ![s] = "sent"]
  /\ UNCHANGED <<client, stored, asks, dialing, modal, req, picks, service>>

UndoAnswered(s) ==
  /\ undo[s] = "sent"
  /\ undo' = [undo EXCEPT ![s] = "none"]
  /\ \/ UndoAllowed(lead[s]) /\ lead' = [lead EXCEPT ![s] = Undone(@)]
     \/ UNCHANGED lead
  /\ UNCHANGED <<client, stored, asks, dialing, modal, req, picks, logs, notes>>

\* The tab is reloaded: only the stored session survives, and a request in
\* flight may still be taken.
Reload ==
  /\ modal # None \/ asks # {} \/ \E s \in Students : undo[s] # "none"
  /\ modal' = None /\ req' = None /\ asks' = {} /\ dialing' = None
  /\ undo' = [s \in Students |-> "none"]
  /\ \/ UNCHANGED service
     \/ req # None /\ Apply(req, modal.student)
  /\ UNCHANGED <<client, stored, picks>>

Around ==
  \/ \E s \in Students : ToastExpires(s) \/ ClickUndo(s) \/ UndoAnswered(s)
  \/ \E s \in Students : MobileAsk(s) \/ DeskAsk(s)
  \/ \E a \in asks : PhoneArrives(a) \/ PhoneFails(a)
  \/ Reload
=============================================================================
