----------------------------- MODULE MobileDial -----------------------------
(***************************************************************************)
(* The result window of the phone (components/MobileDialResult.jsx).  It   *)
(* saves a result, then the note, then the call, and closes; when the note *)
(* or the call fails it offers a retry and nothing else.                   *)
(***************************************************************************)
EXTENDS DialSession

Mobile == client = "mobile"

\* tryLoadPending, run when the window closes and when the tab gets the focus.
MobileOpens ==
  /\ Mobile /\ modal = None /\ stored # None
  /\ modal' = [student |-> stored.student, log |-> stored.log, step |-> "contact",
               note |-> "none", retry |-> FALSE]
  /\ UNCHANGED <<client, stored, asks, dialing, picks, req, undo, service>>

\* beginSubmit, and the buttons that are greyed out until the retry is done.
MobileIdle == Mobile /\ modal # None /\ req = None
MobileFree == MobileIdle /\ ~modal.retry

\* The results each step of the window offers.
MobileOffers(o) ==
  CASE modal.step = "contact" -> o = "missed_call"
    [] modal.step = "connected" -> o \in Outcomes \ {"missed_call", "phone_invalid"}
    [] modal.step = "invalid" -> o = "phone_invalid"
    [] OTHER -> FALSE

MobileTurn(step) ==
  /\ MobileFree
  /\ \/ modal.step = "contact" /\ step \in {"connected", "invalid"}
     \/ modal.step \in {"connected", "invalid"} /\ step = "contact"
  /\ modal' = [modal EXCEPT !.step = step]
  /\ UNCHANGED <<client, stored, asks, dialing, picks, req, undo, service>>

MobileType ==
  /\ MobileFree /\ modal.step = "invalid" /\ modal.note = "none"
  /\ modal' = [modal EXCEPT !.note = "typed"]
  /\ UNCHANGED <<client, stored, asks, dialing, picks, req, undo, service>>

\* recordCallOnce: a session of another student is passed over in silence.
MobileCall(m) ==
  IF Matches THEN modal' = m /\ req' = [kind |-> "call", what |-> Completing.log]
  ELSE modal' = None /\ req' = None

\* Mutant: a retry goes straight to the call.
MobileFinishForgets(m) ==
  IF m.note = "typed" /\ ~m.retry THEN modal' = m /\ req' = [kind |-> "note", what |-> 0]
  ELSE MobileCall(m)

\* finishDial.
MobileFinish(m) ==
  IF m.note = "typed" THEN modal' = m /\ req' = [kind |-> "note", what |-> 0]
  ELSE MobileCall(m)

MobileSend(r) ==
  /\ modal' = modal /\ req' = r
  /\ UNCHANGED <<client, stored, asks, dialing, undo, service>>

MobilePick(o) ==
  /\ MobileFree /\ MobileOffers(o)
  /\ picks < MaxPicks /\ picks' = picks + 1
  /\ MobileSend([kind |-> "mark", what |-> o])

MobileSaveDate ==
  /\ MobileFree /\ modal.step \in {"missed", "intent"}
  /\ UNCHANGED picks
  /\ MobileSend([kind |-> "follow", what |-> 0])

\* The buttons that end the window: skip the date, close, try again.
MobileEnds ==
  /\ MobileIdle
  /\ modal.step # "missed" \/ modal.retry
  /\ MobileFinish(modal)
  /\ UNCHANGED <<client, stored, asks, dialing, picks, undo, service>>

\* pickStatus after its PUT: a missed call must get a date, an interested
\* parent may.
MobileMarked ==
  /\ Mobile /\ req # None /\ req.kind = "mark"
  /\ Apply(req, modal.student)
  /\ undo' = Toasted(modal.student, req.what)
  /\ CASE req.what = "missed_call" -> modal' = [modal EXCEPT !.step = "missed"] /\ req' = None
       [] AsksForDate(req.what) -> modal' = [modal EXCEPT !.step = "intent"] /\ req' = None
       [] OTHER -> MobileFinish(modal)
  /\ UNCHANGED <<client, stored, asks, dialing, picks>>

MobileDated ==
  /\ Mobile /\ req # None /\ req.kind = "follow"
  /\ Apply(req, modal.student)
  /\ MobileFinish(modal)
  /\ UNCHANGED <<client, stored, asks, dialing, picks, undo>>

MobileNoted ==
  /\ Mobile /\ req # None /\ req.kind = "note"
  /\ Apply(req, modal.student)
  /\ MobileCall([modal EXCEPT !.note = "sent"])
  /\ UNCHANGED <<client, stored, asks, dialing, picks, undo>>

MobileRecorded ==
  /\ Mobile /\ req # None /\ req.kind = "call"
  /\ Apply(req, modal.student)
  /\ stored' = Cleared(req.what)
  /\ modal' = None /\ req' = None
  /\ UNCHANGED <<client, asks, dialing, picks, undo>>

\* A failure the window sees: a note or a call that fails leaves only the retry.
MobileFails ==
  /\ Mobile /\ req # None
  /\ Apply(req, modal.student) \/ UNCHANGED service
  /\ req' = None
  /\ modal' = [modal EXCEPT !.retry = @ \/ req.kind \in {"note", "call"}]
  /\ UNCHANGED <<client, stored, asks, dialing, picks, undo>>

MobileNext ==
  \/ MobileOpens \/ MobileType \/ MobileSaveDate \/ MobileEnds
  \/ \E step \in Steps : MobileTurn(step)
  \/ \E o \in Outcomes : MobilePick(o)
  \/ MobileMarked \/ MobileDated \/ MobileNoted \/ MobileRecorded \/ MobileFails
=============================================================================
