------------------------------ MODULE DeskDial ------------------------------
(***************************************************************************)
(* The result window of the desk (hooks/useAgentDial.js with               *)
(* pages/agent/desktop/DialResultModal.jsx): one list of results, a date   *)
(* for the interested, and a window that stays until the call is recorded. *)
(***************************************************************************)
EXTENDS DialSession

Desk == client = "desk"

DeskOpens ==
  /\ Desk /\ modal = None /\ stored # None
  /\ modal' = [student |-> stored.student, log |-> stored.log, step |-> "status",
               note |-> "none", retry |-> FALSE]
  /\ UNCHANGED <<client, stored, asks, dialing, picks, req, undo, service>>

\* runAction: one action of the window at a time.
DeskIdle == Desk /\ modal # None /\ req = None

DeskOffers(o) == modal.step = "status" /\ o \in Outcomes

DeskSend(r) ==
  /\ req' = r
  /\ UNCHANGED <<client, stored, asks, dialing, modal, undo, service>>

DeskPick(o) ==
  /\ DeskIdle /\ DeskOffers(o)
  /\ picks < MaxPicks /\ picks' = picks + 1
  /\ DeskSend([kind |-> "mark", what |-> o])

DeskSaveDate ==
  /\ DeskIdle /\ modal.step = "follow"
  /\ UNCHANGED picks
  /\ DeskSend([kind |-> "follow", what |-> 0])

\* Mutant: the desk passes over a session of another student, as the phone does.
DeskFinishAnyhow ==
  IF Matches THEN req' = [kind |-> "call", what |-> Completing.log] /\ modal' = modal
  ELSE req' = None /\ modal' = None

\* completeDialOrNotify: a session of another student keeps the window open.
DeskFinish ==
  /\ req' = IF Matches THEN [kind |-> "call", what |-> Completing.log] ELSE None
  /\ modal' = modal

DeskEnds ==
  /\ DeskIdle /\ Matches
  /\ DeskFinish
  /\ UNCHANGED <<client, stored, asks, dialing, picks, undo, service>>

DeskMarked ==
  /\ Desk /\ req # None /\ req.kind = "mark"
  /\ Apply(req, modal.student)
  /\ undo' = Toasted(modal.student, req.what)
  /\ IF AsksForDate(req.what) THEN modal' = [modal EXCEPT !.step = "follow"] /\ req' = None
     ELSE DeskFinish
  /\ UNCHANGED <<client, stored, asks, dialing, picks>>

DeskDated ==
  /\ Desk /\ req # None /\ req.kind = "follow"
  /\ Apply(req, modal.student)
  /\ DeskFinish
  /\ UNCHANGED <<client, stored, asks, dialing, picks, undo>>

\* finalizeSavedDial, or the plain close.
DeskRecorded ==
  /\ Desk /\ req # None /\ req.kind = "call"
  /\ Apply(req, modal.student)
  /\ stored' = Cleared(req.what)
  /\ modal' = None /\ req' = None
  /\ UNCHANGED <<client, asks, dialing, picks, undo>>

DeskFails ==
  /\ Desk /\ req # None
  /\ Apply(req, modal.student) \/ UNCHANGED service
  /\ req' = None
  /\ UNCHANGED <<client, stored, asks, dialing, picks, modal, undo>>

DeskNext ==
  \/ DeskOpens \/ DeskSaveDate \/ DeskEnds
  \/ \E o \in Outcomes : DeskPick(o)
  \/ DeskMarked \/ DeskDated \/ DeskRecorded \/ DeskFails
=============================================================================
