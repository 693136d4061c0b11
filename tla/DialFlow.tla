------------------------------ MODULE DialFlow ------------------------------
(***************************************************************************)
(* A counsellor's tab with either result window, and what the windows      *)
(* promise about the calls, notes and dates of a student.                  *)
(***************************************************************************)
EXTENDS MobileDial, DeskDial

Next == MobileNext \/ DeskNext \/ Around

Spec == Init /\ [][Next]_vars

----------------------------------------------------------------------------
\* A window that ends other than by a reload of the tab.
Ends == modal # None /\ modal' = None /\ ~Reload

\* The desk's window goes away only when the call it was opened for is on
\* record, whatever another dial put into storage meanwhile and whichever
\* answers were lost (finalizeSavedDial, handleDialModalClose).
DeskRecordsCall == [][Ends /\ client = "desk" => logs'[modal.log].done]_vars

\* What the phone types about an invalid number reaches the service before
\* the window goes away, through any failure and retry (recordNoteOnce).
NoteReachesService ==
  [][Ends /\ modal.note # "none" => notes'[modal.student] > 0]_vars

\* An untouched student has no date set, however results, dates and undos
\* with lost answers cross (undo_first_outcome deletes the dates it takes back).
UntouchedHasNoDate ==
  \A s \in Students : lead[s].status = "new" => lead[s].reminders = 0

=============================================================================
