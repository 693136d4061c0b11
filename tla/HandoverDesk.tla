---------------------------- MODULE HandoverDesk ----------------------------
(***************************************************************************)
(* The handover centre (pages/admin/HandoverCenter.jsx with handover/* and *)
(* hooks/useHandovers.js): a batch of a leaving employee's students is     *)
(* filtered, ticked, previewed and transferred, while other administrators *)
(* transfer students of the same batches.  The rows are cached by batch    *)
(* and filter.  The service is modelled by what its answers are.           *)
(***************************************************************************)
EXTENDS Console

CONSTANTS Leaving,     \* the students to be handed over
          BatchOf(_),  \* the batch each of them is in
          Staff        \* who may take them

Batches == {BatchOf(s) : s \in Leaving}
Scopes == Batches \X {"all", "pending"}
Scope == <<view.batch, view.filter>>

Pending(w, b) == {s \in Leaving : BatchOf(s) = b /\ w.holder[s] = None}

\* GET /admin/handovers/<batch>: the rows a filter lets through.
Rows(w, scope) ==
  [s \in {t \in Leaving : BatchOf(t) = scope[1] /\ (scope[2] = "all" \/ w.holder[t] = None)}
     |-> w.holder[s]]

Detail(w, scope) == [rows |-> Rows(w, scope), left |-> Cardinality(Pending(w, scope[1]))]

Fetch(scope) == [scope |-> scope, answer |-> <<>>]

\* A fetch of a scope replaces the one before it.
Refetched(v, scope) ==
  [v EXCEPT !.fetches = {f \in @ : f.scope # scope} \cup {Fetch(scope)}, !.failed = @ \ {scope}]

\* Another scope comes on screen: rows cached less than half a minute ago are
\* not fetched again unless a transfer made them stale.
Opened(v, scope) ==
  IF \E f \in v.fetches : f.scope = scope THEN {v}
  ELSE IF v.cache[scope] = None \/ scope \in v.stale THEN {Refetched(v, scope)}
  ELSE {v, Refetched(v, scope)}

HandoverOpens ==
  /\ world = [holder |-> [s \in Leaving |-> None], version |-> [b \in Batches |-> 0], transfers |-> {}]
  /\ \E b \in Batches, super \in BOOLEAN :
       view = [batch |-> b, filter |-> "all", target |-> [batch |-> b, agent |-> None],
               picked |-> [scope |-> <<b, "all">>, ids |-> {}], super |-> super,
               cache |-> [c \in Scopes |-> IF c = <<b, "all">> THEN Detail(world, c) ELSE None],
               fetches |-> {}, failed |-> {}, stale |-> {}, preview |-> None, dialog |-> None,
               sending |-> None, error |-> "none", keys |-> 0]

\* What is ticked and the employee chosen are of one scope and one batch.
Picked == IF view.picked.scope = Scope THEN view.picked.ids ELSE {}
Target == IF view.target.batch = view.batch THEN view.target.agent ELSE None

Known == view.cache[Scope] # None
Shown == Known /\ Scope \notin view.failed
AtPage == view.dialog = None
Completed == view.cache[Scope].left = 0
Selectable == {s \in DOMAIN view.cache[Scope].rows : view.cache[Scope].rows[s] = None}

----------------------------------------------------------------------------
(* The page.                                                               *)

SelectBatch(b) ==
  /\ Click /\ AtPage /\ b # view.batch
  /\ view' \in Opened([view EXCEPT !.batch = b], <<b, view.filter>>)

ChangeFilter(f) ==
  /\ Click /\ AtPage /\ Shown /\ f # view.filter
  /\ view' \in Opened([view EXCEPT !.filter = f], <<view.batch, f>>)

RefreshDetail == Click /\ AtPage /\ view' = Refetched(view, Scope)

Pick(ids) == view' = [view EXCEPT !.picked = [scope |-> Scope, ids |-> ids]]

TickRow(s) == Click /\ AtPage /\ Shown /\ s \in Selectable /\ Pick(Flip(Picked, s))

TickRows == Click /\ AtPage /\ Shown /\ Selectable # {} /\ Pick(FlipAll(Picked, Selectable))

\* The choice of an employee stays open while a preview is on its way.
ChooseTarget(a) ==
  /\ Click /\ AtPage /\ Shown /\ ~Completed /\ a # Target
  /\ view' = [view EXCEPT !.target = [batch |-> view.batch, agent |-> a]]

FetchTaken(f) ==
  /\ Served /\ f \in view.fetches /\ f.answer = <<>>
  /\ view' = [view EXCEPT !.fetches = (@ \ {f}) \cup {[f EXCEPT !.answer = <<Detail(world, f.scope)>>]}]
  /\ UNCHANGED world

FetchShown(f) ==
  /\ Told /\ f \in view.fetches /\ f.answer # <<>>
  /\ view' = [view EXCEPT !.fetches = @ \ {f}, !.cache[f.scope] = f.answer[1],
                          !.stale = @ \ {f.scope}]

FetchFails(f) ==
  /\ Told /\ f \in view.fetches
  /\ view' = [view EXCEPT !.fetches = @ \ {f}, !.failed = @ \cup {f.scope}]

----------------------------------------------------------------------------
(* Preview and transfer.                                                   *)

PreviewOffered(mode) ==
  /\ AtPage /\ Shown /\ ~Completed /\ Target # None /\ view.preview = None
  /\ IF mode = "selected" THEN Picked # {} ELSE view.super

OpenPreview(mode) ==
  /\ Click /\ PreviewOffered(mode)
  /\ view' = [view EXCEPT
       !.preview = [batch |-> view.batch, target |-> Target, mode |-> mode, answer |-> <<>>,
                    ids |-> IF mode = "selected" THEN Picked ELSE {}],
       !.error = "none"]

Counted(w, p) == IF p.mode = "selected" THEN Pending(w, p.batch) \cap p.ids ELSE Pending(w, p.batch)

PreviewTaken ==
  /\ Served /\ view.preview # None /\ view.preview.answer = <<>>
  /\ view' = [view EXCEPT !.preview.answer =
                <<[version |-> world.version[view.preview.batch], counted |-> Counted(world, view.preview)]>>]
  /\ UNCHANGED world

\* The request of the click, not of the page as it is by now, with a key of its own.
RequestOf(v, p) ==
  [batch |-> p.batch, target |-> p.target, mode |-> p.mode, ids |-> p.ids,
   version |-> p.answer[1].version, key |-> v.keys]

PreviewShown ==
  /\ Told /\ view.preview # None /\ view.preview.answer # <<>>
  /\ view' = [view EXCEPT !.preview = None, !.keys = @ + 1,
                !.dialog = [request |-> RequestOf(view, view.preview),
                            counted |-> view.preview.answer[1].counted]]

PreviewFails == Told /\ view.preview # None /\ view' = [view EXCEPT !.preview = None]

\* The employee the dialog names is the one chosen on the page behind it.
ConfirmOffered ==
  view.dialog # None /\ view.sending = None /\ Target # None /\ view.dialog.counted # {}

CloseDialog(v) == [v EXCEPT !.dialog = None, !.error = "none"]

\* Not while the transfer is under way.
CancelTransfer == Click /\ view.dialog # None /\ view.sending = None /\ view' = CloseDialog(view)

\* The request is kept as it is: what is sent again is the same.
Sent(v) == [v EXCEPT !.sending = [answer |-> <<>>], !.error = "none"]

ConfirmTransfer == Click /\ ConfirmOffered /\ view' = Sent(view)

TransferAnswered(a) == view' = [view EXCEPT !.sending.answer = <<a>>] /\ UNCHANGED world

\* Only a super administrator may hand over the last of a batch.
Refused(r) ==
  /\ ~view.super
  /\ \/ r.mode = "all_remaining"
     \/ Pending(world, r.batch) # {} /\ Pending(world, r.batch) \subseteq r.ids

\* POST .../transfers: a key seen before is answered as it was.
TransferTaken ==
  /\ Served /\ view.sending # None /\ view.sending.answer = <<>>
  /\ LET r == view.dialog.request
         moved == Counted(world, r)
     IN  IF Refused(r) THEN TransferAnswered("refused")
         ELSE IF \E t \in world.transfers : t.key = r.key THEN TransferAnswered("ok")
         ELSE IF r.version # world.version[r.batch] \/ moved = {} THEN TransferAnswered("conflict")
         ELSE /\ view' = [view EXCEPT !.sending.answer = <<"ok">>]
              /\ world' = [world EXCEPT !.version[r.batch] = @ + 1,
                             !.holder = [s \in Leaving |-> IF s \in moved THEN r.target ELSE @[s]],
                             !.transfers = @ \cup {[key |-> r.key, target |-> r.target, moved |-> moved]}]

\* Every scope of the batch is stale; the one on screen is fetched again.
Invalidated(v, b) ==
  LET stale == [v EXCEPT !.stale = @ \cup {c \in Scopes : c[1] = b}]
  IN  IF b = v.batch THEN Refetched(stale, <<v.batch, v.filter>>) ELSE stale

TransferDone ==
  /\ Told /\ view.sending # None /\ view.sending.answer = <<"ok">>
  /\ view' = Invalidated([CloseDialog(view) EXCEPT !.sending = None,
                            !.picked = [scope |-> Scope, ids |-> {}]], view.dialog.request.batch)

\* Mutant: the dialog stays, with the version the service has now.
ConflictKept(v) ==
  Refetched([v EXCEPT !.dialog.request.version = world.version[v.dialog.request.batch]], <<v.batch, v.filter>>)

\* A conflict closes the dialog and says that the data changed: the transfer is
\* to be previewed again.
Conflicted(v) ==
  Refetched([CloseDialog(v) EXCEPT !.picked = [scope |-> <<v.batch, v.filter>>, ids |-> {}]], <<v.batch, v.filter>>)

TransferConflicts ==
  /\ Told /\ view.sending # None /\ view.sending.answer = <<"conflict">>
  /\ view' = [Conflicted(view) EXCEPT !.sending = None]

TransferRefused ==
  /\ Told /\ view.sending # None /\ view.sending.answer = <<"refused">>
  /\ view' = [view EXCEPT !.sending = None, !.error = "refused"]

TransferLost ==
  /\ Told /\ view.sending # None
  /\ view' = [view EXCEPT !.sending = None, !.error = "unknown"]

\* Another administrator hands a student over.
OthersTransfer(s, a) ==
  /\ Elsewhere /\ world.holder[s] = None
  /\ world' = [world EXCEPT !.holder[s] = a, !.version[BatchOf(s)] = @ + 1]
  /\ UNCHANGED view

HandoverNext ==
  \/ \E b \in Batches : SelectBatch(b)
  \/ \E f \in {"all", "pending"} : ChangeFilter(f)
  \/ \E s \in Leaving : TickRow(s)
  \/ \E a \in Staff : ChooseTarget(a)
  \/ \E m \in {"selected", "all_remaining"} : OpenPreview(m)
  \/ \E f \in view.fetches : FetchTaken(f) \/ FetchShown(f) \/ FetchFails(f)
  \/ \E s \in Leaving, a \in Staff : OthersTransfer(s, a)
  \/ RefreshDetail \/ TickRows \/ CancelTransfer \/ ConfirmTransfer
  \/ PreviewTaken \/ PreviewShown \/ PreviewFails
  \/ TransferTaken \/ TransferDone \/ TransferConflicts \/ TransferRefused \/ TransferLost

=============================================================================
