---------------------------- MODULE HandledLists ----------------------------
(***************************************************************************)
(* The list of handled students, twice: on the phone (PendingList of       *)
(* pages/mobile/MobileHome.jsx) and at the desk                            *)
(* (pages/agent/desktop/HandledView.jsx).  Both load a page at a time,     *)
(* both are reloaded by events of the private groups, both let a selection *)
(* of rows join a group.  Only the group filter is told apart.             *)
(***************************************************************************)
EXTENDS PersonalGroups

VARIABLE saved  \* sessionStorage: the phone's list as it was left for a student

lists == <<filter, list, saved>>

RequestOf(kind, f, offset, limit) ==
  [kind |-> kind, filter |-> f, offset |-> offset, limit |-> limit, answer |-> <<>>,
   doubt |-> {}]

\* A request makes the older ones of its list count no more.
Superseded(reqs) == {}

Ask(l, r) == [l EXCEPT !.reqs = Superseded(@) \cup {r}]

Emptied == [rows |-> <<>>, total |-> 0, loading |-> TRUE, more |-> FALSE, error |-> FALSE,
            timer |-> FALSE, picking |-> FALSE, picked |-> {}, reqs |-> {},
            of |-> "all", seen |-> <<>>, steady |-> TRUE, doubt |-> {}]

\* GET /tasks/handled: a page, and how many there are.  seen, steady, of and
\* doubt tell the properties which students the rows were cut from.
ListTaken(r) ==
  /\ r \in list.reqs /\ r.answer = <<>>
  /\ LET all == HandledAnswer(r.filter)
         till == IF r.offset + r.limit < Len(all) THEN r.offset + r.limit ELSE Len(all)
     IN  list' = [list EXCEPT !.reqs = (@ \ {r}) \cup {[r EXCEPT !.answer =
            <<[rows |-> SubSeq(all, r.offset + 1, till), total |-> Len(all), seen |-> all]>>,
              !.doubt = {}]}]
  /\ UNCHANGED <<page, clicks, server, hook, filter, saved, bulk, editor>>

FirstPage(l, r) ==
  LET a == r.answer[1]
  IN  [l EXCEPT !.rows = a.rows, !.total = a.total, !.of = r.filter, !.seen = a.seen,
                !.steady = TRUE, !.doubt = r.doubt, !.reqs = @ \ {r}]

\* A further page, of which rows are appended.
NextPage(l, r, rows) ==
  LET a == r.answer[1]
  IN  [l EXCEPT !.rows = @ \o rows, !.total = a.total, !.reqs = @ \ {r},
                !.of = IF r.filter = @ THEN @ ELSE "mixed", !.doubt = @ \cup r.doubt,
                !.steady = @ /\ a.seen = l.seen /\ r.filter = l.of]

Minus(rows, ids) ==
  LET kept == InOrder({i \in DOMAIN rows : rows[i] \notin ids})
  IN  [n \in DOMAIN kept |-> rows[kept[n]]]

\* What onApplied does to an ungrouped list.
Taken(l, ids) ==
  [l EXCEPT !.rows = Minus(@, ids), !.seen = Minus(@, ids),
            !.total = IF @ > Cardinality(ids) THEN @ - Cardinality(ids) ELSE 0,
            !.steady = @ /\ ids \subseteq ToSet(l.seen)]

----------------------------------------------------------------------------
(* The phone.                                                              *)

\* A load of the list: of the same view, or of one just chosen.
PhoneLoad(l, f, same) ==
  LET n == IF ~same \/ Len(l.rows) < PhonePage THEN PhonePage
           ELSE IF Len(l.rows) < 2 * PhonePage THEN Len(l.rows) ELSE 2 * PhonePage
  IN  Ask([l EXCEPT !.rows = IF same THEN @ ELSE <<>>, !.more = FALSE, !.error = FALSE,
                    !.loading = ~same \/ l.rows = <<>>],
          RequestOf("first", f, 0, n))

\* The rows left behind come back when they are of the filter kept.
PhoneRestored ==
  IF saved # None /\ saved.filter = filter /\ saved.rows # <<>>
  THEN [Emptied EXCEPT !.rows = saved.rows, !.total = saved.total, !.of = "mixed",
                       !.steady = FALSE]
  ELSE Emptied

PhoneListOpens ==
  /\ hook' = HookOpens
  /\ filter' = IF Dropped(hook') THEN "all" ELSE filter
  /\ list' = PhoneLoad(PhoneRestored, filter', TRUE)

\* Where the rows are seen.
PhoneSees == page = "pending" /\ ~list.loading /\ ~list.error /\ list.rows # <<>>

\* Another filter drops the selection and the rows.
PhoneFiltered(f) == PhoneLoad([list EXCEPT !.picking = FALSE, !.picked = {}], f, FALSE)

PhoneChoose(f) ==
  /\ page = "pending" /\ Click
  /\ f # filter /\ f \in {"all", "ungrouped"} \cup hook.groups
  /\ filter' = f
  /\ list' = PhoneFiltered(f)
  /\ saved' = None
  /\ UNCHANGED <<page, server, hook, bulk, editor>>

PhoneRetry ==
  /\ page = "pending" /\ Click /\ list.error
  /\ list' = PhoneLoad(list, filter, TRUE)
  /\ UNCHANGED <<page, server, hook, filter, saved, bulk, editor>>

PhoneFirstShown(r) ==
  /\ page = "pending" /\ r \in list.reqs /\ r.kind = "first" /\ r.answer # <<>>
  /\ list' = [FirstPage(list, r) EXCEPT !.loading = FALSE]
  /\ UNCHANGED <<page, clicks, server, hook, filter, saved, bulk, editor>>

PhoneMore ==
  /\ PhoneSees /\ Click /\ ~list.more /\ Len(list.rows) < list.total
  /\ list' = Ask([list EXCEPT !.more = TRUE],
                 RequestOf("more", filter, Len(list.rows), PhonePage))
  /\ UNCHANGED <<page, server, hook, filter, saved, bulk, editor>>

NewRows(l, r) == Minus(r.answer[1].rows, ToSet(l.rows))

PhoneMoreShown(r) ==
  /\ page = "pending" /\ r \in list.reqs /\ r.kind = "more" /\ r.answer # <<>>
  /\ list' = [NextPage(list, r, NewRows(list, r)) EXCEPT !.more = FALSE]
  /\ UNCHANGED <<page, clicks, server, hook, filter, saved, bulk, editor>>

PhoneListFails(r) ==
  /\ page = "pending" /\ r \in list.reqs
  /\ list' = [list EXCEPT !.error = TRUE, !.reqs = @ \ {r},
                          !.loading = @ /\ r.kind # "first", !.more = @ /\ r.kind # "more"]
  /\ UNCHANGED <<page, clicks, server, hook, filter, saved, bulk, editor>>

PhonePickMode ==
  /\ page = "pending" /\ Click
  /\ list' = [list EXCEPT !.picking = ~@, !.picked = {}]
  /\ UNCHANGED <<page, server, hook, filter, saved, bulk, editor>>

PhonePick(s) ==
  /\ PhoneSees /\ list.picking /\ s \in ToSet(list.rows) /\ Click
  /\ list' = [list EXCEPT !.picked = IF s \in @ THEN @ \ {s} ELSE @ \cup {s}]
  /\ UNCHANGED <<page, server, hook, filter, saved, bulk, editor>>

PhonePickAll ==
  /\ PhoneSees /\ list.picking /\ Click
  /\ LET all == ToSet(list.rows)
     IN  list' = [list EXCEPT !.picked = IF all \subseteq @ THEN @ \ all ELSE @ \cup all]
  /\ UNCHANGED <<page, server, hook, filter, saved, bulk, editor>>

\* handleBulkApplied, with the filter and the selection the bar started with.
PhoneApplied(l, b) ==
  LET done == [l EXCEPT !.picking = FALSE, !.picked = {}]
  IN  IF b.filter = "ungrouped" THEN Taken(done, b.all) ELSE done

\* handleGroupChange: a change of members, or of the group chosen.
PhoneTold(l, members, g) ==
  IF members \/ g = filter THEN PhoneLoad(l, filter, TRUE) ELSE l

----------------------------------------------------------------------------
(* The desk.                                                               *)

DeskListOpens == [Emptied EXCEPT !.timer = TRUE]

DeskSees == page = "handled" /\ ~list.loading /\ list.rows # <<>>

\* fetchData(..., reset).
DeskLoad(l, f) == Ask([l EXCEPT !.loading = TRUE], RequestOf("first", f, 0, DeskPage))

\* Another filter drops the selection; the rows stay until the timer asks.
DeskFiltered == [list EXCEPT !.picking = FALSE, !.picked = {}, !.timer = TRUE]

DeskChoose(f) ==
  /\ page = "handled" /\ Click
  /\ f # filter /\ f \in {"all", "ungrouped"} \cup hook.groups
  /\ filter' = f
  /\ list' = DeskFiltered
  /\ UNCHANGED <<page, server, hook, saved, bulk, editor>>

DeskTimer ==
  /\ page = "handled" /\ list.timer
  /\ list' = [DeskLoad(list, filter) EXCEPT !.timer = FALSE]
  /\ UNCHANGED <<page, clicks, server, hook, filter, saved, bulk, editor>>

DeskMore ==
  /\ DeskSees /\ Click /\ ~list.more /\ Len(list.rows) < list.total
  /\ list' = Ask([list EXCEPT !.more = TRUE],
                 RequestOf("more", filter, Len(list.rows), DeskPage))
  /\ UNCHANGED <<page, server, hook, filter, saved, bulk, editor>>

\* The answer that counts ends both spinners, whichever it was for.
Spun(l) == [l EXCEPT !.loading = FALSE, !.more = FALSE]

DeskShown(r) ==
  /\ page = "handled" /\ r \in list.reqs /\ r.answer # <<>>
  /\ list' = Spun(IF r.kind = "first" THEN FirstPage(list, r)
                  ELSE NextPage(list, r, r.answer[1].rows))
  /\ UNCHANGED <<page, clicks, server, hook, filter, saved, bulk, editor>>

DeskListFails(r) ==
  /\ page = "handled" /\ r \in list.reqs
  /\ list' = Spun([list EXCEPT !.reqs = @ \ {r}])
  /\ UNCHANGED <<page, clicks, server, hook, filter, saved, bulk, editor>>

DeskPickMode ==
  /\ page = "handled" /\ Click
  /\ list' = [list EXCEPT !.picking = ~@, !.picked = {}]
  /\ UNCHANGED <<page, server, hook, filter, saved, bulk, editor>>

DeskPick(s) ==
  /\ DeskSees /\ list.picking /\ s \in ToSet(list.rows) /\ Click
  /\ list' = [list EXCEPT !.picked = IF s \in @ THEN @ \ {s} ELSE @ \cup {s}]
  /\ UNCHANGED <<page, server, hook, filter, saved, bulk, editor>>

DeskPickAll ==
  /\ page = "handled" /\ list.picking /\ Click
  /\ LET all == ToSet(list.rows)
     IN  list' = [list EXCEPT !.picked = IF all # {} /\ all \subseteq @ THEN @ \ all ELSE @ \cup all]
  /\ UNCHANGED <<page, server, hook, filter, saved, bulk, editor>>

\* Mutant: the rows that joined stay on an ungrouped list.
AppliedNot(l, b) == [l EXCEPT !.picking = FALSE, !.picked = {}]

DeskApplied(l, b) ==
  LET done == [l EXCEPT !.picking = FALSE, !.picked = {}]
  IN  IF b.filter = "ungrouped" THEN Taken(done, b.all) ELSE done

DeskTold(l, members, g) == IF members \/ g = filter THEN DeskLoad(l, filter) ELSE l
=============================================================================
