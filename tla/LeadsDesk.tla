------------------------------ MODULE LeadsDesk ------------------------------
(***************************************************************************)
(* The desk of leads (pages/admin/LeadsManage.jsx and leads/): a filtered  *)
(* and paged list whose rows are ticked and assigned, unfolded, changed,   *)
(* deleted and enrolled, and the dispatch of a school's leads.  A load     *)
(* asks with the filters and the page of the click that caused it, and the *)
(* answers are shown as they come.                                         *)
(***************************************************************************)
EXTENDS Console

CONSTANTS Pupils,      \* the leads there are or may be (numbers)
          PageSize,    \* rows of a page
          RegionOf(_), \* where each of them lives; each region has one school
          Callers      \* the employees leads are assigned to

Regions == {RegionOf(p) : p \in Pupils}

Kept == [status |-> "open", owner |-> None]

Passing(w, q) ==
  {p \in Pupils : w[p].status # "gone" /\ (q.status = "all" \/ w[p].status = q.status)
                  /\ (q.search = "" \/ RegionOf(p) = q.search)}

\* GET /students: the rows of a page, and how many there are.
Listed(w, q) ==
  LET passing == Passing(w, q)
      rank(p) == Cardinality({o \in passing : o < p})
  IN  [total |-> Cardinality(passing),
       rows |-> [p \in {o \in passing : rank(o) \div PageSize = q.page - 1} |-> w[p]]]

Query(v, p) == [status |-> v.status, search |-> v.search, page |-> p]

SendLead(v, kind, of) == [v EXCEPT !.reqs = Ask(@, kind, of)]

Panel(is, lead) == [is |-> is, lead |-> lead]

FetchStudents(v, q) == SendLead([v EXCEPT !.loading = TRUE], "students", q)

\* The regions with leads that nobody has.
Dispatchable(w) == {RegionOf(p) : p \in {q \in Pupils : w[q].status = "open" /\ w[q].owner = None}}

NoDispatch == [open |-> FALSE, loading |-> FALSE, regions |-> {}, offered |-> {}, schools |-> {},
               school |-> None, listing |-> FALSE, req |-> 0, to |-> {}, failed |-> FALSE]

\* The page with its first rows; or with rows ticked, the dialog to assign them
\* open and the list being loaded again after a change; or with a row unfolded;
\* or with the dispatch of schools open, untouched or filled in.
LeadsOpens ==
  /\ \E a \in Callers, third \in {"open", "gone"} :
       world = [p \in Pupils |-> [status |-> IF p = 3 THEN third ELSE "open",
                                  owner |-> IF p = 1 THEN a ELSE None]]
  /\ LET first == Listed(world, [status |-> "all", search |-> "", page |-> 1])
         opened == [status |-> "all", search |-> "", page |-> 1, rows |-> first.rows, total |-> first.total,
                    loading |-> FALSE, picked |-> {}, unfolded |-> None,
                    panels |-> [p \in Pupils |-> Panel("none", Kept)], assign |-> None, dispatch |-> NoDispatch,
                    forms |-> {}, asking |-> None, note |-> {}, busy |-> {}, away |-> FALSE, reqs |-> {}]
     IN  \/ view = opened
         \/ \E a \in Callers, ids \in SUBSET DOMAIN first.rows \ {{}} :
              view = FetchStudents([opened EXCEPT !.picked = ids, !.assign = [to |-> a]], Query(opened, 1))
         \/ view = [opened EXCEPT !.unfolded = 1, !.panels[1] = Panel("filled", world[1])]
         \/ view = [opened EXCEPT !.dispatch.open = TRUE, !.dispatch.offered = Dispatchable(world)]
         \/ \E g \in Dispatchable(world), a \in Callers :
              view = [opened EXCEPT !.dispatch = [NoDispatch EXCEPT !.open = TRUE, !.offered = Dispatchable(world),
                        !.regions = {g}, !.schools = {g}, !.school = g, !.req = 1, !.to = {a}]]

\* Dialogs lie over the page.
Free == ~view.away /\ view.asking = None /\ view.forms = {}
AtDesk == Free /\ view.assign = None /\ ~view.dispatch.open
ShownRows == IF view.loading THEN {} ELSE DOMAIN view.rows
Status(p) == view.rows[p].status

\* What a row, or a card on a phone, can be clicked on for; the menus of a lead
\* are not offered once it has enrolled.
InRow(p) == AtDesk /\ p \in ShownRows
RowMenus(p) == InRow(p) /\ Status(p) # "enrolled"

----------------------------------------------------------------------------
(* Filters, pages and ticks.                                               *)

\* A filter other than the search loads its first page by itself.
SetStatus(s) ==
  /\ Click /\ AtDesk /\ s # view.status
  /\ view' = LET v == [view EXCEPT !.status = s, !.page = 1] IN FetchStudents(v, Query(v, 1))

\* A typed search waits for the button, or for any other load.
TypeSearch(q) == Click /\ AtDesk /\ q # view.search /\ view' = [view EXCEPT !.search = q]

HandleSearch == Click /\ AtDesk /\ view' = FetchStudents([view EXCEPT !.page = 1], Query(view, 1))

ClearSearch ==
  /\ Click /\ AtDesk /\ view.search # ""
  /\ view' = LET v == [view EXCEPT !.search = "", !.page = 1] IN FetchStudents(v, Query(v, 1))

\* One load of its own, and one more by the filters that changed.
ClearAllFilters ==
  /\ Click /\ AtDesk /\ (view.search # "" \/ view.status # "all")
  /\ LET v == [view EXCEPT !.search = "", !.status = "all", !.page = 1]
         cleared == FetchStudents(v, Query(v, 1))
     IN  view' = IF view.status = "all" THEN cleared ELSE FetchStudents(cleared, Query(v, 1))

\* The bars over an unfiltered list lead to a filtered one.
StageBar(s) ==
  /\ Click /\ AtDesk /\ view.status = "all" /\ view.search = "" /\ s # "all"
  /\ view' = LET v == [view EXCEPT !.status = s, !.page = 1] IN FetchStudents(v, Query(v, 1))

TurnPage(p) ==
  /\ Click /\ AtDesk
  /\ (p = view.page - 1 /\ p >= 1) \/ (p = view.page + 1 /\ view.page * PageSize < view.total)
  /\ view' = FetchStudents([view EXCEPT !.page = p], Query(view, p))

ToggleSel(p) == Click /\ InRow(p) /\ view' = [view EXCEPT !.picked = Flip(@, p)]

\* By the number of what is ticked.  The button stays while the rows load.
ToggleAll ==
  /\ Click /\ AtDesk
  /\ view' = [view EXCEPT !.picked =
                IF Cardinality(@) = Cardinality(DOMAIN view.rows) THEN {} ELSE DOMAIN view.rows]

StudentsTaken(r) == r.kind = "students" /\ Answered(r, Listed(world, r.of)) /\ UNCHANGED world

\* Every answer is shown, and takes the ticks away.
ListShown(v, a) == [v EXCEPT !.rows = a.rows, !.total = a.total, !.loading = FALSE, !.picked = {}]

StudentsShown(r) == Came(r, "students") /\ view' = ListShown(Without(view, r), r.answer[1])

\* The old rows stay under the new filters.
StudentsFail(r) == Failed(r, "students") /\ view' = [Without(view, r) EXCEPT !.loading = FALSE]

----------------------------------------------------------------------------
(* The unfolded row.                                                       *)

LoadExpandData(v, p, force) ==
  SendLead(IF force \/ v.panels[p].is \in {"none", "error"}
           THEN [v EXCEPT !.panels[p].is = "loading"] ELSE v, "panel", p)

ToggleExpand(p) ==
  /\ Click /\ InRow(p)
  /\ view' = IF view.unfolded = p THEN [view EXCEPT !.unfolded = None]
             ELSE IF view.panels[p].is = "none"
             THEN LoadExpandData([view EXCEPT !.unfolded = p], p, FALSE)
             ELSE [view EXCEPT !.unfolded = p]

PanelOpen(p) == InRow(p) /\ view.unfolded = p
PanelFilled(p) == PanelOpen(p) /\ view.panels[p].is = "filled"

ReloadPanel(p) ==
  Click /\ PanelOpen(p) /\ view.panels[p].is = "error" /\ view' = LoadExpandData(view, p, FALSE)

PanelTaken(r) == r.kind = "panel" /\ Answered(r, world[r.of]) /\ UNCHANGED world

PanelShown(r) == Came(r, "panel") /\ view' = [Without(view, r) EXCEPT !.panels[r.of] = Panel("filled", r.answer[1])]

PanelFails(r) == Failed(r, "panel") /\ view' = [Without(view, r) EXCEPT !.panels[r.of].is = "error"]

RefreshExpand(v, p) == IF p = None THEN v ELSE LoadExpandData(v, p, TRUE)

----------------------------------------------------------------------------
(* Changes.  A change remembers the load and the panel of its click; one   *)
(* of a "detail" is of what the list does not tell leads apart by.         *)

Change(v, what, ids) ==
  [what |-> what, ids |-> ids, query |-> Query(v, v.page), panel |-> v.unfolded, to |-> None]

Write(what, p) == view' = SendLead(view, "change", Change(view, what, {p}))
AskFirst(of) == view' = [view EXCEPT !.asking = of]

\* Only a lead given up is asked about.
QuickStatus(p, s) ==
  /\ Click /\ RowMenus(p)
  /\ IF s = "invalid" THEN AskFirst(Change(view, "invalid", {p})) ELSE Write("detail", p)

QuickStage(p) == Click /\ RowMenus(p) /\ Write("detail", p)

QuickIntent(p) == Click /\ PanelFilled(p) /\ Write("detail", p)

RequestDelete(p) == Click /\ InRow(p) /\ AskFirst(Change(view, "delete", {p}))

RequestInvalidateEnrolled(p) ==
  Click /\ PanelFilled(p) /\ view.panels[p].lead.status = "enrolled" /\ AskFirst(Change(view, "invalidate", {p}))

TypeNote(p) == Click /\ PanelFilled(p) /\ p \notin view.note /\ view' = [view EXCEPT !.note = @ \cup {p}]

AddNote(p) == Click /\ PanelFilled(p) /\ p \in view.note /\ Write("note", p)

AddFollowUp(p) == Click /\ PanelFilled(p) /\ Write("follow_up", p)

\* The buttons that are off while their request is under way.
Guarded(p, what) ==
  /\ Click /\ PanelFilled(p) /\ what \notin view.busy
  /\ view' = SendLead([view EXCEPT !.busy = @ \cup {what}], "change", Change(view, what, {p}))

CreateHomeVisitTask(p) == Guarded(p, "home")

CreateCampusVisitTask(p) == Guarded(p, "campus")

HandleSubstageChange(p) ==
  Click /\ PanelFilled(p) /\ view.panels[p].lead.status = "enrolled" /\ Write("detail", p)

ToggleNeedHelp(p) == Click /\ PanelFilled(p) /\ Write("detail", p)

\* One lead from its panel, without a question.
HandleAssignAgent(p, a) ==
  /\ Click /\ PanelFilled(p)
  /\ view' = SendLead(view, "change", [Change(view, "assign_one", {p}) EXCEPT !.to = a])

OpenAssign == Click /\ AtDesk /\ view.picked # {} /\ view' = [view EXCEPT !.assign = [to |-> None]]

ChooseAgent(a) == Click /\ Free /\ view.assign # None /\ a # view.assign.to /\ view' = [view EXCEPT !.assign.to = a]

CloseAssign == Click /\ Free /\ view.assign # None /\ view' = [view EXCEPT !.assign = None]

\* Not when a row on screen says that one of them has enrolled.
HandleAssign ==
  /\ Click /\ Free /\ view.assign # None /\ view.assign.to # None /\ view.picked # {}
  /\ \A p \in view.picked \cap DOMAIN view.rows : Status(p) # "enrolled"
  /\ AskFirst([Change(view, "assign", view.picked) EXCEPT !.to = view.assign.to])

\* Mutant: the ticks are read when the question has been answered.
SaidNow(v) == IF v.asking.what = "assign" THEN [v.asking EXCEPT !.ids = v.picked] ELSE v.asking

\* What is sent is what the question was about.
Said(v) == v.asking

ConfirmChange ==
  /\ Click /\ view.asking # None
  /\ view' = SendLead([view EXCEPT !.asking = None],
                      IF view.asking.what = "dispatch" THEN "dispatch" ELSE "change", Said(view))

\* A status that is not given its reason is taken back by a load.
CancelChange ==
  /\ Click /\ view.asking # None
  /\ LET v == [view EXCEPT !.asking = None]
     IN  view' = IF view.asking.what = "invalid" THEN FetchStudents(v, view.asking.query) ELSE v

Form(what, p, owner) == [what |-> what, of |-> p, owner |-> owner]

OpenCreate == Click /\ AtDesk /\ view' = [view EXCEPT !.forms = {Form("create", None, None)}]

OpenImport == Click /\ AtDesk /\ view' = [view EXCEPT !.forms = {Form("import", None, None)}]

\* The form opens when the telephone numbers have come, whatever is on screen.
OpenEditStudent(p) == Click /\ PanelFilled(p) /\ view' = SendLead(view, "phones", p)

PhonesTaken(r) == r.kind = "phones" /\ Answered(r, "known") /\ UNCHANGED world

PhonesShown(r) ==
  /\ Came(r, "phones")
  /\ view' = [Without(view, r) EXCEPT
                !.forms = {f \in @ : f.what # "edit"} \cup {Form("edit", r.of, None)}]

PhonesFail(r) == Failed(r, "phones") /\ view' = Without(view, r)

OpenEnrollment(p) ==
  /\ Click /\ PanelFilled(p) /\ view.panels[p].lead.status # "enrolled"
  /\ view' = [view EXCEPT !.forms = {Form("enroll", p, view.panels[p].lead.owner)}]

CloseLeadForm(f) ==
  /\ Click /\ f \in view.forms /\ (f.what = "enroll" => "enroll" \notin view.busy)
  /\ view' = [view EXCEPT !.forms = @ \ {f}]

\* Enrolling and importing are off while under way; creating and editing are not.
SubmitForm(f) ==
  /\ Click /\ f \in view.forms /\ f.what \notin view.busy
  /\ f.what = "enroll" => f.owner # None
  /\ LET ids == IF f.of = None THEN {} ELSE {f.of}
         v == IF f.what \in {"enroll", "import"} THEN [view EXCEPT !.busy = @ \cup {f.what}] ELSE view
     IN  view' = SendLead(v, "change", Change(view, f.what, ids))

\* What the service makes of a change.
Effects(w, c) ==
  LET with(p, field) == [w EXCEPT ![p] = field @@ @]
  IN  CASE c.what \in {"create", "import"} -> {with(p, Kept) : p \in {q \in Pupils : w[q].status = "gone"}}
        [] c.what \in {"assign", "assign_one"} -> IF \E p \in c.ids : w[p].status # "open" THEN {}
                                ELSE {[p \in Pupils |-> IF p \in c.ids THEN [w[p] EXCEPT !.owner = c.to] ELSE w[p]]}
        [] c.what = "invalid" -> {with(p, [status |-> "invalid"]) : p \in {q \in c.ids : w[q].status = "open"}}
        [] c.what = "invalidate" -> {with(p, [status |-> "invalid"]) : p \in {q \in c.ids : w[q].status = "enrolled"}}
        [] c.what = "enroll" -> {with(p, [status |-> "enrolled"]) :
                                   p \in {q \in c.ids : w[q].status = "open" /\ w[q].owner # None}}
        [] c.what = "delete" -> {with(p, [status |-> "gone", owner |-> None]) : p \in c.ids}
        [] OTHER -> IF \E p \in c.ids : w[p].status = "gone" THEN {} ELSE {w}

ChangeTaken(r) ==
  r.kind = "change" /\ Answered(r, "ok") /\ world' \in Effects(world, r.of)

\* Refused in words.
ChangeRefused(r) ==
  r.kind = "change" /\ Effects(world, r.of) = {} /\ Answered(r, "refused") /\ UNCHANGED world

\* The other handlers take a refusal in words for success.
Heard == {"create", "import", "enroll"}

\* The flag of the handler is put down, its dialog closed, and the list and the
\* panel of the click are loaded again.
Done(v, of) ==
  LET closed == CASE of.what \in {"create", "edit", "enroll"} ->
                       [v EXCEPT !.forms = {f \in @ : f.what # of.what}]
                  [] of.what = "assign" -> [v EXCEPT !.assign = None]
                  [] of.what = "note" -> [v EXCEPT !.note = @ \ of.ids]
                  [] of.what \in {"delete", "invalidate"} /\ of.panel \in of.ids ->
                       [v EXCEPT !.unfolded = None]
                  [] OTHER -> v
      loaded == IF of.what \in {"note", "follow_up"} THEN closed ELSE FetchStudents(closed, of.query)
      fresh == IF of.what \in {"follow_up", "delete", "invalidate", "create", "import"} THEN loaded
               ELSE RefreshExpand(loaded, of.panel)
  IN  [fresh EXCEPT !.busy = @ \ {of.what}, !.away = of.what \in {"home", "campus"}]

ChangeDone(r) ==
  /\ Came(r, "change") /\ (r.answer = <<"ok">> \/ r.of.what \notin Heard)
  /\ view' = Done(Without(view, r), r.of)

ChangeFails(r) ==
  Failed(r, "change") /\ view' = [Without(view, r) EXCEPT !.busy = @ \ {r.of.what}]

----------------------------------------------------------------------------
(* The dispatch of a school.                                               *)

Dispatching == Free /\ view.dispatch.open

\* Loads of schools that were under way keep their number.
HandleRegionAssign ==
  /\ Click /\ AtDesk
  /\ view' = SendLead([view EXCEPT !.dispatch = [NoDispatch EXCEPT
                         !.open = TRUE, !.loading = TRUE, !.listing = view.dispatch.listing,
                         !.req = view.dispatch.req]], "regions", None)

RegionsTaken(r) ==
  /\ r.kind = "regions"
  /\ Answered(r, Dispatchable(world))
  /\ UNCHANGED world

RegionsShown(r) ==
  Came(r, "regions") /\ view' = [Without(view, r) EXCEPT !.dispatch.offered = r.answer[1], !.dispatch.loading = FALSE]

RegionsFail(r) == Failed(r, "regions") /\ view' = [Without(view, r) EXCEPT !.dispatch.loading = FALSE]

CloseDispatch == Click /\ Dispatching /\ view' = [view EXCEPT !.dispatch.open = FALSE]

\* The schools of the regions ticked are loaded at every tick.
ToggleRegion(g) ==
  /\ Click /\ Dispatching /\ ~view.dispatch.loading /\ g \in view.dispatch.offered
  /\ LET d == [view.dispatch EXCEPT !.regions = Flip(@, g)]
     IN  view' = IF d.regions = {} THEN [view EXCEPT !.dispatch = [d EXCEPT !.schools = {}, !.school = None]]
                 ELSE SendLead([view EXCEPT !.dispatch = [d EXCEPT !.req = @ + 1, !.listing = TRUE]],
                               "schools", [regions |-> d.regions, req |-> d.req + 1])

SchoolsTaken(r) == r.kind = "schools" /\ Answered(r, r.of.regions) /\ UNCHANGED world

\* Only the answer to the last tick is shown.
Current(v, r) == r.of.req = v.dispatch.req

SchoolsShown(r) ==
  /\ Came(r, "schools")
  /\ LET v == Without(view, r)
     IN  view' = IF Current(v, r)
                 THEN [v EXCEPT !.dispatch.schools = r.answer[1], !.dispatch.listing = FALSE,
                                !.dispatch.failed = FALSE,
                                !.dispatch.school = IF @ \in r.answer[1] THEN @ ELSE None]
                 ELSE v

SchoolsFail(r) ==
  /\ Failed(r, "schools")
  /\ LET v == Without(view, r)
     IN  view' = IF Current(v, r) THEN [v EXCEPT !.dispatch.listing = FALSE, !.dispatch.failed = TRUE] ELSE v

ChooseSchool(s) ==
  /\ Click /\ Dispatching /\ view.dispatch.regions # {} /\ ~view.dispatch.listing
  /\ s \in view.dispatch.schools /\ s # view.dispatch.school
  /\ view' = [view EXCEPT !.dispatch.school = s]

ToggleAgent(a) == Click /\ Dispatching /\ view' = [view EXCEPT !.dispatch.to = Flip(@, a)]

SchoolAssign ==
  /\ Click /\ Dispatching /\ ~view.dispatch.loading /\ ~view.dispatch.listing
  /\ view.dispatch.regions # {} /\ view.dispatch.school # None /\ view.dispatch.to # {}
  /\ AskFirst([Change(view, "dispatch", {}) EXCEPT !.to = view.dispatch.to]
       @@ [school |-> view.dispatch.school, regions |-> view.dispatch.regions])

\* POST /students/school-assign: the leads of the school nobody has.
DispatchTaken(r) ==
  /\ r.kind = "dispatch"
  /\ LET lent == {p \in Pupils : RegionOf(p) = r.of.school /\ r.of.school \in r.of.regions
                                 /\ world[p].status = "open" /\ world[p].owner = None}
     IN  IF lent = {} THEN Answered(r, "refused") /\ UNCHANGED world
         ELSE /\ Answered(r, "ok")
              /\ \E to \in [lent -> r.of.to] :
                   world' = [p \in Pupils |-> IF p \in lent THEN [world[p] EXCEPT !.owner = to[p]] ELSE world[p]]

DispatchDone(r) ==
  /\ Came(r, "dispatch") /\ r.answer = <<"ok">>
  /\ view' = RefreshExpand(FetchStudents([Without(view, r) EXCEPT !.dispatch.open = FALSE], r.of.query), r.of.panel)

DispatchFails(r) == Failed(r, "dispatch") /\ view' = Without(view, r)

OthersEnroll(p) ==
  /\ Elsewhere /\ world[p].status = "open"
  /\ world' = [world EXCEPT ![p].status = "enrolled"] /\ UNCHANGED view

LeadsNext ==
  \/ \E s \in {"all", "open", "invalid"} : SetStatus(s) \/ StageBar(s)
  \/ \E g \in Regions : TypeSearch(g) \/ ToggleRegion(g) \/ ChooseSchool(g)
  \/ \E n \in 1 .. 2 : TurnPage(n)
  \/ \E p \in Pupils :
       \/ ToggleSel(p) \/ ToggleExpand(p) \/ ReloadPanel(p) \/ QuickStage(p)
       \/ QuickIntent(p) \/ RequestDelete(p) \/ RequestInvalidateEnrolled(p) \/ TypeNote(p)
       \/ AddNote(p) \/ AddFollowUp(p) \/ CreateHomeVisitTask(p) \/ CreateCampusVisitTask(p)
       \/ HandleSubstageChange(p) \/ ToggleNeedHelp(p) \/ OpenEditStudent(p) \/ OpenEnrollment(p)
       \/ OthersEnroll(p)
  \/ \E p \in Pupils, s \in {"open", "invalid"} : QuickStatus(p, s)
  \/ \E f \in view.forms : CloseLeadForm(f) \/ SubmitForm(f)
  \/ \E p \in Pupils, a \in Callers : HandleAssignAgent(p, a)
  \/ \E a \in Callers : ChooseAgent(a) \/ ToggleAgent(a)
  \/ HandleSearch \/ ClearSearch \/ ClearAllFilters \/ ToggleAll \/ OpenAssign \/ CloseAssign
  \/ HandleAssign \/ ConfirmChange \/ CancelChange \/ OpenCreate \/ OpenImport \/ HandleRegionAssign \/ CloseDispatch \/ SchoolAssign
  \/ ~view.away /\ \E r \in view.reqs :
       \/ StudentsTaken(r) \/ StudentsShown(r) \/ StudentsFail(r)
       \/ PanelTaken(r) \/ PanelShown(r) \/ PanelFails(r)
       \/ PhonesTaken(r) \/ PhonesShown(r) \/ PhonesFail(r)
       \/ ChangeTaken(r) \/ ChangeRefused(r) \/ ChangeDone(r) \/ ChangeFails(r)
       \/ RegionsTaken(r) \/ RegionsShown(r) \/ RegionsFail(r)
       \/ SchoolsTaken(r) \/ SchoolsShown(r) \/ SchoolsFail(r)
       \/ DispatchTaken(r) \/ DispatchDone(r) \/ DispatchFails(r)

=============================================================================
