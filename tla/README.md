# A verification project for the recruitment CRM

The CRM keeps leads ("students"), who follows them, what is owed to them, and what happens
to all of it when an employee is suspended or leaves. Its back end is `src/app` (FastAPI
over SQLite), its front end `src/frontend` (React: counsellors call from a phone or a desk,
administrators work in a console). This directory holds TLA+ models of both, the TLC runs
that check them on small instances, and TLAPS proofs of the properties that matter most.

Contents: [inventory](#1-inventory), [modules](#2-the-modules), [runs](#3-the-runs),
[bounds](#4-bounds-and-assumptions), [proofs](#5-the-proofs),
[where code and words differ](#6-where-code-and-words-differ),
[what is left out](#7-not-modelled), [plan](#8-plan).

## 1. Inventory

One process serves all requests (`Dockerfile` starts one uvicorn worker; nothing in the
code forbids more). A handler is a coroutine with a database session of its own and runs
until an `await`; other handlers run meanwhile. Components share state only through the
database, and two dictionaries of `asyncio` locks.

| Component | State it keeps | Operations | Hard because | Right when |
|---|---|---|---|---|
| Work items (`work_item_service`) | `work_items`: status, owner, one row per (kind, source) | synchronise a source row, one or many students, the sources of reassigned students; cancel; close the tasks of terminal students; move in bulk | every handler must call the right ones in the right order on rows it just changed | active items mirror the open rows, belong to the student's agent and have the status of that agent's employment |
| Assignment (`assignment_service`) | `students.assigned_to`, `student_assignments` | one change of owners for a list of students | refusals read before the first write; students whose owner does not change are skipped | a student has one owner, active when given to it; nothing passes a running handover by |
| Employment (`employment_service`, `user_account_service`) | `agent_employment`: status and version | suspend, resume, start and end of offboarding, delete | cached rows, unversioned writes; items restated in bulk | only the allowed changes; one active administrator remains; nobody is followed by a user who left |
| Handover (`handover_service`, `admin_handover`) | batches, items, transfers, their counters and versions | start (two endpoints), preview, transfer some or all | retries, two workers, crash between its two commits, students that go away meanwhile | one batch, all of the leaver's students, each moved once, counters that add up, the same answer to a retry |
| Students (`routers/students`, `student_delete`, `invalid_lead_service`) | `students`: status, help flag, owner | create, edit, help flag, invalidate an enrollment, reclaim, delete | a status change has consequences in five tables | terminal students have nothing to follow up; enrolled ones have a record |
| Follow-ups and visits (`follow_ups`, `admissions_*_visits`, `visit_report_service`) | their rows, results and next steps | create, reschedule, complete, reopen, cancel, delete | a result may enroll the student, and so close other tasks, in the same transaction | an open row has its item, and only an open row |
| Enrollment records (`admissions`, `admissions_enrollments`, `students_enrollment`) | `enrollment_records` and the visits they name | create by four paths, edit, settle | the record outlives the invalidation of the enrollment | one record per student |
| Dialling (`dialSession.js`, `MobileDialResult`, `useAgentDial`) | sessionStorage, the open result window | ask for a number, result, note, date, close, undo, reload | three requests per call, any of which fails or loses its answer; one stored session for any number of calls | no window goes before its call, its note and its date arrived |
| Work list (`useAgentStudents`, `useAgentWorkState`) | rows shown, rows confirmed, the owner of each field, the card | edits shown before they are answered, loads, filters | edits of one student overlap and fail; loads cross them | rows at rest are the service's, nobody is dropped, the card stays |
| Groups, lists and the student's page (`PersonalGroups`, `HandledView`, `MobileHome`, `MobileStudentDetail`) | pages of rows, filter, ticks, the open student | page on, filter, group many or one, edit, reload | pages are cut out of lists that change; answers come in any order | what is shown at rest is what the service holds |
| Session (`AuthContext`, `App`, `api`, `useSyncManager`) | cookie and offline queue per browser, user and run per tab | load, login, logout, change of password, replay | several tabs share what none of them is told of | a tab knows its session; an operation is done once; all tabs come to rest |
| Console (`HandoverCenter`, `AgentManage`, `LeadsManage`, `EnrollmentSettlement`, `InvalidStudentReclaim`, `AuditLogs`, visits) | loaded lists, ticks, forms, questions asked, requests under way | load, tick, ask, confirm, save, roll back | other administrators change what is on screen; answers come late, twice or never | what is done is what the administrator saw and was asked |

How they interact: a handler changes rows of its own, calls `apply_assignment_changes` if
owners change, then `sync_source_work_item` for the row and `sync_student_work_items` for
the student; `start_handover` and `execute_transfer` call the assignment service with the
batch's id, which turns off its handover guard and the synchronisation of source items,
and move items in bulk instead; `set_employment_status` restates items by owner.

The front end talks to the back end by requests alone. A tab holds what it was told and may
hold it long after it stopped being true; the back end guards itself by versions
(`expected_version`), by tokens of a preview (`reclaim_preview_token`), by idempotency keys, by
refusing what the state no longer allows, or not at all. Components of one page share its
state and a few window events (`personal-groups-changed`); pages share sessionStorage; tabs
share the cookie, localStorage and IndexedDB.

Other components, not modelled, are listed in section 7 and in `PROJECT.json`.

## 2. The modules

### The back end

* **WorkItems**: operators only. `SyncStudents`, `SyncSource`, `FollowAssignment`,
  `CloseRows`, `MoveItems` are the functions of `work_item_service` as functions from
  tables to tables; the operators named `...Allowed` say when they do not raise.
* **CrmCore**: the domain state (`student`, `rows`, `items`, `employment`, `batch`) and one
  action per handler, each a committed transaction. A handler that raises rolls back, so
  its refusals are the action's guards. `Commit`, `CommitRow` and `ApplyAssignment` are the
  tails shared by the handlers.
  - `student[s]`: `following` stands for every status that is not terminal (`未联系`,
    `待回访`, ...), which no modelled operation tells apart; `absent` for no row.
  - `rows[k]`: the source row of a work key `k`. `planned`, `held` (held with an agreed next
    step) and `closed` are what `home_visit_is_open`, `campus_visit_is_open` and
    `enrollment_settlement_is_open` make of dates, statuses and results; `won` is result
    已报名 and `named` says an enrollment record names the visit, the two exceptions of
    `_close_terminal_students_tasks`.
  - `items[k]`: status and owner; `(kind, source_type, source_id)` is the key in the code,
    so a work key stands for such a triple, and a deleted row's key may be used again, as
    SQLite reuses ids.
  - `employment[u]`, `batch[u]`: a user is offboarded at most once, so it has one batch.
* **HandoverRequests**: the handover endpoints as concurrent requests about one leaving agent.
  Each request is the steps the database sees. The SQLite driver opens a transaction at the
  first write: reads before it stand alone and stay cached in the session (nothing in
  the code refreshes them), writes up to the commit are one step. `start_handover` inserts
  its batch inside `begin_nested`, before any other write, so the release of that savepoint
  commits: `StartInsert` and `StartFinish` are two commits, `StartPlan` reads between them.
  `execute_transfer` begins with the conditional update of the version, so all that
  follows is the one step `TransferClaim`. Locks belong to a worker; a crash loses the
  requests and locks of one worker. What CrmCore already shows is left out: work items,
  terminal students, other agents' employment.
* **HandoverPromise**: what a handover promises, in three variables. HandoverRequests
  implements it (`KeepsPromise`): a batch counts from the second commit on, `left` is the
  pending items, `moved` the transferred ones.
* **MCCrmCore**, **MCHandoverRequests**: constants, symmetry and constraints of the runs.

Eight modules of proofs (section 5): **CrmCoreProofs** and, extending it, **CrmWorkProofs** about
CrmCore, **HandoverProofs** about HandoverRequests; **DialProofs** about DialFlow,
**WorkListProofs** about WorkList, **PhoneProofs** about PhoneHome, **BrowserSessionProofs** about
BrowserSession, **ConsoleProofs** about AdminConsole.

### The front end

Every module here is one tab (or the tabs of one browser) together with the part of the
service it talks to. An action is a click with all the state it sets, the service's
handling of a request, or the handling of its answer in the tab. A request may be refused,
and its answer may be lost, after the service acted or before, which a tab cannot tell.

* **DialSession**, **MobileDial**, **DeskDial**, **DialFlow**: a call. `stored` is the session
  in sessionStorage, `modal` the result window, `logs` the service's call records.
  DialSession has what both windows share: the request of the number, reloads, the undo of a first
  result. MobileDial and DeskDial are the two windows, DialFlow a tab with either.
* **WorkList**: the counsellor's list of today. `row` is the service's, `shown` what the screen
  has, `confirmed` what a failure goes back to, `owner` the edit that owns a field
  (`activeFieldTokensRef`), `chain` the unanswered edits of a student.
* **PersonalGroups**, **HandledLists**, **GroupPages**, **PhoneTasks**, **PhoneStudent**,
  **PhoneHome**: the counsellor's pages. PersonalGroups has the groups, the bar that puts
  many students in one and the editor of one student; HandledLists the handled students
  on the phone and at the desk, loaded page by page; GroupPages what the first does to
  the second; PhoneTasks the list to call; PhoneStudent the page of a student; PhoneHome
  their composition, with other devices of the same counsellor. A list's request remembers
  the filter and the offset it was sent with; a superseded request leaves the set of those
  whose answer counts (`requestSeqRef`). A group that is deleted is archived with its
  memberships and never returns (`archive_group`); a batch of the bar is any part of what is
  left, as a selection has no order. Three fields of a list are history, for the
  properties alone: `seen` and `steady` say what its pages were cut from and whether that stayed
  the same, `doubt` who changed groups without a word to the list, and `of` is the filter
  its rows were loaded with: a load of the desk that fails silently leaves the rows
  of the filter before (`HandledView.jsx:122`), and on the phone asking for more supersedes
  the load that should have replaced the rows put aside (`MobileHome.jsx:488`).
* **BrowserSession**: the tabs of a browser, `cookie` and `queue` between them. `Routed` is
  what the routes of `App.jsx` do with an address, `Turned` the 401 of the interceptor.
* **Console**: what the desks of the console share: `world` (the service's part), `view` (the
  page's state, with the requests that are out), clicks and changes by others.
  **HandoverDesk**, **AgentsDesk**, **LeadsDesk**, **SettlementDesk**, **ReclaimDesk** and
  **VisitsDesk** extend it, one for each page or pair of pages, and **AdminConsole** is a tab
  with any of them, and their properties. The service's side of a desk is what its handlers
  answer, with the checks that decide it (version, token, key, status); their full effect
  is in CrmCore and HandoverRequests.

`MC...` modules hold the constants, symmetry and constraints of the runs.

## 3. The runs

| Run | Properties | Question it answers |
|---|---|---|
| `handover` | `AssignedWorkFollowsAgent`, `PendingAreTheLeavers`, `BatchAccounts`, `NoPendingStudentDropped` | does owed work follow its student through suspension, handover, partial transfer, deletion and edits, and does the batch keep its students and counts? |
| `leads` | `TypeOK`, `ActiveWorkHasOwner`, `HelpIffAsked`, `OffboardedFollowNobody`, `AnActiveAdminRemains`, `LeadLostOnlyByReclaim` | do the items that outlive an agent stay in step; which step loses a lead; who remains? |
| `visits` | `TerminalHasNoTask`, `SourceMirrored`, `EnrolledHasRecord` | do rows, items, records and status agree through every result, invalidation and restoration? |
| `requests` | `TypeOK`, `OneBatch`, `KeepsPromise` | with concurrent starts under two keys, retries and a crash, is there one batch that keeps the promise? |
| `transfers` | `CountersMatch`, `ReplaysAgree` | on two workers without a common lock, do versions keep the counters right, and is a retry told the first answer? |
| `progress` | `EveryRequestEnds` | does every request end, whatever waits on whatever and whoever crashes? |
| `dial` | `UntouchedHasNoDate`, `DeskRecordsCall`, `NoteReachesService` | does a window go only when its call or note arrived, and does an undo take its dates back? |
| `worklist` | `SettledRowIsTrue`, `NobodyDropped`, `LoadKeepsCard` | is the optimistic list right once everything is answered, whatever failed or crossed? |
| `phone` | `NothingSkipped`, `UngroupedIsTrue`, `DetailTrue`, `BarMeansAll` | are lists and a student's page what the service holds, and is a group complete when the bar says so? |
| `session` | `TabKnowsSession`, `ExactlyOnce`, `TabsSettle` | does a tab know its session, is the offline queue replayed once, do the tabs come to rest? |
| `console` | `MovesWhatWasCounted`, `SuspendsWhatWasSeen`, `StartAgainFindsBatch`, `AssignsWhatWasNamed`, `SettledStaysPaid`, `TakesWhatWasPreviewed`, `WorkStaysWithHolder`, `FirstRecordStands` | is what is done what the administrator saw and was asked, while others work on the same data? |
| `handover_target` | `NamedTargetGets` (violated) | section 6 |

`LeadLostOnlyByReclaim` is the sharp form of a property that does not hold: a lead contact
and its student drift apart only by `_reclaim` to the agent the student already has.
`SourceMirrored` leaves out visits held with a next step for the same kind of reason: their
items are cancelled with a terminal student and do not come back when it is restored.
Likewise the properties of the front end name what the code does not guard: `ExactlyOnce`
excepts the operations whose answer was lost or that two tabs sent (`blurred`),
`UngroupedIsTrue` and `DetailTrue` what the tab was never told (`doubt`), `NothingSkipped` lists
that changed between two pages (`steady`), `LoadKeepsCard` a filtered list, `TabKnowsSession` a tab that another one
overtook (`behind`), `StartAgainFindsBatch` a start that a proxy answered for the service, or
that another start of the same employee crossed: the answer of the one then drops the key
of the other (`blurred`; `AgentManage.jsx:441`). `DeskRecordsCall` holds at the desk alone: the phone's window takes another
student's stored session for a finished call and closes.

Every property of a passing run has a mutant in `PROJECT.json`: a plausible change of the
code (a status written as it is, a guard dropped, the synchronisation in another order, a
version not compared, a form read anew) under which TLC finds the property violated. The
mutated operators stand above the definitions they are mutants of.

## 4. Bounds and assumptions

*CrmCore.* The state is finite once users, students and keys are. `handover` has two agents,
so that a transfer has a target that may itself be suspended or leave, and two students, so
that a transfer can be partial and a bulk change can mix students. `leads` and `visits` have
one student each: every property there is about one student's rows, and handlers touch
several students only independently of each other. `KeyKinds` gives each student one work
key of each kind that the run is about; two visits (one of each kind) and one record are
what `visits` needs for a record that names both. `NoHelp` leaves the help flag alone in
runs that have no help item. Agents, administrators and students are interchangeable, as
no definition tells them apart: hence the symmetry. Deadlock is checked in these runs.

*HandoverRequests.* `Request` bounds how many requests there ever are: a client that retries
sends another one. `requests` has three, enough for a start that crashes between its
commits, a retry and a transfer; `transfers` has four, enough to offboard, run two
transfers and retry the first, `TwoAtATime` (two requests under way at once, on two
workers). `MaxCrash` bounds crashes. Versions, targets and selections a client may send
include stale ones (`Versions`), the leaver (`Targets`) and students that are not pending.
When all requests have ended and all students are deleted nothing is left to do: these
runs do not check deadlock.

*Front end.* Clicks are counted: a user can always click, and every hazard here needs few.
Loads, edits and requests in flight are bounded with them.

| Run | Instance | Why it is enough |
|---|---|---|
| `dial` | two students, one number asked for at a time, three results picked, two call records, one date, one note | the second call replaces the stored one while the first window is open; a result can be undone and given again |
| `worklist` | two students, one of the first class; two edits, two loads | the least of each that can cross another of its kind, on one student or on two |
| `phone` | three students, pages of one and two, two groups of which one exists; three clicks in any initial page, two changes by others | a page has a next one and that a further one; a click can be overtaken by another |
| `session` | two tabs, one account, two operations, of which the open tabs have two to send together, two clicks (going offline is one), one reset of the password | one tab has two operations to send, or two tabs the same one; a click can follow on a reset and precede another tab's |
| `console` | two employees, two or three leads, two batches; four clicks at the handover and settlement desks, three at accounts and visits, two at leads and reclaiming; two changes by others | the initial views are in the middle of work (rows ticked, question asked, dialog or plan open), so that a click is left for what may go wrong after it |

Two clicks are what a desk of leads has left after its initial views (three take more
than ten times the states); confirming an assignment, and a load in between, fit. At the
end of their bounds the tabs stop: these runs, but for `dial` and `worklist`, do not check
deadlock. Nothing in the pages of this version adds to the offline queue
(`addPendingSync` has no caller); what is in it was left by an earlier one, so
`session` starts with any queue.

*Assumed.* Administrators are super administrators, the only ones that may do all the modelled
operations; nobody loses that right. SQLite's constraints hold: one active assignment and
one enrollment record per student, one running batch per agent, unique idempotency keys, no
row with a dangling reference. Session objects are not refreshed behind the handlers'
backs (`expire_on_commit=False`, no version columns). A write that cannot get the
database's lock in time fails its request, which then leaves what a crash at that point
would leave. In HandoverRequests all students are followed and not terminal, and the other
agents are active. In the front end a request ends: axios resolves or rejects it. What a
page shows is changed by React in the order the handlers set it.

*Fairness.* `FairSpec` of HandoverRequests has weak fairness of each request's own steps
(`Work`): the event loop resumes a task whose await has completed, and asyncio locks are
handed on in order; nothing says that clients send requests, students are deleted or
workers crash, so those have none. BrowserSession has weak fairness, per tab, of what
answers its requests (`Answers`, of an open tab): a request is answered or fails in the end. Clicks and the
network have none. No other specification assumes fairness.

## 5. The proofs

Every invariant and every action property that a passing run checks on a small instance, the
refinement included, is a theorem for every value of the constants: any users,
students, groups, keys, requests, workers, tabs, pages, clicks and operations (finite sets
where the module assumes it; two of them under conditions named below). `PROJECT.json` lists them. What follows says along which
argument; only liveness is left to TLC.

### CrmCore

* *Types* (CrmCoreProofs, `TypeCorrect`). `TypeOK` is inductive. The lemmas say what each
  operator of WorkItems returns, then what the shared tails `Commit`, `CommitRow` and
  `ApplyAssignment` do, so that each action's step is short.
* *Who follows whom* (`PendingAreLeavers`, `NobodyFollowedByLeaver`).
  Neither property is inductive alone. `HandoverInv` is their conjunction with
  `AbsentUnassigned` (a student that is not in the table has no agent): a handover starts
  with all of the leaver's followed students and unassigns the terminal ones, so
  `PendingAreTheLeavers` has to know that nobody hands students to the leaver afterwards,
  which follows from the target's active employment, and that nobody takes them, which is
  the guard `NotInHandover` on a status the first property ties to the batch. Every action
  that changes owners satisfies `Reassigns`, a formula about what such an action may do,
  from which both are proved once. `NobodyDropped`, an action property, is read off the same
  invariant: the only step that starts a batch anew finds nobody pending.
* *Whose the work is* (`WorkFollowsAgent`), from `HandoverInv` and `TypeOK`. A student's items are
  in step after each operator of WorkItems that touches them; the steps that leave them
  alone need `OffboardedFollowNobody` and `PendingAreTheLeavers`, as a bulk move by owner or
  by batch reaches exactly the items of the students that user follows. `WorkHasOwner`
  (CrmWorkProofs) is inductive given the same two, key by key (`HasOwner`).
* *What a batch counts* (`BatchesAccount`). `BatchAccounts` is inductive given `TypeOK`, with
  the cardinality facts of the library: a transfer takes out of `pending` what it adds to
  `moved`, a deletion only shrinks what the counters bound. `AdminStays` needs no
  strengthening: the guards that count the other administrators are the argument.
* *Leads and help requests* (CrmWorkProofs: `HelpInStep`, `LeadLostByReclaim`). For one key,
  every step keeps an item in step with its student or is `LostByReclaim`; that case takes the help
  flag back, so it cannot touch a help item, and it is what `LeadLostOnlyByReclaim` allows.
* *Rows and their items* (`TerminalIsClosed`, `RowsAreMirrored`), inductive only together and
  with `Bare` (`SettledInv`): an edit makes a terminal student followed again without
  opening its tasks, which is right because none was left planned; a new student has no
  rows because an absent one has none. `Ready` is what the tail of a handler finds,
  `Settled` what it leaves.
* *Records* (`EnrolledIsRecorded`): every step satisfies `KeepsRecord`, for each student.

### The handover requests (HandoverProofs)

* *Types* (`RequestsTyped`). `TypeInv` adds to `TypeOK` the shape of the
  requests in flight: which operation may be at which step, with what it has read.
* *Counters* (`CountersAddUp`), on any number of workers. `Ledger` adds
  two things that requests know: between its two commits a request has its batch to itself,
  fresh and empty (`FillingOK`), and a transfer whose version is still the batch's read the
  number of transferred students that is still there (`ReadingOK`). The second is why
  comparing versions makes up for a count read before the claim. The sum of the counts is
  the size of a disjoint union (`Counted`), so a new transfer adds its own by the
  library's facts on cardinality, without induction.
* *Retries* (`RetriesAgree`). `Replay` says that the tables keep telling what a request was
  told: while nobody is deleted, pending and counted students make up the total
  (`KeptRow`), and later transfers have later versions (`Older`), so that counting up to a
  transfer gives what it gave.
* *One batch, and the promise*. `LeaverGetsOneBatch` and `PromiseKept`
  assume one worker (`OneWorker`: start_handover's lock belongs to a process, `Dockerfile`
  starts one) and that nobody suspends or resumes the leaver meanwhile (`NobodySuspends`).
  Both are needed: TLC violates `OneBatch` with two workers, and with one worker when
  `update_user` may write over the end of an offboarding (`employment_service.py:60`), after
  which the leaver can be handed over a second time. `Single`, the inductive invariant, says
  that one request at a time is past the check of start_handover, that it found no batch,
  and that a completed batch has the leaver offboarded. `PromiseKept` is the refinement
  `Spec => HandoverPromise!Spec`, step by step: the insert, plan and lock steps are stutters,
  the second commit starts the promise, a claim moves, a deletion drops.

### The work list and the session

* *Work list* (WorkListProofs: `SettledRowsAreTrue`, `NobodyIsDropped`, `LoadsKeepTheCard`). `SettledRowIsTrue` says
  nothing about rows with unanswered edits, so what is inductive is about fields: one that no
  edit owns is shown as confirmed, and the confirmed one is the service's unless the tab was
  told something outdated (`Backed`); an owned one has its edit in the chain (`Waits`). For
  `NobodyDropped` the answers of full loads on their way count too (`Full`). The card is found
  again because no two students have the same place in an order (`PlacesDiffer`).
* *Session* (BrowserSessionProofs: `TabsKnowTheSession`). `SessionInv` is about all that a tab
  was told and has not shown: the token a form holds is older than its account or tells the
  truth about it (`TrueForm`), so is the cookie (`Bound`), and an answer of `/auth/me` that
  nobody overtook is the session (`Knows`). Accounts only get newer (`Grows`), so the session
  of a cookie stays or ends.
* *Offline queue* (`OperationsAreDoneOnce`). `QueueInv`, for each operation that is not `blurred`:
  it is in one run at most (`Alone`), waits in the queue as long as it is in one
  (`Waiting`), and if it was done while it waits, the answer is on its way (`Underway`). The
  order of a run is that of the numbers; that a finite run has a first operation is
  `FirstOp`, from the well-foundedness of `<`.

### The calls (DialProofs)

`Kept` is inductive. Beside the types (every log that the tab names is one the service has) it says
two things. `OneLog`: at the desk the stored session, the open window, the
numbers being asked for and the call being recorded name one log wherever they are about one
student, which is why a session that another call replaced does not make the window record the
wrong one (`DeskRecords`). `NoteGoes`: a note the phone's window took for sent is with
the service, and the call is not sent while a note is still to go (`NoteReaches`). With `Kept`,
`UntouchedHasNoDate` is inductive itself: each write of the service but the undo leaves the
student touched, and the undo takes the dates back (`UntouchedDateless`).

### The counsellor's pages (PhoneProofs)

`Before`, the conjunction of three invariants, is inductive; four theorems follow from it.

* `DetailInv` (`DetailShowsTruth`): the page of a student at rest shows the table outside `doubt`,
  and what an answer brings is a whole student. A batch of the bar writes groups alone, which the
  page does not show from there.
* `ListsInv` (`UngroupedShowsTruth`, `PagesSkipNobody`): as long as nothing came in between
  (`steady`), the rows are the first of the students they were cut from, in their order; there is
  one request at most, and it goes on where the rows end, so that the page it brings neither
  skips nor repeats. Under "ungrouped" the rows, and those of an answer, are in no group or in
  `doubt`. The list put aside for the way back has the same shape. Both rest on lemmas
  about `InOrder`, a set of numbers in its order (`RankGrows`, `RankOnto`, `InOrderRises`), and about a list
  without some of its rows (`MinusIs`, `MinusCount`): a removal keeps a list a beginning of what it was
  cut from, without induction, as the place of a row is the number of rows up to it.
* `BarInv` (`BarEndsWithAll`): who is not left to send has joined, unless the group was
  deleted meanwhile (`InOrGone`). That a deleted group never returns is needed: were it made
  anew under its id, the bar could end with students of earlier batches outside.

### The console (ConsoleProofs)

Each desk has an invariant that holds while its page is open (`VisitsHeld`, `BillsHeld`, `AgentsHeld`,
`LeadsHeld`, `HandoverHeld`, `ReclaimHeld`). They share the lemmas on requests: each has a number
of its own, so an answer is the answer to one of them (`Requests`, `Follows`).

* `SuspendsAsSeen`: a request carries the version it was decided on, and the service takes it
  only at that version.
* `StartFindsBatch`: the key that is kept for an employee is the one its batch was started with
  (`StartedIsKept`), and a start under way is the only one of its employee (`StartKnown`), but for
  the employees in `blurred`.
* `MovesAsCounted`: what the dialog or the request counts is of no later version of the batch,
  and at the same version it is what would be moved (`CountFits`), whatever the page shows by
  then.
* `TakesAsPreviewed`, `WorkStays`: the token of a preview stands for its leads as they were, and a
  reclaim goes through only if it still does; a rollback puts back what is still with nobody.
* `AssignsAsNamed`, `FirstRecord`, `SettledStays`: the question, the record and the amounts are
  compared where they are used; the invariants say that what is saved has the shape of a
  record and that forms send no other requests.

### Assumptions, and what is left to TLC

The theorems assume what their modules assume (agents, administrators and `None` are
distinct, sets are finite, keys have a kind and a student, nobody uses the name of a
default), and `LeaverGetsOneBatch` and `PromiseKept` the two conditions above.

Only model-checked: the liveness properties (`EveryRequestEnds`, `TabsSettle`), as fairness
and `ENABLED` are beyond the prover. `NamedTargetGets` is false (section 6).

## 6. Where code and words differ

* `handover_target` (TLC ends it with a counterexample, `PROJECT.json` quotes the words): the
  confirmation of a transfer names the employee chosen on the page by now, the request
  holds the one chosen when the preview was asked for (`HandoverCenter.jsx:140`, `:262`), and the
  choice stays open while the preview loads.

Others came up in the models and are not runs of their own:

* When an agent leaves, its enrolled students are unassigned and their open settlements keep
  it as an owner (`handover_service.py:225`), which the audit rejects; later edits of such a
  record are refused, as its owner is offboarded.
* An invalid lead reclaimed to the agent it has gets no lead contact
  (`invalid_lead_service.py:327`).
* Deleting a student that is pending in a batch leaves the counters (`student_delete.py:76`); if
  it was the last one the batch can never complete, and the agent never leaves.
* `start_handover` commits twice (`handover_service.py:162`): after a crash between the commits
  there is a running batch without students. A retry returns it as a success while the
  account is active.
* An assignment that read before a handover started moves a pending student
  (`assignment_service.py:143`); a suspension or resumption that read before an offboarding
  overwrites its result (`employment_service.py:60`), and the agent, at work again, can be
  handed over a second time.
* A visit held with a next step loses its item when its student is restored (`SourceMirrored`),
  and the audit counts the open settlement of every enrolled student as a mismatch
  (`domain_consistency.py:275`), while the comment at `work_item_service.py:70` says the
  settlement starts with the enrollment.
* A load asked for first and answered last is shown: in the list of leads
  (`LeadsManage.jsx:206`), the tasks of an account (`AgentManage.jsx:200`), the day's list at the
  desk (`useAgentStudents.js:110`). Other lists number their requests.
* A window of the phone closes over a call that was never completed when another student's
  session is stored by then (`dialSession.js:14`).

## 7. Not modelled

* Data that no property is about: names, dates, priorities, texts of notes, money beyond
  one amount, stages, reasons, layout, wording.
* Pages: distribution by schools, governance of leads, the season archive, review of assignment
  batches, system settings, the mobile dashboard, the work center, the other tabs of the
  audit page, the login page's layout. They show lists and statistics, or wait for a service
  below. The hooks `useAgentWork`, `useAgentTasksQuery` and `useLazyLoad` are imported by
  no page.
* At the desks: the refusal of an assignment for lack of capacity, the roll-back of assignment
  batches, the reduced page of an administrator who is not a super administrator, the
  detail pane of the work list (loaded without a number: a late answer shows another student).
* Services with logic of their own, planned below: assignment capacity and distribution,
  season archive, assistant tools, expiry and notification retries, stage policy.
* Duplicate and governance cleanup: previews with a token like the one of ReclaimDesk.
* Statistics, queries and exports: read only. Migrations, backups, deployment,
  spreadsheets, HTTP: I/O and one-off scripts. The consistency audit (`domain_consistency.py`):
  counts over the database; what they say that the handlers keep is what the invariants of
  CrmCore state, the rest is in section 6.

## 8. Plan

Done, in this order: WorkItems, CrmCore, type correctness and ownership proofs,
HandoverRequests and HandoverPromise; the front end: dialling, the work list, groups
and lists, the session, the desks of the console; then the proofs of all their invariants and
action properties.

Next, the most important first:

1. *HandoverRequests*: the leaver's deletion (`delete_user`, which takes no lock) as a request;
   two administrators that suspend each other at once.
2. *AssignmentCapacity*: the plan as recursive functions, checked against a reference
   definition (no agent above its capacity, nobody left over while there is room), then
   composed with the assignment actions, where the count is stale when written.
3. *SeasonArchive* and *AssistantApproval*: prepare, change, execute with a fingerprint or a
   token in between; an abstract "executes at most once, on what was shown" and the two, with
   the previews of ReclaimDesk and HandoverDesk, as implementations.
