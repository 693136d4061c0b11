--------------------------- MODULE BrowserSession ---------------------------
(***************************************************************************)
(* The tabs of one browser and the session they share: who each tab thinks *)
(* is signed in (context/AuthContext.jsx, App.jsx, the interceptor of      *)
(* api.js), the forced change of a password, and the queue of operations   *)
(* left by offline work, which each tab sends when it opens or the network *)
(* comes back (useSyncManager.js, useOfflineStorage.js).                   *)
(*                                                                         *)
(* The cookie, crm_user (saved) and the queue belong to the browser; the   *)
(* rest of the state belongs to a tab.  Nothing of this version adds to    *)
(* the queue.  A request and its answer are separate steps, and either may *)
(* be lost.                                                                *)
(***************************************************************************)
EXTENDS Integers, Sequences, FiniteSets, SequencesExt

CONSTANTS
  Tabs, Accounts,
  Ops,        \* numbers: the operations of the queue, in its order
  MaxRuns,    \* operations the tabs open at the start have to send, together
  MaxClicks,  \* what the user does in a behaviour
  MaxResets   \* resets of a password by an administrator

ASSUME OpsAssumption == Ops \subseteq Nat /\ IsFiniteSet(Ops)
ASSUME TabsAssumption == IsFiniteSet(Tabs)
ASSUME BoundsAssumption == MaxRuns \in Nat /\ MaxClicks \in Nat /\ MaxResets \in Nat

VARIABLES
  clicks, resets,
  acct,    \* the service's accounts: version of the tokens, must_change_password
  done,    \* how often the service did an operation
  refused, \* operations the service refused for what they ask
  online,
  cookie,  \* the token of the browser
  queue,   \* pendingSync not yet marked
  tab,
  blurred, \* operations the browser cannot know to be done once
  behind   \* tabs since whose load another tab changed the session

service == <<acct, done, refused, resets>>
sessionVars == <<clicks, service, online, cookie, queue, tab, blurred, behind>>

None == [none |-> TRUE]
Click == clicks < MaxClicks /\ clicks' = clicks + 1

Valid(c) == c # None /\ c.version = acct[c.who].version
Session == IF Valid(cookie) THEN [who |-> cookie.who, must |-> acct[cookie.who].must] ELSE None

----------------------------------------------------------------------------
(* A tab.                                                                  *)

Open == DOMAIN tab

\* getPendingSync at the start of a run, which sends the operations in the order of the
\* queue; syncingRef is sync # None.
Run == IF queue = {} \/ ~online THEN None ELSE [left |-> queue, answer |-> "none"]

\* The page loads: what is left of the tab is its address.
Loading(path) == [path |-> path, user |-> None, loading |-> TRUE, me |-> <<>>, form |-> None, sync |-> Run]

\* Guest, LoggedIn and Protected, after the tab's user or address changed.
Routed(t) ==
  [t EXCEPT !.path = CASE t.user = None -> "login"
                       [] t.user # None /\ t.path = "change" -> "change"
                       [] t.user # None /\ t.path # "change" -> IF t.user.must THEN "change" ELSE "home"]

Put(t, new) == tab' = [tab EXCEPT ![t] = new]

Sending(t) == tab[t].sync # None
Op(t) == Min(tab[t].sync.left)

\* Operations on their way when a page goes.
InRun(t) == IF Sending(t) THEN {Op(t)} ELSE {}

\* Operations another tab's run holds too.
Shared(t) ==
  IF Run = None THEN {}
  ELSE queue \cap UNION {tab[u].sync.left : u \in {v \in Open \ {t} : Sending(v)}}

Load(t, path) ==
  /\ Put(t, Loading(path))
  /\ blurred' = blurred \cup InRun(t) \cup Shared(t)

Reload(t) ==
  /\ Click /\ Load(t, tab[t].path)
  /\ UNCHANGED <<service, online, cookie, queue, behind>>

\* The interceptor's 401, for a tab that is not at /login.
SignedOut(t) == Load(t, "login")

\* The effect of AuthProvider: /auth/me, and what becomes of the tab with it.
MeTaken(t) ==
  /\ tab[t].loading /\ tab[t].me = <<>>
  /\ Put(t, [tab[t] EXCEPT !.me = <<Session>>])
  /\ behind' = behind \ {t}
  /\ UNCHANGED <<clicks, service, online, cookie, queue, blurred>>

MeShown(t) ==
  /\ tab[t].loading
  /\ \E user \in ToSet(tab[t].me) \cup {None} :
       Put(t, Routed([tab[t] EXCEPT !.user = user, !.loading = FALSE, !.me = <<>>]))
  /\ UNCHANGED <<clicks, service, online, cookie, queue, blurred, behind>>

----------------------------------------------------------------------------
(* Login, ChangePassword and the password form of MobileHome.              *)

Free(t) == ~tab[t].loading /\ tab[t].form = None
FormTo(t, f) == Put(t, [tab[t] EXCEPT !.form = f])

LoginSubmit(t, a) ==
  /\ Click /\ Free(t) /\ tab[t].path = "login"
  /\ FormTo(t, [kind |-> "login", who |-> a, answer |-> None])
  /\ UNCHANGED <<service, online, cookie, queue, blurred, behind>>

LoginTaken(t) ==
  /\ tab[t].form # None /\ tab[t].form.kind = "login" /\ tab[t].form.answer = None
  /\ LET a == tab[t].form.who
     IN  FormTo(t, [tab[t].form EXCEPT !.answer = [who |-> a, must |-> acct[a].must, version |-> acct[a].version]])
  /\ UNCHANGED <<clicks, service, online, cookie, queue, blurred, behind>>

\* The other tabs were not told.
Ahead(t) == behind' = (behind \cup {u \in Open : u # t}) \ {t}

LoginShown(t) ==
  /\ tab[t].form # None /\ tab[t].form.kind = "login" /\ tab[t].form.answer # None
  /\ LET a == tab[t].form.answer
     IN  /\ cookie' = [who |-> a.who, version |-> a.version]
         /\ Put(t, Routed([tab[t] EXCEPT !.user = [who |-> a.who, must |-> a.must], !.form = None]))
  /\ Ahead(t)
  /\ UNCHANGED <<clicks, service, online, queue, blurred>>

ChangeSubmit(t) ==
  /\ Click /\ Free(t) /\ tab[t].path \in {"change", "home"}
  /\ FormTo(t, [kind |-> "change", who |-> tab[t].user.who, answer |-> None])
  /\ UNCHANGED <<service, online, cookie, queue, blurred, behind>>

\* change_password changes the account of the cookie, whoever the tab shows.
ChangeTaken(t) ==
  /\ tab[t].form # None /\ tab[t].form.kind = "change" /\ tab[t].form.answer = None
  /\ IF Valid(cookie)
     THEN LET a == cookie.who
              v == acct[a].version + 1
          IN  /\ acct' = [acct EXCEPT ![a] = [version |-> v, must |-> FALSE]]
              /\ FormTo(t, [tab[t].form EXCEPT !.answer = [who |-> a, version |-> v]])
     ELSE acct' = acct /\ FormTo(t, [tab[t].form EXCEPT !.answer = [who |-> "nobody"]])
  /\ UNCHANGED <<clicks, done, refused, resets, online, cookie, queue, blurred, behind>>

\* Mutant: the tab's user still has to change the password.
UserUpdatedNot(t) == t

\* updateUser; MobileHome's form is shown to nobody who has to change.
UserUpdated(t) == [t EXCEPT !.user.must = FALSE, !.path = "home"]

ChangeShown(t) ==
  /\ tab[t].form # None /\ tab[t].form.kind = "change" /\ tab[t].form.answer # None
  /\ LET a == tab[t].form.answer
     IN  IF a.who = "nobody" THEN SignedOut(t) /\ UNCHANGED <<cookie, behind>>
         ELSE /\ cookie' = a
              /\ Put(t, Routed(UserUpdated([tab[t] EXCEPT !.form = None])))
              /\ IF a.who = tab[t].user.who THEN Ahead(t) ELSE behind' = Open
              /\ UNCHANGED blurred
  /\ UNCHANGED <<clicks, service, online, queue>>

\* The password is wrong, or no answer comes.
FormFails(t) ==
  /\ tab[t].form # None
  /\ FormTo(t, None)
  /\ UNCHANGED <<clicks, service, online, cookie, queue, blurred, behind>>

\* logout forgets the user whether or not the service was reached.
Logout(t) ==
  /\ Click /\ Free(t) /\ tab[t].path \in {"change", "home"}
  /\ cookie' \in {cookie, None}
  /\ Put(t, Routed([tab[t] EXCEPT !.user = None]))
  /\ UNCHANGED <<service, online, queue, blurred, behind>>

----------------------------------------------------------------------------
(* The queue.                                                              *)

\* The loop of syncPendingOperations goes on, also after a failure.
NextOp(s) ==
  LET rest == s.left \ {Min(s.left)}
  IN  IF rest = {} THEN None ELSE [left |-> rest, answer |-> "none"]

\* executeSyncOperation at the service: done, refused with an envelope, or
\* turned away for the session.
OpTaken(t) ==
  /\ Sending(t) /\ tab[t].sync.answer = "none"
  /\ \E answer \in {"done", "refused", "password", "session"} :
       /\ CASE Session = None -> answer = "session"
            [] Session # None /\ Session.must -> answer = "password"
            [] Session # None /\ ~Session.must -> answer \in {"done", "refused"}
       /\ done' = IF answer = "done" THEN [done EXCEPT ![Op(t)] = @ + 1] ELSE done
       /\ refused' = IF answer = "refused" THEN refused \cup {Op(t)} ELSE refused
       /\ Put(t, [tab[t] EXCEPT !.sync.answer = answer])
  /\ UNCHANGED <<clicks, acct, resets, online, cookie, queue, blurred, behind>>

\* Mutant: nothing is marked.
MarkedNot(t) == queue

\* An envelope resolves: a refused operation is marked like one that was done.
Marked(t) == IF tab[t].sync.answer \in {"done", "refused"} THEN queue \ {Op(t)} ELSE queue

\* Mutant: also at the login page.
TurnedAway(t) == tab[t].sync.answer = "session"

\* The 401 that leads to /login, in a tab that is not there yet.
Turned(t) == tab[t].sync.answer = "session" /\ tab[t].path # "login"

OpAnswered(t) ==
  /\ Sending(t) /\ tab[t].sync.answer # "none"
  /\ IF Turned(t)
     THEN SignedOut(t) /\ UNCHANGED queue
     ELSE /\ Put(t, [tab[t] EXCEPT !.sync = NextOp(@)])
          /\ queue' = Marked(t)
          /\ UNCHANGED blurred
  /\ UNCHANGED <<clicks, service, online, cookie, behind>>

\* No answer, or markSynced fails.
OpLost(t) ==
  /\ Sending(t)
  /\ Put(t, [tab[t] EXCEPT !.sync = NextOp(@)])
  /\ blurred' = blurred \cup {Op(t)}
  /\ UNCHANGED <<clicks, service, online, cookie, queue, behind>>

Offline ==
  /\ Click /\ online /\ online' = FALSE
  /\ UNCHANGED <<service, cookie, queue, tab, blurred, behind>>

\* The tabs' reconnect: each starts a run unless it is in one.
Online ==
  LET run == [left |-> queue, answer |-> "none"]
  IN  /\ ~online /\ online' = TRUE
      /\ tab' = [t \in Open |-> IF Sending(t) \/ queue = {} THEN tab[t]
                               ELSE [tab[t] EXCEPT !.sync = run]]
      /\ blurred' = IF Cardinality(Open) > 1 THEN blurred \cup queue ELSE blurred
      /\ UNCHANGED <<clicks, service, cookie, queue, behind>>

\* An administrator resets the password of an account.
AdminResets(a) ==
  /\ resets < MaxResets /\ resets' = resets + 1
  /\ acct' = [acct EXCEPT ![a] = [version |-> @.version + 1, must |-> TRUE]]
  /\ UNCHANGED <<clicks, done, refused, online, cookie, queue, tab, blurred, behind>>

----------------------------------------------------------------------------
Answers(t) == MeTaken(t) \/ MeShown(t) \/ LoginTaken(t) \/ LoginShown(t) \/ ChangeTaken(t)
              \/ ChangeShown(t) \/ FormFails(t) \/ OpTaken(t) \/ OpAnswered(t) \/ OpLost(t)

Init ==
  /\ clicks = 0 /\ resets = 0 /\ online = TRUE
  /\ \E must \in BOOLEAN : acct = [a \in Accounts |-> [version |-> 0, must |-> must]]
  /\ queue \in SUBSET Ops
  /\ done = [o \in Ops |-> IF o \in queue THEN 0 ELSE 1] /\ refused = {}
  /\ cookie \in {None} \cup {[who |-> a, version |-> 0] : a \in Accounts}
  /\ \E open \in SUBSET Tabs \ {{}} :
       /\ Cardinality(open) * Cardinality(queue) <= MaxRuns
       /\ tab = [t \in open |-> Loading("home")]
       /\ blurred = IF Cardinality(open) > 1 THEN queue ELSE {}
  /\ behind = {}

Next ==
  \/ \E t \in Open : \/ Answers(t) \/ Reload(t) \/ Logout(t) \/ ChangeSubmit(t)
                     \/ \E a \in Accounts : LoginSubmit(t, a)
  \/ Offline \/ Online
  \/ \E a \in Accounts : AdminResets(a)

\* A request is answered or fails in the end: the promise axios returned.
Spec == Init /\ [][Next]_sessionVars /\ \A t \in Tabs : WF_sessionVars(t \in Open /\ Answers(t))

----------------------------------------------------------------------------

\* A tab that no other tab overtook knows the account of the cookie, and
\* whether its password must be changed, whenever the service still honours
\* that cookie: through resets, lost answers and logins (AuthContext.jsx).
TabKnowsSession ==
  \A t \in Open : ~tab[t].loading /\ tab[t].user # None /\ Session # None /\ t \notin behind
    => tab[t].user = Session

\* An operation leaves the queue done or refused, and is done once: not when an
\* answer was lost, a page went while it was on its way, or two tabs had it in
\* their runs, which the service cannot tell from new operations (markSynced).
ExactlyOnce ==
  \A o \in Ops \ blurred : done[o] <= 1 /\ (o \notin queue => done[o] = 1 \/ o \in refused)

\* Every tab comes to rest again and again: its page has loaded, its forms have
\* their answers and its run of the queue is over, so that the next may start
\* (syncingRef); no 401 makes a tab load for ever (interceptor of api.js).
TabsSettle == \A t \in Tabs : []<>(t \in Open => ~tab[t].loading /\ tab[t].form = None /\ ~Sending(t))
=============================================================================
