---------------------------- MODULE OfflineQueue ----------------------------
(***************************************************************************)
(* The offline queue of the React client: operations that could not be sent *)
(* are kept in IndexedDB (lib/offline.ts) and sent one by one, by pages     *)
(* (hooks/useOfflineQueue.ts) and by the service worker when the browser    *)
(* fires a background sync (sw.ts).  Several syncs may run at once: every   *)
(* component that uses the hook has its own, and the worker knows of none.  *)
(*                                                                         *)
(* Every await is a step of its own.  Operations are numbered by their      *)
(* timestamps.  Of the tabs of the browser one is modelled, with its store   *)
(* and its pages.  The cookies that all requests carry are shared by all     *)
(* tabs, and the others are there by what they do to the cookies (Elsewhere). *)
(***************************************************************************)
EXTENDS Integers, FiniteSets

CONSTANTS
    Ops,         \* operations, in the order of their timestamps
    Accounts,    \* owner keys, <tenant>:<user>
    NoAccount,
    Pages,       \* syncs that pages may run at the same time
    Workers,     \* syncs that the service worker may run at the same time
    NoOp,
    MaxRetries,  \* maxRetries of a queued operation
    MaxCloses,   \* bound: how often a sync is cut off by its page or worker closing
    Faults       \* the faults the environment may show

ASSUME ConstantsOK ==
    /\ Ops \subseteq Nat /\ NoOp \notin Ops
    /\ NoAccount \notin Accounts
    /\ Pages \cap Workers = {}
    /\ IsFiniteSet(Pages) /\ IsFiniteSet(Workers)
    /\ MaxRetries \in Nat \ {0} /\ MaxCloses \in Nat
    /\ Faults \subseteq {"network", "session", "cancel", "tabs"}

VARIABLES
    stored,     \* the operations in the object store pending-operations
    owner,      \* ownerKey of each operation, once it was queued
    retry,      \* retryCount
    tags,       \* owner keys with a registered background sync
    user,       \* the account of the tab's authStore
    session,    \* the account of the cookie refresh_token
    cookie,     \* the account of the cookie access_token, which requests carry
    pc,         \* where each sync is
    acc,        \* the owner key it was started with
    live,       \* its AbortController has not been triggered
    todo,       \* operations of its snapshot still to be visited
    cur,        \* the operation it works on
    got,        \* the retryCount it has read
    resp,       \* what its request came to
    closes,     \* how often a sync was cut off
    applied,    \* how often the server carried out each operation, up to 2
    failures,   \* history: failed requests of each operation, up to MaxRetries
    settled,    \* history: operations the server refused or the user removed
    excused,    \* history: operations with a cause for being carried out twice
    overtaken   \* history: a login in another tab has put another account's session
                \* in the place of the tab's own

storeVars == <<stored, owner, retry>>
sessionVars == <<user, session, cookie, overtaken>>
syncVars == <<pc, acc, live, todo, cur, got, resp>>
historyVars == <<applied, failures, settled, excused>>
faultVars == <<tags, closes>>
vars == <<stored, owner, retry, tags, user, session, cookie, pc, acc, live, todo,
          cur, got, resp, closes, applied, failures, settled, excused, overtaken>>

Syncs == Pages \cup Workers
Stages == {"idle", "begin", "next", "checked", "sent", "remove", "count", "put", "review"}
Responses == {"none", "ok", "conflict", "error"}

TypeOK ==
    /\ owner \in [Ops -> Accounts \cup {NoAccount}]
    /\ stored \subseteq {o \in Ops : owner[o] # NoAccount}
    /\ retry \in [Ops -> 0..MaxRetries]
    /\ tags \subseteq Accounts
    /\ user \in Accounts \cup {NoAccount}
    /\ session \in Accounts \cup {NoAccount}
    /\ cookie \in {session, NoAccount}
    /\ overtaken \in BOOLEAN
    /\ pc \in [Syncs -> Stages]
    /\ acc \in [Syncs -> Accounts \cup {NoAccount}]
    /\ live \in [Syncs -> BOOLEAN]
    /\ todo \in [Syncs -> SUBSET Ops]
    /\ cur \in [Syncs -> Ops \cup {NoOp}]
    /\ got \in [Syncs -> 0..MaxRetries]
    /\ resp \in [Syncs -> Responses]
    /\ closes \in 0..MaxCloses
    /\ applied \in [Ops -> 0..2]
    /\ failures \in [Ops -> 0..MaxRetries]
    /\ settled \subseteq Ops
    /\ excused \subseteq Ops

Init ==
    /\ stored = {}
    /\ owner = [o \in Ops |-> NoAccount]
    /\ retry = [o \in Ops |-> 0]
    /\ tags = {}
    /\ user = NoAccount
    /\ session = NoAccount
    /\ cookie = NoAccount
    /\ overtaken = FALSE
    /\ pc = [s \in Syncs |-> "idle"]
    /\ acc = [s \in Syncs |-> NoAccount]
    /\ live = [s \in Syncs |-> TRUE]
    /\ todo = [s \in Syncs |-> {}]
    /\ cur = [s \in Syncs |-> NoOp]
    /\ got = [s \in Syncs |-> 0]
    /\ resp = [s \in Syncs |-> "none"]
    /\ closes = 0
    /\ applied = [o \in Ops |-> 0]
    /\ failures = [o \in Ops |-> 0]
    /\ settled = {}
    /\ excused = {}

-----------------------------------------------------------------------------
(* Helpers *)

\* Mutant of Incremented: the count is not raised.
NotIncremented(n) == n

\* entry.retryCount += 1, counted up to MaxRetries: only ">=" is asked of it.
Incremented(n) == IF n < MaxRetries THEN n + 1 ELSE MaxRetries

\* getAll(ownerKey)
Snapshot(a) == {o \in stored : owner[o] = a}

\* operations.sort by timestamp: the loop takes the oldest that is left.
Oldest(S) == CHOOSE o \in S : \A p \in S : o <= p

Holds(s, o) == o \in todo[s] \/ cur[s] = o

\* Mutant of ShouldStop: a session change does not stop a page's sync.
NeverStop(s) == s \in Workers /\ cookie # acc[s]

\* shouldStop(): a page asks its AbortController and its tab's store, which change
\* together, and not the cookie; the worker asks /auth/me, which answers for the
\* cookie.
ShouldStop(s) == IF s \in Pages THEN ~live[s] ELSE cookie # acc[s]

\* The request was carried out and its operation is still in the queue.
Unsettled(s) == pc[s] \in {"sent", "remove"} /\ resp[s] = "ok" /\ cur[s] \in stored

\* The sync ends; what is local to it is gone.
Leave(s) ==
    /\ pc' = [pc EXCEPT ![s] = "idle"]
    /\ acc' = [acc EXCEPT ![s] = NoAccount]
    /\ live' = [live EXCEPT ![s] = TRUE]
    /\ todo' = [todo EXCEPT ![s] = {}]
    /\ cur' = [cur EXCEPT ![s] = NoOp]
    /\ got' = [got EXCEPT ![s] = 0]
    /\ resp' = [resp EXCEPT ![s] = "none"]
    /\ excused' = IF Unsettled(s) THEN excused \cup {cur[s]} ELSE excused

\* The loop goes on with the next operation.
NextOperation(s) ==
    /\ pc' = [pc EXCEPT ![s] = "next"]
    /\ cur' = [cur EXCEPT ![s] = NoOp]
    /\ got' = [got EXCEPT ![s] = 0]
    /\ resp' = [resp EXCEPT ![s] = "none"]
    /\ UNCHANGED <<acc, live, todo>>

Goto(s, stage) ==
    /\ pc' = [pc EXCEPT ![s] = stage]
    /\ UNCHANGED <<acc, live, todo, cur, got, resp>>

Started(s, a) ==
    /\ pc' = [pc EXCEPT ![s] = "begin"]
    /\ acc' = [acc EXCEPT ![s] = a]
    /\ UNCHANGED <<live, todo, cur, got, resp>>

-----------------------------------------------------------------------------
(* Actions *)

\* enqueue: the operation is put into the store; then, on line, the page syncs,
\* and off line a background sync is registered.
Enqueue(s, o) ==
    /\ s \in Pages /\ pc[s] = "idle" /\ user # NoAccount
    /\ owner[o] = NoAccount
    /\ \A p \in Ops : p < o => owner[p] # NoAccount
    /\ stored' = stored \cup {o}
    /\ owner' = [owner EXCEPT ![o] = user]
    /\ \/ Started(s, user) /\ UNCHANGED tags
       \/ tags' = tags \cup {user} /\ UNCHANGED syncVars
    /\ UNCHANGED <<retry, sessionVars, closes, historyVars>>

\* The user presses "sync now".
SyncNow(s) ==
    /\ s \in Pages /\ pc[s] = "idle" /\ user # NoAccount
    /\ Started(s, user)
    /\ UNCHANGED <<storeVars, faultVars, sessionVars, historyVars>>

\* The browser fires the background sync that was registered for an owner key.
\* Since sync() never rejects, it is not fired again.
Fire(s, a) ==
    /\ s \in Workers /\ pc[s] = "idle" /\ a \in tags
    /\ tags' = tags \ {a}
    /\ Started(s, a)
    /\ UNCHANGED <<storeVars, sessionVars, closes, historyVars>>

\* sync: the snapshot.  An operation that another sync holds as well may be
\* carried out twice.
Begin(s) ==
    /\ pc[s] = "begin"
    /\ todo' = [todo EXCEPT ![s] = Snapshot(acc[s])]
    /\ pc' = [pc EXCEPT ![s] = "next"]
    /\ excused' = excused \cup {o \in Snapshot(acc[s]) : \E t \in Syncs \ {s} : Holds(t, o)}
    /\ UNCHANGED <<storeVars, faultVars, sessionVars, acc, live, cur, got, resp>>
    /\ UNCHANGED <<applied, failures, settled>>

\* The loop is over: nothing left, or the session is not the queue's.
End(s) ==
    /\ pc[s] = "next"
    /\ \/ todo[s] = {}
       \/ ShouldStop(s)
       \/ s \in Workers /\ "network" \in Faults
    /\ Leave(s)
    /\ UNCHANGED <<storeVars, faultVars, sessionVars, applied, failures, settled>>

\* The worker's shouldStop() waits for /auth/me before the request goes out.
Check(s) ==
    /\ s \in Workers /\ pc[s] = "next" /\ todo[s] # {} /\ ~ShouldStop(s)
    /\ Goto(s, "checked")
    /\ UNCHANGED <<storeVars, faultVars, sessionVars, historyVars>>

Ready(s) ==
    /\ todo[s] # {}
    /\ IF s \in Workers THEN pc[s] = "checked" ELSE pc[s] = "next" /\ ~ShouldStop(s)

CarryOut(o) == applied' = [applied EXCEPT ![o] = IF @ < 2 THEN @ + 1 ELSE 2]

\* fetch: the request goes out with the cookie of the moment.  Without a valid
\* one it is refused (401), which is an error like any other, and so is a
\* network failure, after which the server may have carried it out.
Send(s) ==
    /\ Ready(s)
    /\ LET o == Oldest(todo[s])
           Came(r) == resp' = [resp EXCEPT ![s] = r]
           Failed == failures' = [failures EXCEPT ![o] = Incremented(@)]
       IN  /\ todo' = [todo EXCEPT ![s] = @ \ {o}]
           /\ cur' = [cur EXCEPT ![s] = o]
           /\ \/ /\ cookie # NoAccount
                 /\ Came("ok") /\ CarryOut(o) /\ UNCHANGED <<failures, excused>>
              \/ /\ cookie # NoAccount
                 /\ Came("conflict") /\ UNCHANGED <<applied, failures, excused>>
              \/ Came("error") /\ Failed /\ UNCHANGED <<applied, excused>>
              \/ /\ "network" \in Faults /\ cookie # NoAccount
                 /\ Came("error") /\ Failed /\ CarryOut(o)
                 /\ excused' = excused \cup {o}
    /\ pc' = [pc EXCEPT ![s] = "sent"]
    /\ UNCHANGED <<storeVars, faultVars, sessionVars, acc, live, got, settled>>

\* Mutant of Answer: a success is not taken out of the queue.
AnswerKept(s) ==
    /\ pc[s] = "sent"
    /\ NextOperation(s)
    /\ UNCHANGED <<storeVars, faultVars, sessionVars, historyVars>>

\* Mutant of Answer: every error takes the operation out of the queue.
AnswerDropped(s) ==
    /\ pc[s] = "sent"
    /\ Goto(s, "remove")
    /\ UNCHANGED <<storeVars, faultVars, sessionVars, historyVars>>

\* The response, or the exception, is there; the session is looked at again.
Answer(s) ==
    /\ pc[s] = "sent"
    /\ \/ /\ ~ShouldStop(s)
          /\ Goto(s, IF resp[s] = "error" THEN "count" ELSE "remove")
          /\ UNCHANGED excused
       \/ /\ ShouldStop(s) \/ (s \in Workers /\ "network" \in Faults)
          /\ Leave(s)
    /\ UNCHANGED <<storeVars, faultVars, sessionVars, applied, failures, settled>>

\* remove, after a success, a conflict, or as many failures as are allowed.
Remove(s) ==
    /\ pc[s] = "remove"
    /\ stored' = stored \ {cur[s]}
    /\ settled' = IF resp[s] = "conflict" THEN settled \cup {cur[s]} ELSE settled
    /\ NextOperation(s)
    /\ UNCHANGED <<owner, retry, faultVars, sessionVars, applied, failures, excused>>

\* incrementRetry reads the entry in one transaction ...
Count(s) ==
    /\ pc[s] = "count"
    /\ IF cur[s] \in stored
       THEN /\ got' = [got EXCEPT ![s] = retry[cur[s]]]
            /\ pc' = [pc EXCEPT ![s] = "put"]
       ELSE /\ UNCHANGED got
            /\ pc' = [pc EXCEPT ![s] = "review"]
    /\ UNCHANGED <<storeVars, faultVars, sessionVars, acc, live, todo, cur, resp, historyVars>>

\* ... and writes the whole entry in another: an operation that was removed in
\* between is in the queue again.
Put(s) ==
    /\ pc[s] = "put"
    /\ stored' = stored \cup {cur[s]}
    /\ retry' = [retry EXCEPT ![cur[s]] = Incremented(got[s])]
    /\ Goto(s, "review")
    /\ UNCHANGED <<owner, faultVars, sessionVars, historyVars>>

\* get: an operation that failed MaxRetries times is given up.
Review(s) ==
    /\ pc[s] = "review"
    /\ IF cur[s] \in stored /\ retry[cur[s]] >= MaxRetries
       THEN Goto(s, "remove")
       ELSE NextOperation(s)
    /\ UNCHANGED <<storeVars, faultVars, sessionVars, historyVars>>

\* The page is closed or the component unmounted, the worker is killed; a killed
\* background sync may be fired again.
Close(s) ==
    /\ closes < MaxCloses /\ pc[s] # "idle"
    /\ closes' = closes + 1
    /\ Leave(s)
    /\ \/ UNCHANGED tags
       \/ s \in Workers /\ tags' = tags \cup {acc[s]}
    /\ UNCHANGED <<storeVars, sessionVars, applied, failures, settled>>

\* removePending: the user cancels an operation of theirs.
Cancel(o) ==
    /\ "cancel" \in Faults
    /\ o \in stored /\ user = owner[o]
    /\ stored' = stored \ {o}
    /\ settled' = settled \cup {o}
    /\ UNCHANGED <<owner, retry, faultVars, sessionVars, syncVars, applied, failures, excused>>

\* The store names another account: the effect of useOfflineQueue aborts the syncs.
NewUser(a) ==
    /\ user' = a
    /\ live' = [s \in Syncs |-> live[s] /\ (s \in Pages /\ a # user => pc[s] = "idle")]

\* The login response sets the cookies, and the page its store.  The login page is
\* shown where the store names nobody, which says nothing of the other tabs.
SignIn(a) ==
    /\ user = NoAccount
    /\ session' = a /\ cookie' = a
    /\ NewUser(a)
    /\ overtaken' = FALSE
    /\ UNCHANGED <<storeVars, faultVars, pc, acc, todo, cur, got, resp, historyVars>>

\* The tab restores the session of the cookies, or renews it (lib/api.ts and
\* useTokenRefresh.ts), and puts the account of the answer into its store,
\* whoever's it is.
Refresh ==
    /\ session # NoAccount
    /\ cookie' = session
    /\ NewUser(session)
    /\ overtaken' = FALSE
    /\ UNCHANGED <<storeVars, faultVars, session, pc, acc, todo, cur, got, resp, historyVars>>

\* The access token lapses, or the whole session.
Expire ==
    /\ "session" \in Faults
    /\ cookie # NoAccount
    /\ cookie' = NoAccount
    /\ \/ UNCHANGED <<session, overtaken>>
       \/ session' = NoAccount /\ overtaken' = FALSE
    /\ UNCHANGED <<storeVars, faultVars, user, syncVars, historyVars>>

\* revokeSessionAndClearLocalState: the store is cleared whether or not the server
\* could clear the cookies.
Logout ==
    /\ "session" \in Faults
    /\ user # NoAccount
    /\ \/ UNCHANGED <<session, cookie>>
       \/ session' = NoAccount /\ cookie' = NoAccount
    /\ NewUser(NoAccount)
    /\ overtaken' = FALSE
    /\ UNCHANGED <<storeVars, faultVars, pc, acc, todo, cur, got, resp, historyVars>>

\* Another tab logs in, renews the session or logs out.  Nothing tells this tab:
\* its store is asked by its pages, and was filled before.
Elsewhere ==
    /\ "tabs" \in Faults
    /\ session' \in Accounts \cup {NoAccount} /\ cookie' = session'
    /\ overtaken' = (user # NoAccount /\ session' \notin {user, NoAccount})
    /\ UNCHANGED <<storeVars, faultVars, user, syncVars, historyVars>>

Loop(s) ==
    \/ Begin(s) \/ End(s) \/ Check(s) \/ Send(s) \/ Answer(s)
    \/ Remove(s) \/ Count(s) \/ Put(s) \/ Review(s)

Next ==
    \/ \E s \in Syncs :
          \/ (\E o \in Ops : Enqueue(s, o)) \/ SyncNow(s)
          \/ (\E a \in Accounts : Fire(s, a))
          \/ Loop(s) \/ Close(s)
    \/ \E o \in Ops : Cancel(o)
    \/ \E a \in Accounts : SignIn(a)
    \/ Refresh \/ Expire \/ Logout \/ Elsewhere

Spec == Init /\ [][Next]_vars

\* Promises settle, and the user goes on pressing the button.
Fairness == \A s \in Syncs : WF_vars(Loop(s)) /\ WF_vars(SyncNow(s))

FairSpec == Spec /\ Fairness

-----------------------------------------------------------------------------
(* Properties *)

Queued == {o \in Ops : owner[o] # NoAccount}

\* What a user has queued does not vanish: an operation that is not in the store
\* any more was carried out, was refused or cancelled, or has really failed as
\* often as it may.  Two syncs that count its failures at once lose counts, and
\* never gain any.
NothingVanishes ==
    \A o \in Queued \ stored :
        applied[o] > 0 \/ o \in settled \/ failures[o] >= MaxRetries

\* The queue as a stage that hands work on: it answers for an operation until
\* the server has carried it out or refused it, its user has cancelled it, or it
\* has failed as often as it may.
Custody == INSTANCE Handover WITH
    Items <- Ops,
    kept <- stored,
    finished <- {o \in Ops : applied[o] > 0 \/ o \in settled \/ failures[o] >= MaxRetries}

KeptUntilAnswered == Custody!Spec

\* An operation is carried out twice only for a reason: two syncs held it at
\* once, an answer was lost, or a sync was cut off between the answer and the
\* removal.
DuplicateHasCause ==
    \A o \in Ops : applied[o] > 1 => o \in excused

\* A page sends only what the tab's account has queued, and with no other account's
\* cookie, however logging out and in, renewing and lapsing of the session fall
\* between the requests of its loop.  There is one exception, which shouldStop()
\* cannot see: a login in another tab.
SentByOwner ==
    [][\A s \in Pages : pc[s] # "sent" /\ pc'[s] = "sent"
          => /\ owner[cur'[s]] = user
             /\ cookie \in {user, NoAccount} \/ overtaken]_vars

\* While its owner is logged in and goes on syncing, an operation leaves the
\* queue, though requests fail for ever and syncs overwrite each other's
\* counts.
EventuallyLeaves ==
    \A o \in Ops :
        o \in stored /\ user = owner[o] ~> o \notin stored \/ user # owner[o]
=============================================================================
