---------------------------- MODULE TokenRefresh ----------------------------
(***************************************************************************)
(* How credentials are kept fresh (sdk/cliproxy/auth): the refresh loop    *)
(* with its heap and workers (auto_refresh_loop.go), the refresh itself,   *)
(* which requests answered with 401 share with the workers                 *)
(* (conductor_refresh.go), the merge of its result (metadata_merge.go),    *)
(* and the handlers that register, edit and remove credentials meanwhile   *)
(* (conductor_lifecycle.go).                                               *)
(*                                                                         *)
(* A credential has an expiry, as OAuth tokens do; API keys are never      *)
(* scheduled and left out.  Access and refresh token are one token.  The   *)
(* metadata a refresh does not replace is the number note.  Zero is Go's   *)
(* zero time.  queueReschedule wakes the loop after its unlock; here both  *)
(* are one step, since a loop that drains in between is only woken once    *)
(* more, for nothing.  The executors are registered and the loop is never  *)
(* stopped.                                                                *)
(***************************************************************************)
EXTENDS Integers, Sequences, FiniteSets, FiniteSetsExt

CONSTANTS
    Ids,            \* names of credentials
    Workers,        \* goroutines of the loop
    Requests,       \* requests, whose credentials are refused with 401
    Editors,        \* management handlers
    JobBuffer,      \* capacity of the jobs channel
    Life,           \* how long after its issue a token is due for refresh
    Lead,           \* what is then left until it expires
    Skew,           \* what is left of a token that the api-call tool does not use any more
    PendingBackoff, IneffectiveBackoff, FailureBackoff,
    MaxTime,        \* bound: the clock
    MaxBusy,        \* bound: a request or an editor starts with fewer callers and editors busy
    MaxEvents       \* bound: calls of a provider, updates and registrations and
                    \* failed saves, together

ASSUME RefreshAssumption ==
    /\ {JobBuffer, Life, PendingBackoff, IneffectiveBackoff, FailureBackoff, MaxTime}
           \subseteq Nat \ {0}
    /\ {Lead, Skew, MaxBusy, MaxEvents} \subseteq Nat
    /\ Workers \cap Requests = {}

Callers == Workers \cup Requests

VARIABLES
    now,            \* the clock
    auths,          \* Manager.auths
    authEpochs,     \* Manager.authEpochs
    loop,           \* where the loop is, its local now, due or dirty credentials in hand
    heap,           \* when the loop looks at each credential again, 0 when never
    dirty, wake,    \* authAutoRefreshLoop.dirty and wakeCh
    timer,          \* when the timer fires, 0 when it is stopped or not yet reset
    jobs,           \* the jobs channel
    call,           \* each caller of refreshAuthForRequest
    edit,           \* each editor
    watermark,      \* authPersistLock: epoch and generation last persisted
    store,          \* what the token store holds of each credential
    events,         \* history: what MaxEvents bounds
    owner,          \* history: the registration each token of a credential was issued to
    spent,          \* history: tokens exchanged for a new one
    restored,       \* history: replaced tokens that an edit wrote back
    loose,          \* history: tokens exchanged without the credential's lock, or for
                    \* one that never arrived
    noted,          \* history: the last note an editor has set
    unsaved,        \* history: credentials whose last Save failed
    orphaned,       \* history: credentials unscheduled by a removal that they follow
    markedAt        \* history: the loop's now when it last marked it for a job, 0 after an edit

loopVars == <<loop, heap, dirty, wake, timer, jobs>>
storeVars == <<watermark, store, unsaved>>
tokenVars == <<owner, spent, restored, loose>>
outside == <<now, auths, authEpochs, call, edit, storeVars, tokenVars, events, noted,
             orphaned, markedAt>>
vars == <<outside, loopVars>>

NoAuth == [epoch |-> 0]
Present(id) == auths[id] # NoAuth

\* A credential as a login creates it.
Login(epoch, gen, token, note) ==
    [epoch |-> epoch, gen |-> gen, token |-> token, due |-> now + Life, nra |-> 0,
     err |-> "none", errOf |-> 0, down |-> FALSE, note |-> note]

\* A copy to work on.  Nobody looks at the generation of one.
Clone(id) == [auths[id] EXCEPT !.gen = 0]

Idle == [pc |-> "idle"]

\* There is room for another request or editor.
Room == Cardinality({p \in Callers : call[p] # Idle})
            + Cardinality({e \in Editors : edit[e] # Idle}) < MaxBusy

\* Load has read credentials that are due.
Init ==
    /\ now = 1
    /\ auths = [id \in Ids |-> [Login(1, 1, 1, 0) EXCEPT !.due = now]]
    /\ authEpochs = [id \in Ids |-> 1]
    /\ loop = [pc |-> "off", todo |-> {}, seen |-> 0]
    /\ heap = [id \in Ids |-> 0]
    /\ dirty = {} /\ wake = FALSE /\ timer = 0 /\ jobs = <<>>
    /\ call = [p \in Callers |-> Idle]
    /\ edit = [e \in Editors |-> Idle]
    /\ watermark = [id \in Ids |-> <<0, 0>>]
    /\ store = [id \in Ids |-> <<1, 0>>]
    /\ events = 0
    /\ owner = [id \in Ids |-> <<1>>]
    /\ spent = [id \in Ids |-> {}] /\ restored = [id \in Ids |-> {}]
    /\ loose = [id \in Ids |-> {}]
    /\ noted = [id \in Ids |-> 0]
    /\ unsaved = {} /\ orphaned = {}
    /\ markedAt = [id \in Ids |-> 0]

Tick ==
    /\ now < MaxTime
    /\ now' = now + 1
    /\ UNCHANGED <<auths, authEpochs, call, edit, storeVars, tokenVars, events, noted,
                   orphaned, markedAt, loopVars>>

(***************************************************************************)
(* When a credential is looked at and when it is refreshed.  shouldRefresh *)
(* compares the expiry with the clock, everything else with the loop's t.  *)
(***************************************************************************)
hasUnauthorizedAuthFailure(a) == a.down /\ a.nra = 0 /\ a.err = "unauthorized"

HasValidAccessToken(a) == a.due + Lead > now

nextRefreshCheckAt(t, a) ==
    CASE a = NoAuth -> 0
      [] a # NoAuth /\ hasUnauthorizedAuthFailure(a) -> 0
      [] a # NoAuth /\ ~hasUnauthorizedAuthFailure(a) /\ a.nra > t -> a.nra
      [] OTHER -> Max({t, a.due})

shouldRefresh(a, t) == ~hasUnauthorizedAuthFailure(a) /\ a.nra <= t /\ a.due <= now

(***************************************************************************)
(* queueRefreshReschedule and queueRefreshUnschedule do nothing before the *)
(* loop is published.                                                      *)
(***************************************************************************)
Published == loop.pc # "off"

queueReschedule(id) ==
    /\ dirty' = dirty \cup {id}
    /\ wake' = TRUE
    /\ orphaned' = orphaned \ {id}

queueRefreshReschedule(id) ==
    IF Published THEN queueReschedule(id) ELSE UNCHANGED <<dirty, wake, orphaned>>

\* What persist uses of a credential.
Saving(a) == [epoch |-> a.epoch, gen |-> a.gen, token |-> a.token, note |-> a.note]

(***************************************************************************)
(* persist: an older registration or generation is not saved; Save may     *)
(* fail, and nobody looks at its error.                                    *)
(***************************************************************************)
Older(a, mark) == a.epoch < mark[1] \/ (a.epoch = mark[1] /\ a.gen < mark[2])

\* Mutant of persist: whoever comes last is saved.
persistAnyway(id, a) ==
    /\ watermark' = [watermark EXCEPT ![id] = <<a.epoch, a.gen>>]
    /\ store' = [store EXCEPT ![id] = <<a.token, a.note>>]
    /\ unsaved' = unsaved \ {id}
    /\ UNCHANGED events

persist(id, a) ==
    \/ /\ Older(a, watermark[id])
       /\ UNCHANGED <<storeVars, events>>
    \/ /\ ~Older(a, watermark[id])
       /\ watermark' = [watermark EXCEPT ![id] = <<a.epoch, a.gen>>]
       /\ \/ /\ store' = [store EXCEPT ![id] = <<a.token, a.note>>]
             /\ unsaved' = unsaved \ {id}
             /\ UNCHANGED events
          \/ /\ unsaved' = unsaved \cup {id}
             /\ events < MaxEvents
             /\ events' = events + 1
             /\ UNCHANGED store

(***************************************************************************)
(* StartAutoRefresh publishes the loop, then rebuilds the heap: it reads   *)
(* the credentials under one lock and installs them under another.         *)
(***************************************************************************)
StartAutoRefresh ==
    /\ loop.pc = "off"
    /\ loop' = [loop EXCEPT !.pc = "rebuild"]
    /\ UNCHANGED <<outside, heap, dirty, wake, timer, jobs>>

RebuildRead ==
    /\ loop.pc = "rebuild"
    /\ loop' = [pc |-> "install", todo |-> {}, seen |-> now,
                plan |-> [id \in Ids |-> nextRefreshCheckAt(now, auths[id])]]
    /\ UNCHANGED <<outside, heap, dirty, wake, timer, jobs>>

\* Mutant of RebuildInstall: what has become dirty since RebuildRead is dropped.
RebuildInstallClean ==
    /\ loop.pc = "install"
    /\ heap' = loop.plan
    /\ dirty' = {}
    /\ loop' = [pc |-> "dirty", todo |-> {}, seen |-> now]
    /\ UNCHANGED <<outside, wake, timer, jobs>>

RebuildInstall ==
    /\ loop.pc = "install"
    /\ heap' = loop.plan
    /\ loop' = [pc |-> "dirty", todo |-> {}, seen |-> now]
    /\ UNCHANGED <<outside, dirty, wake, timer, jobs>>

(***************************************************************************)
(* The loop's select: handleDue with everything due (nothing, when it was  *)
(* woken), applyDirty with everything dirty, resetTimer.  While it has one *)
(* of them in hand, phase says which list it came from.                    *)
(***************************************************************************)
LoopWoken ==
    /\ loop.pc = "select" /\ wake
    /\ wake' = FALSE
    /\ loop' = [pc |-> "due", todo |-> {}, seen |-> now]
    /\ timer' = 0
    /\ UNCHANGED <<outside, heap, dirty, jobs>>

\* The timer fires and popDue takes everything due from the heap.
popDue ==
    LET due == {id \in Ids : heap[id] # 0 /\ heap[id] <= now}
    IN /\ loop.pc = "select" /\ timer # 0 /\ timer <= now
       /\ timer' = 0
       /\ heap' = [id \in Ids |-> IF id \in due THEN 0 ELSE heap[id]]
       /\ loop' = [pc |-> "due", todo |-> due, seen |-> now]
       /\ UNCHANGED <<outside, dirty, wake, jobs>>

\* The loop has id in hand, at pc, to put next into the heap (0: to remove it).
InHand(pc, id, next) ==
    [pc |-> pc, phase |-> loop.pc, id |-> id, next |-> next,
     todo |-> loop.todo \ {id}, seen |-> loop.seen]

\* handleDueAuth up to its first unlock.
handleDueAuth(id) ==
    LET a == auths[id]
        next == nextRefreshCheckAt(loop.seen, a)
    IN /\ loop.pc = "due" /\ id \in loop.todo
       /\ \/ /\ a = NoAuth
             /\ loop' = [loop EXCEPT !.todo = @ \ {id}]
          \/ /\ a # NoAuth
             /\ next = 0 \/ ~shouldRefresh(a, loop.seen)
             /\ loop' = InHand("put", id, next)
          \/ /\ a # NoAuth
             /\ next # 0 /\ shouldRefresh(a, loop.seen)
             /\ loop' = InHand("mark", id, 0)
       /\ UNCHANGED <<outside, heap, dirty, wake, timer, jobs>>

\* Mutant of markRefreshPending: the marked credential is not rescheduled.
markRefreshPendingOnly ==
    LET id == loop.id
        pending == Present(id) /\ auths[id].nra <= loop.seen
    IN /\ loop.pc = "mark"
       /\ loop' = [loop EXCEPT !.pc = IF pending THEN "send" ELSE "reread"]
       /\ auths' = IF pending
                   THEN [auths EXCEPT ![id].nra = loop.seen + PendingBackoff,
                                      ![id].gen = @ + 1]
                   ELSE auths
       /\ UNCHANGED <<now, authEpochs, heap, dirty, wake, timer, jobs, call, edit,
                      storeVars, tokenVars, events, noted, orphaned, markedAt>>

markRefreshPending ==
    LET id == loop.id
    IN /\ loop.pc = "mark"
       /\ \/ /\ Present(id) /\ auths[id].nra <= loop.seen
             /\ auths' = [auths EXCEPT ![id].nra = loop.seen + PendingBackoff,
                                       ![id].gen = @ + 1]
             /\ queueRefreshReschedule(id)
             /\ loop' = [loop EXCEPT !.pc = "send"]
             /\ markedAt' = [markedAt EXCEPT ![id] = loop.seen]
          \/ /\ ~(Present(id) /\ auths[id].nra <= loop.seen)
             /\ loop' = [loop EXCEPT !.pc = "reread"]
             /\ UNCHANGED <<auths, dirty, wake, orphaned, markedAt>>
       /\ UNCHANGED <<now, authEpochs, heap, timer, jobs, call, edit, storeVars,
                      tokenVars, events, noted>>

\* markRefreshPending refused: handleDueAuth looks again.
RereadDue ==
    /\ loop.pc = "reread"
    /\ loop' = [loop EXCEPT !.pc = "put",
                            !.next = nextRefreshCheckAt(loop.seen, auths[loop.id])]
    /\ UNCHANGED <<outside, heap, dirty, wake, timer, jobs>>

Back == [pc |-> loop.phase, todo |-> loop.todo, seen |-> loop.seen]

\* Mutant of SendJob: the channel never fills.
SendJobUnbounded ==
    /\ loop.pc = "send"
    /\ jobs' = Append(jobs, loop.id)
    /\ loop' = Back
    /\ UNCHANGED <<outside, heap, dirty, wake, timer>>

SendJob ==
    /\ loop.pc = "send" /\ Len(jobs) < JobBuffer
    /\ jobs' = Append(jobs, loop.id)
    /\ loop' = Back
    /\ UNCHANGED <<outside, heap, dirty, wake, timer>>

drainDirty ==
    /\ loop.pc = "due" /\ loop.todo = {}
    /\ loop' = [pc |-> "dirty", todo |-> dirty, seen |-> loop.seen]
    /\ dirty' = {}
    /\ UNCHANGED <<outside, heap, wake, timer, jobs>>

applyDirty(id) ==
    /\ loop.pc = "dirty" /\ id \in loop.todo
    /\ loop' = InHand("put", id, nextRefreshCheckAt(loop.seen, auths[id]))
    /\ UNCHANGED <<outside, heap, dirty, wake, timer, jobs>>

\* upsert, or remove when there is nothing to wait for.
upsert ==
    /\ loop.pc = "put"
    /\ heap' = [heap EXCEPT ![loop.id] = loop.next]
    /\ loop' = Back
    /\ UNCHANGED <<outside, dirty, wake, timer, jobs>>

\* The timer runs for the time there was until the next credential when the loop read
\* its clock: it fires late by what handleDue and applyDirty took.
resetTimer ==
    LET queued == {heap[id] : id \in Ids} \ {0}
    IN /\ loop.pc = "dirty" /\ loop.todo = {}
       /\ timer' = IF queued = {} THEN 0 ELSE now + Max({0, Min(queued) - loop.seen})
       /\ loop' = [loop EXCEPT !.pc = "select"]
       /\ UNCHANGED <<outside, heap, dirty, wake, jobs>>

(***************************************************************************)
(* refreshAuthForRequest, called by the workers and by requests that were  *)
(* answered with 401, one at a time per credential.                        *)
(***************************************************************************)
\* A request is answered with 401; it used the token the credential had.
RequestRefused(r, id) ==
    /\ call[r] = Idle /\ r \in Requests /\ Room
    /\ Present(id)
    /\ call' = [call EXCEPT ![r] = [pc |-> "enter", id |-> id, failed |-> auths[id].token]]
    /\ UNCHANGED <<now, auths, authEpochs, edit, storeVars, tokenVars, events, noted,
                   orphaned, markedAt, loopVars>>

TakeJob(w) ==
    /\ call[w] = Idle /\ w \in Workers
    /\ jobs # <<>>
    /\ call' = [call EXCEPT ![w] = [pc |-> "enter", id |-> Head(jobs), failed |-> 0]]
    /\ jobs' = Tail(jobs)
    /\ UNCHANGED <<now, auths, authEpochs, edit, storeVars, tokenVars, events, noted,
                   orphaned, markedAt, loop, heap, dirty, wake, timer>>

Locked(id) == \E p \in Callers : call[p].pc \in {"calling", "announce"} /\ call[p].id = id

\* A worker reschedules the credential whatever came of the refresh.
Return(p) ==
    call' = [call EXCEPT ![p] = IF p \in Workers THEN [pc |-> "again", id |-> call[p].id]
                                                 ELSE Idle]

\* Mutant of refreshAuthForRequest: the credential is not locked.
refreshUnlocked(p) ==
    LET id == call[p].id
        needed == Present(id) /\ call[p].failed \in {0, auths[id].token}
    IN /\ call[p].pc = "enter"
       /\ needed
       /\ events < MaxEvents
       /\ call' = [call EXCEPT ![p] = [pc |-> "calling", id |-> id, base |-> Clone(id)]]
       /\ events' = events + 1
       /\ UNCHANGED <<now, auths, authEpochs, edit, storeVars, tokenVars,
                      noted, orphaned, markedAt, loopVars>>

\* Up to the call of the provider.  A request whose token has been replaced meanwhile
\* takes the new one.
refreshAuthForRequest(p) ==
    LET id == call[p].id
        needed == Present(id) /\ call[p].failed \in {0, auths[id].token}
    IN /\ call[p].pc = "enter"
       /\ ~Locked(id)
       /\ \/ /\ ~needed
             /\ Return(p)
             /\ UNCHANGED events
          \/ /\ needed
             /\ events < MaxEvents
             /\ call' = [call EXCEPT ![p] = [pc |-> "calling", id |-> id, base |-> Clone(id)]]
             /\ events' = events + 1
       /\ UNCHANGED <<now, auths, authEpochs, edit, storeVars, tokenVars,
                      noted, orphaned, markedAt, loopVars>>

\* A call of the provider brings no new token; the provider may have exchanged the old one
\* all the same.
Unanswered(id, token, exchanged) ==
    /\ spent' = IF exchanged THEN [spent EXCEPT ![id] = @ \cup {token}] ELSE spent
    /\ loose' = IF exchanged THEN [loose EXCEPT ![id] = @ \cup {token}] ELSE loose

\* The request's client has gone.
RefreshCanceled(p, exchanged) ==
    /\ call[p].pc = "calling"
    /\ p \in Requests
    /\ Unanswered(call[p].id, call[p].base.token, exchanged)
    /\ Return(p)
    /\ UNCHANGED <<now, auths, authEpochs, edit, storeVars, owner, restored, events, noted,
                   orphaned, markedAt, loopVars>>

\* What a failed refresh does to the credential.
Failed(a, base, err) ==
    LET retry == now + FailureBackoff
    IN [a EXCEPT !.gen = @ + 1, !.err = err, !.errOf = base.epoch,
                 !.down = @ \/ ~HasValidAccessToken(a),
                 !.nra = CASE HasValidAccessToken(a) -> Min({retry, a.due + Lead})
                           [] ~HasValidAccessToken(a) /\ err = "unauthorized" -> 0
                           [] OTHER -> retry]

\* Mutant of RefreshFails: the failure is charged to whoever has the name now.
RefreshFailsAnyone(p, err, exchanged) ==
    LET id == call[p].id
        base == call[p].base
    IN /\ call[p].pc = "calling"
       /\ Present(id)
       /\ auths' = [auths EXCEPT ![id] = Failed(@, base, err)]
       /\ call' = [call EXCEPT ![p] = [pc |-> "announce", id |-> id, saved |-> NoAuth]]
       /\ Unanswered(id, base.token, exchanged)
       /\ UNCHANGED <<now, authEpochs, edit, storeVars, owner, restored, events, noted,
                      orphaned, markedAt, loopVars>>

\* The provider refuses, or its answer is lost on the way.
RefreshFails(p, err, exchanged) ==
    LET id == call[p].id
        base == call[p].base
    IN /\ call[p].pc = "calling"
       /\ \/ /\ auths[id].epoch # base.epoch
             /\ Return(p)
             /\ UNCHANGED auths
          \/ /\ auths[id].epoch = base.epoch
             /\ auths' = [auths EXCEPT ![id] = Failed(@, base, err)]
             /\ call' = [call EXCEPT ![p] = [pc |-> "announce", id |-> id, saved |-> NoAuth]]
       /\ Unanswered(id, base.token, exchanged)
       /\ UNCHANGED <<now, authEpochs, edit, storeVars, owner, restored, events, noted,
                      orphaned, markedAt, loopVars>>

(***************************************************************************)
(* A refresh that succeeded: with a new token, or with what there was.     *)
(***************************************************************************)
\* Mutant of Throttled: a refresh that has changed nothing may be repeated at once.
NotThrottled(a) == a

\* A credential that is due after its refresh is left alone for a while.
Throttled(a) == IF shouldRefresh(a, now) THEN [a EXCEPT !.nra = now + IneffectiveBackoff] ELSE a

Updated(base, token) ==
    Throttled([base EXCEPT !.token = token,
                           !.due = IF token = base.token THEN @ ELSE now + Life,
                           !.nra = 0, !.err = "none", !.errOf = 0, !.down = FALSE])

\* Mutant of MergeRefreshedAuth: the result replaces the credential.
MergeNothing(base, current, updated) == [updated EXCEPT !.gen = current.gen]

\* The three-way merge: what the provider changed, on top of what others changed.
MergeRefreshedAuth(base, current, updated) ==
    LET replaced == updated.token # base.token
        newError == current.err # "none" /\ current.err # base.err
    IN IF current.epoch # base.epoch THEN current
       ELSE [current EXCEPT
                 !.token = IF replaced THEN updated.token ELSE @,
                 !.due = IF replaced THEN updated.due ELSE @,
                 !.nra = IF updated.nra # 0 \/ base.nra # 0 THEN updated.nra ELSE @,
                 !.err = IF newError THEN @ ELSE "none",
                 !.errOf = IF newError THEN @ ELSE 0,
                 !.down = newError /\ @]

\* The end of updateInternal's critical section.
Committed(id, a) ==
    [a EXCEPT !.epoch = authEpochs[id], !.gen = Max({a.gen, auths[id].gen}) + 1]

\* The provider answers and UpdateRefreshedAuth merges.  A new token is issued to the
\* registration the old one was read from.
RefreshSucceeds(p, new) ==
    LET id == call[p].id
        base == call[p].base
        token == IF new THEN Len(owner[id]) + 1 ELSE base.token
        merged == Committed(id, MergeRefreshedAuth(base, auths[id], Updated(base, token)))
    IN /\ call[p].pc = "calling"
       /\ \/ /\ new
             /\ owner' = [owner EXCEPT ![id] = Append(@, base.epoch)]
             /\ spent' = [spent EXCEPT ![id] = @ \cup {base.token}]
          \/ ~new /\ UNCHANGED <<owner, spent>>
       /\ \/ /\ auths[id].epoch # base.epoch
             /\ Return(p)
             /\ UNCHANGED auths
          \/ /\ auths[id].epoch = base.epoch
             /\ auths' = [auths EXCEPT ![id] = merged]
             /\ call' = [call EXCEPT ![p] =
                   [pc |-> "announce", id |-> id, saved |-> Saving(merged)]]
       /\ UNCHANGED <<now, authEpochs, edit, storeVars, restored, loose, events,
                      noted, orphaned, markedAt, loopVars>>

\* queueRefreshReschedule and persist, which have nothing in common, in one step.
RefreshAnnounced(p) ==
    /\ call[p].pc = "announce"
    /\ queueRefreshReschedule(call[p].id)
    /\ \/ call[p].saved = NoAuth /\ UNCHANGED <<storeVars, events>>
       \/ call[p].saved # NoAuth /\ persist(call[p].id, call[p].saved)
    /\ Return(p)
    /\ UNCHANGED <<now, auths, authEpochs, edit, tokenVars, noted, markedAt, loop, heap,
                   timer, jobs>>

WorkerRequeue(w) ==
    /\ call[w].pc = "again"
    /\ queueReschedule(call[w].id)
    /\ call' = [call EXCEPT ![w] = Idle]
    /\ UNCHANGED <<now, auths, authEpochs, edit, storeVars, tokenVars, events, noted, markedAt,
                   loop, heap, timer, jobs>>

(***************************************************************************)
(* The editors.  upsertAuthRecord and the handlers of the fields look the  *)
(* credential up and then call Update or Register.  An upload brings a new *)
(* login without an epoch; an edit of a field writes back what it has read *)
(* with a new note.                                                        *)
(***************************************************************************)
LookUp(e, id, upload) ==
    /\ edit[e] = Idle /\ Room
    /\ events < MaxEvents
    /\ events' = events + 1
    /\ \/ /\ Present(id)
          /\ edit' = [edit EXCEPT ![e] =
                [pc |-> "update", id |-> id, upload |-> upload,
                 read |-> [Clone(id) EXCEPT !.note = events + 1]]]
       \/ /\ ~Present(id) /\ upload
          /\ edit' = [edit EXCEPT ![e] = [pc |-> "register", id |-> id, note |-> events + 1]]
    /\ UNCHANGED <<now, auths, authEpochs, call, storeVars, tokenVars, noted, orphaned,
                   markedAt, loopVars>>

\* The editor has stored a in Manager.auths.
Stored(e, id, a) ==
    /\ auths' = [auths EXCEPT ![id] = a]
    /\ noted' = [noted EXCEPT ![id] = a.note]
    /\ markedAt' = [markedAt EXCEPT ![id] = 0]
    /\ edit' = [edit EXCEPT ![e] = [pc |-> "announce", id |-> id, saved |-> Saving(a)]]

Update(e) ==
    LET id == edit[e].id
        read == edit[e].read
        token == Len(owner[id]) + 1
        login == [Login(0, 0, token, read.note) EXCEPT !.nra = read.nra]
    IN /\ edit[e].pc = "update"
       /\ \/ /\ ~Present(id) \/ (~edit[e].upload /\ read.epoch < authEpochs[id])
             /\ edit' = [edit EXCEPT ![e] = Idle]
             /\ UNCHANGED <<auths, noted, markedAt, owner, restored>>
          \/ /\ Present(id) /\ edit[e].upload
             /\ Stored(e, id, Committed(id, login))
             /\ owner' = [owner EXCEPT ![id] = Append(@, auths[id].epoch)]
             /\ UNCHANGED restored
          \/ /\ Present(id) /\ ~edit[e].upload /\ read.epoch >= authEpochs[id]
             /\ Stored(e, id, Committed(id, read))
             /\ restored' = [restored EXCEPT ![id] = @ \cup ({read.token} \ {auths[id].token})]
             /\ UNCHANGED owner
       /\ UNCHANGED <<now, authEpochs, call, storeVars, spent, loose, events,
                      orphaned, loopVars>>

Register(e) ==
    LET id == edit[e].id
        epoch == authEpochs[id] + 1
    IN /\ edit[e].pc = "register"
       /\ authEpochs' = [authEpochs EXCEPT ![id] = epoch]
       /\ Stored(e, id, Login(epoch, 1, Len(owner[id]) + 1, edit[e].note))
       /\ owner' = [owner EXCEPT ![id] = Append(@, epoch)]
       /\ UNCHANGED <<now, call, storeVars, spent, restored, loose, events, orphaned,
                      loopVars>>

EditAnnounced(e) ==
    /\ edit[e].pc = "announce"
    /\ queueRefreshReschedule(edit[e].id)
    /\ persist(edit[e].id, edit[e].saved)
    /\ edit' = [edit EXCEPT ![e] = Idle]
    /\ UNCHANGED <<now, auths, authEpochs, call, tokenVars, noted, markedAt, loop, heap,
                   timer, jobs>>

(***************************************************************************)
(* The api-call tool of the management interface exchanges an outdated     *)
(* token without the credential's lock and writes its copy back with the   *)
(* new one, if the answer arrives and the registration is still the one it *)
(* has read.  It counts as an editor: its note is the one it has read.  A  *)
(* request to Antigravity with an outdated token exchanges it likewise,    *)
(* for itself, and stores nothing: ExchangeFails covers it.                *)
(***************************************************************************)
resolveTokenForAuth(e, id) ==
    /\ edit[e] = Idle /\ Room
    /\ events < MaxEvents
    /\ Present(id) /\ auths[id].due + Lead <= now + Skew
    /\ events' = events + 1
    /\ edit' = [edit EXCEPT ![e] = [pc |-> "exchange", id |-> id, read |-> Clone(id)]]
    /\ UNCHANGED <<now, auths, authEpochs, call, storeVars, tokenVars, noted, orphaned,
                   markedAt, loopVars>>

ExchangeFails(e, exchanged) ==
    /\ edit[e].pc = "exchange"
    /\ Unanswered(edit[e].id, edit[e].read.token, exchanged)
    /\ edit' = [edit EXCEPT ![e] = Idle]
    /\ UNCHANGED <<now, auths, authEpochs, call, storeVars, owner, restored, events, noted,
                   orphaned, markedAt, loopVars>>

ExchangeSucceeds(e) ==
    LET id == edit[e].id
        read == edit[e].read
        fresh == [read EXCEPT !.token = Len(owner[id]) + 1, !.due = now + Life]
    IN /\ edit[e].pc = "exchange"
       /\ spent' = [spent EXCEPT ![id] = @ \cup {read.token}]
       /\ loose' = [loose EXCEPT ![id] = @ \cup {read.token}]
       /\ \/ /\ ~Present(id) \/ read.epoch < authEpochs[id]
             /\ edit' = [edit EXCEPT ![e] = Idle]
             /\ UNCHANGED <<auths, noted, markedAt, owner>>
          \/ /\ Present(id) /\ read.epoch >= authEpochs[id]
             /\ Stored(e, id, Committed(id, fresh))
             /\ owner' = [owner EXCEPT ![id] = Append(@, read.epoch)]
       /\ UNCHANGED <<now, authEpochs, call, storeVars, restored, events, orphaned, loopVars>>

\* Remove deletes under the manager's lock and unschedules later.
Remove(e, id) ==
    /\ edit[e] = Idle /\ Room
    /\ Present(id)
    /\ auths' = [auths EXCEPT ![id] = NoAuth]
    /\ authEpochs' = [authEpochs EXCEPT ![id] = @ + 1]
    /\ edit' = [edit EXCEPT ![e] = [pc |-> "unschedule", id |-> id]]
    /\ UNCHANGED <<now, call, storeVars, tokenVars, events, noted, orphaned, markedAt,
                   loopVars>>

queueRefreshUnschedule(e) ==
    LET id == edit[e].id
    IN /\ edit[e].pc = "unschedule"
       /\ heap' = IF Published THEN [heap EXCEPT ![id] = 0] ELSE heap
       /\ orphaned' = IF Published /\ Present(id) THEN orphaned \cup {id} ELSE orphaned
       /\ edit' = [edit EXCEPT ![e] = Idle]
       /\ UNCHANGED <<now, auths, authEpochs, call, storeVars, tokenVars, events, noted,
                      markedAt, loop, dirty, wake, timer, jobs>>

-----------------------------------------------------------------------------
LoopNext ==
    \/ StartAutoRefresh \/ RebuildRead \/ RebuildInstall \/ LoopWoken \/ popDue
    \/ markRefreshPending \/ RereadDue \/ SendJob \/ drainDirty \/ upsert \/ resetTimer
    \/ \E id \in Ids : handleDueAuth(id) \/ applyDirty(id)

CallNext(p) ==
    \/ TakeJob(p) \/ refreshAuthForRequest(p) \/ RefreshAnnounced(p) \/ WorkerRequeue(p)
    \/ \E id \in Ids : RequestRefused(p, id)
    \/ \E exchanged \in BOOLEAN :
        \/ RefreshCanceled(p, exchanged)
        \/ \E err \in {"unauthorized", "failed"} : RefreshFails(p, err, exchanged)
    \/ \E new \in BOOLEAN : RefreshSucceeds(p, new)

EditNext(e) ==
    \/ Update(e) \/ Register(e) \/ EditAnnounced(e)
    \/ queueRefreshUnschedule(e) \/ ExchangeSucceeds(e)
    \/ \E exchanged \in BOOLEAN : ExchangeFails(e, exchanged)
    \/ \E id \in Ids : resolveTokenForAuth(e, id)
    \/ \E id \in Ids : Remove(e, id) \/ \E upload \in BOOLEAN : LookUp(e, id, upload)

Next ==
    \/ Tick
    \/ LoopNext
    \/ \E p \in Callers : CallNext(p)
    \/ \E e \in Editors : EditNext(e)

Spec == Init /\ [][Next]_vars

-----------------------------------------------------------------------------
\* Type invariant: the state of the manager, of the loop and of the jobs channel.
TypeOK ==
    /\ now \in 1..MaxTime
    /\ authEpochs \in [Ids -> Nat \ {0}]
    /\ heap \in [Ids -> Nat] /\ timer \in Nat
    /\ dirty \subseteq Ids /\ wake \in BOOLEAN
    /\ jobs \in Seq(Ids) /\ Len(jobs) <= JobBuffer
    /\ loop.pc \in {"off", "rebuild", "install", "select", "due", "mark", "reread", "send",
                    "put", "dirty"}
    /\ loop.todo \subseteq Ids /\ loop.seen \in 0..now
    /\ \A id \in Ids : auths[id].epoch \in 0..authEpochs[id]

\* The time t is no later than the moment the credential has to be looked at.
InTime(t, id) == t \in 1..nextRefreshCheckAt(now, auths[id])

\* The timer fires for what is due at t: at t, or at once if t is over, put off by the time
\* from the loop's look at its clock to resetTimer.  While the loop sleeps only now grows.
TimerSetFor(t) == timer \in 1..(Max({t, loop.seen}) + (now - loop.seen))

(***************************************************************************)
(* While the loop runs no credential is forgotten by it: one that can be   *)
(* refreshed is in the heap in time and the timer is set, late at most by  *)
(* the time for which the loop was held up in its last round, or it is     *)
(* marked dirty and the loop awake, or in the hands of the loop or of      *)
(* someone about to reschedule it.  The exception is a credential          *)
(* registered while the removal of its predecessor was still under way,    *)
(* which the late unscheduling of that removal takes out of the heap.      *)
(***************************************************************************)
NotForgotten ==
    Published => \A id \in Ids : nextRefreshCheckAt(now, auths[id]) # 0 =>
        \/ InTime(heap[id], id) /\ (loop.pc = "select" => TimerSetFor(heap[id]))
        \/ id \in dirty /\ (loop.pc = "select" => wake)
        \/ loop.pc = "rebuild" \/ (loop.pc = "install" /\ InTime(loop.plan[id], id))
        \/ id \in loop.todo
        \/ loop.pc \in {"mark", "reread"} /\ loop.id = id
        \/ loop.pc = "put" /\ loop.id = id /\ InTime(loop.next, id)
        \/ \E p \in Callers : call[p].pc \in {"announce", "again"} /\ call[p].id = id
        \/ \E e \in Editors : edit[e].pc = "announce" /\ edit[e].id = id
        \/ id \in orphaned

(***************************************************************************)
(* A refresh that was begun for one registration of a name never marks a   *)
(* later one: neither its token nor its failure.                           *)
(***************************************************************************)
OwnRegistration ==
    \A id \in Ids : Present(id) =>
        /\ owner[id][auths[id].token] = auths[id].epoch
        /\ auths[id].err # "none" => auths[id].errOf = auths[id].epoch

(***************************************************************************)
(* What an editor has changed stays changed although a refresh read the    *)
(* credential before the edit and writes it after.                         *)
(***************************************************************************)
LastNoteStands == \A id \in Ids : Present(id) => auths[id].note = noted[id]

(***************************************************************************)
(* Once nobody is on the way to persist it, the store holds the token and  *)
(* the note the manager holds, in whichever order the saves were made.     *)
(***************************************************************************)
SavedCatchesUp ==
    \A id \in Ids :
        \/ ~Present(id) \/ id \in unsaved
        \/ store[id] = <<auths[id].token, auths[id].note>>
        \/ \E p \in Callers : call[p].pc = "announce" /\ call[p].id = id
        \/ \E e \in Editors : edit[e].pc = "announce" /\ edit[e].id = id

(***************************************************************************)
(* No refresh exchanges a token a second time, whoever notices that it     *)
(* must be: a worker and requests answered with 401 at the same time.  The *)
(* exceptions are a replaced token that an editor wrote back with its      *)
(* outdated copy, a token whose exchange has never been answered, and one  *)
(* that the api-call tool has exchanged without the credential's lock.     *)
(***************************************************************************)
SpentOnce ==
    [][\A p \in Callers : \A id \in Ids :
          call[p].pc = "calling" /\ call[p].id = id /\ call'[p] # call[p]
             /\ (Len(owner'[id]) > Len(owner[id]) \/ loose'[id] # loose[id])
          => call[p].base.token \notin spent[id] \ (restored[id] \cup loose[id])]_vars

(***************************************************************************)
(* The loop does not spin on a credential: however its refreshes end, it   *)
(* marks it for one job per instant, unless an editor replaced it or has   *)
(* ever written back a replaced token: the answer to a refresh of the      *)
(* newer token clears the pause of the older one.                          *)
(***************************************************************************)
Paced ==
    [][loop.pc = "mark" /\ loop'.pc = "send" =>
          \/ markedAt[loop.id] < loop.seen
          \/ restored[loop.id] # {}]_vars

(***************************************************************************)
(* What the credentials keep, in one invariant: besides the types, a late  *)
(* answer marks no later registration and undoes no edit, and the store    *)
(* ends with what the manager holds.                                       *)
(***************************************************************************)
RefreshInv ==
    /\ TypeOK
    /\ OwnRegistration
    /\ LastNoteStands
    /\ SavedCatchesUp
=============================================================================
