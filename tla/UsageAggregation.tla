-------------------------- MODULE UsageAggregation --------------------------
(***************************************************************************)
(* The background aggregation of the keeper's usage events                 *)
(* (poller/usage_aggregation_runner.go): one goroutine brings three        *)
(* rollups, each behind its own checkpoint, and the totals of the          *)
(* identities up to the events committed by the inbox, while new events    *)
(* are committed and announced, identities appear, the daily maintenance   *)
(* moves aggregated events to the archive and the process may be killed.   *)
(***************************************************************************)
EXTENDS Naturals, FiniteSets, FiniteSetsExt

CONSTANTS
    MaxEvent,       \* bound: events ever committed; an event is its id
    MaxIdentity,    \* bound: identity rows, in the order of their ids
    RollupCount,    \* three: Overview, Activity and Latency
    PageSize,       \* usageAggregationEventPageSize
    IdentityPage,   \* UsageIdentityAggregationBatchSize
    MaxCrash        \* bound: restarts of the process

ASSUME AggregationAssumption ==
    /\ MaxEvent \in Nat /\ MaxIdentity \in Nat /\ MaxCrash \in Nat
    /\ RollupCount \in Nat \ {0}
    /\ PageSize \in Nat \ {0} /\ IdentityPage \in Nat \ {0}

Events == 1..MaxEvent
Identities == 1..MaxIdentity
\* The rollups in the order a turn applies them.
Rollups == 1..RollupCount

VARIABLES
    \* the database
    owner,          \* the identity an event matches, 0 for none
    top,            \* the last event id given out
    hot,            \* usage_events; the other events up to top are archived
    cursor,         \* usage_aggregation_checkpoints
    counts,         \* how often each rollup has counted each event
    ids,            \* usage_identities: the rows 1..ids exist
    idCursor,       \* their last_aggregated_usage_event_id
    idCounts,       \* how often each of them has counted each event
    \* who notifies
    unsaid,         \* events are committed and not announced yet
    \* the runner's memory
    loaded, active, target, reached, pending,
    nextKind,
    idAfter,        \* identityAfterID
    wantGen,        \* identityTargetGeneration
    scanGen,        \* identityScanGeneration
    wake,           \* the channel holds a token
    timer,          \* the debounce timer runs
    \* the runner's current turn
    pc,
    turn,           \* what the turn captured under the lock
    snap,           \* the checkpoints it read
    page,           \* the events it read
    at,             \* the rollup it is at
    errs,           \* it has met an error
    crashes,
    \* history
    announced,      \* events up to here were announced, or preceded the start
    bumpTop,        \* events and identities committed before the generation
    bumpIds,        \*   was last raised
    missed          \* events archived before an identity appeared

dbVars == <<owner, top, hot, cursor, counts, ids, idCursor, idCounts, missed>>
memVars == <<loaded, active, target, reached, pending, nextKind, idAfter, wantGen,
             scanGen>>
turnVars == <<turn, snap, page, at, errs>>
saidVars == <<unsaid, announced, bumpTop, bumpIds>>
vars == <<dbVars, memVars, turnVars, saidVars, wake, timer, pc, crashes>>

noTurn == [kind |-> "rollups", target |-> 0, active |-> FALSE, after |-> 0, pass |-> 0,
           shared |-> FALSE, reached |-> FALSE]
noSnap == [k \in Rollups |-> 0]

\* The locals of a turn are gone when it is over.
turnOver ==
    /\ turn' = noTurn /\ snap' = noSnap /\ page' = {} /\ at' = 1 /\ errs' = FALSE

Init ==
    /\ owner \in [Events -> 0..MaxIdentity]
    /\ top = 0 /\ hot = {}
    /\ cursor = noSnap
    /\ counts = [k \in Rollups |-> [e \in Events |-> 0]]
    /\ ids = 0
    /\ idCursor = [i \in Identities |-> 0]
    /\ idCounts = [i \in Identities |-> [e \in Events |-> 0]]
    /\ unsaid = FALSE
    /\ loaded = FALSE /\ active = FALSE /\ target = 0 /\ reached = FALSE
    /\ pending = 0 /\ nextKind = "rollups"
    /\ idAfter = 0 /\ wantGen = 1 /\ scanGen = 0
    /\ wake = FALSE /\ timer = FALSE
    /\ pc = "start"
    /\ turn = noTurn /\ snap = noSnap /\ page = {} /\ at = 1 /\ errs = FALSE
    /\ crashes = 0
    /\ announced = 0 /\ bumpTop = 0 /\ bumpIds = 0
    /\ missed = [i \in Identities |-> {}]

(***************************************************************************)
(* The inbox commits a batch of events and announces it afterwards; one    *)
(* batch at a time (see UsageInbox).  The metadata sync adds identities.   *)
(***************************************************************************)
Commit(n) ==
    /\ ~unsaid
    /\ top + n <= MaxEvent
    /\ top' = top + n
    /\ hot' = hot \cup (top + 1)..(top + n)
    /\ unsaid' = TRUE
    /\ UNCHANGED <<owner, cursor, counts, ids, idCursor, idCounts, missed, memVars,
                   turnVars, announced, bumpTop, bumpIds, wake, timer, pc, crashes>>

raiseGeneration ==
    /\ wantGen' = wantGen + 1
    /\ bumpTop' = top /\ bumpIds' = ids
    /\ wake' = TRUE

\* Mutant of NotifyCommitted: the notification takes no part in the wake-up.
NotifySilently ==
    /\ unsaid
    /\ unsaid' = FALSE
    /\ pending' = Max({pending, top})
    /\ announced' = top
    /\ wantGen' = wantGen + 1
    /\ bumpTop' = top /\ bumpIds' = ids
    /\ UNCHANGED <<dbVars, loaded, active, target, reached, nextKind, idAfter,
                   scanGen, turnVars, wake, timer, pc, crashes>>

\* Mutant of NotifyCommitted: the window ends after the last event.
NotifyExclusive ==
    /\ unsaid
    /\ unsaid' = FALSE
    /\ pending' = Max({pending, top + 1})
    /\ announced' = top
    /\ raiseGeneration
    /\ UNCHANGED <<dbVars, loaded, active, target, reached, nextKind, idAfter,
                   scanGen, turnVars, timer, pc, crashes>>

NotifyCommitted ==
    /\ unsaid
    /\ unsaid' = FALSE
    /\ pending' = Max({pending, top})
    /\ announced' = top
    /\ raiseGeneration
    /\ UNCHANGED <<dbVars, loaded, active, target, reached, nextKind, idAfter,
                   scanGen, turnVars, timer, pc, crashes>>

\* A sync that stored an identity and then failed elsewhere notifies nobody.
SyncIdentities(notify) ==
    /\ ids < MaxIdentity
    /\ ids' = ids + 1
    /\ missed' = [missed EXCEPT ![ids + 1] = {e \in 1..top : e \notin hot}]
    /\ IF notify
       THEN /\ wantGen' = wantGen + 1
            /\ bumpTop' = top /\ bumpIds' = ids + 1
            /\ wake' = TRUE
       ELSE UNCHANGED <<wantGen, bumpTop, bumpIds, wake>>
    /\ UNCHANGED <<owner, top, hot, cursor, counts, idCursor, idCounts, loaded, active,
                   target, reached, pending, nextKind, idAfter, scanGen, turnVars,
                   unsaid, announced, timer, pc, crashes>>

(***************************************************************************)
(* The archive: a batch of expired events leaves usage_events, provided    *)
(* that everything there is aggregated.                                    *)
(***************************************************************************)
pendingIdentity ==
    \E i \in 1..ids : \E e \in hot : owner[e] = i /\ e > idCursor[i]

\* Mutant of caughtUp: the identities are not asked for.
caughtUpRollups == \A k \in Rollups : \A e \in hot : e <= cursor[k]

\* Mutant of caughtUp: the archive only looks at Overview.
caughtUpOverview == (\A e \in hot : e <= cursor[1]) /\ ~pendingIdentity

caughtUp == (\A k \in Rollups : \A e \in hot : e <= cursor[k]) /\ ~pendingIdentity

Archive(S) ==
    /\ S # {}
    /\ caughtUp
    /\ hot' = hot \ S
    /\ UNCHANGED <<owner, top, cursor, counts, ids, idCursor, idCounts, missed, memVars,
                   turnVars, saidVars, wake, timer, pc, crashes>>

(***************************************************************************)
(* The start: the largest id is read without the lock.                     *)
(***************************************************************************)
LoadStartTarget ==
    /\ pc = "start"
    /\ turn' = [turn EXCEPT !.target = Max(hot \cup {0})]
    /\ pc' = "started"
    /\ UNCHANGED <<dbVars, memVars, snap, page, at, errs, saidVars, wake, timer, crashes>>

EnsureStartTarget ==
    /\ pc = "started"
    /\ loaded' = TRUE /\ active' = TRUE
    /\ target' = turn.target /\ reached' = (turn.target = 0)
    /\ pending' = IF pending <= turn.target THEN 0 ELSE pending
    /\ pc' = "loop"
    /\ turnOver
    /\ UNCHANGED <<dbVars, nextKind, idAfter, wantGen, scanGen, saidVars,
                   wake, timer, crashes>>

(***************************************************************************)
(* The loop of Run.                                                        *)
(***************************************************************************)
identityPending == idAfter # 0 \/ scanGen < wantGen
runnable == active \/ identityPending

LoopTop ==
    /\ pc = "loop"
    /\ timer' = (timer \/ (pending > 0 /\ (~active \/ pending > target)))
    /\ pc' = IF runnable THEN "turn" ELSE "wait"
    /\ UNCHANGED <<dbVars, memVars, turnVars, saidVars, wake, crashes>>

freezePendingTarget ==
    IF pending = 0 \/ (active /\ pending <= target)
    THEN pending' = 0 /\ UNCHANGED <<active, target, reached>>
    ELSE active' = TRUE /\ target' = pending /\ reached' = FALSE /\ pending' = 0

TimerFires ==
    /\ pc \in {"turn", "wait"}
    /\ timer
    /\ timer' = FALSE
    /\ freezePendingTarget
    /\ pc' = "loop"
    /\ UNCHANGED <<dbVars, loaded, nextKind, idAfter, wantGen, scanGen, turnVars,
                   saidVars, wake, crashes>>

TakeWake ==
    /\ pc \in {"wait", "retry"}
    /\ wake
    /\ wake' = FALSE
    /\ pc' = "loop"
    /\ UNCHANGED <<dbVars, memVars, turnVars, saidVars, timer, crashes>>

RetryFires ==
    /\ pc = "retry"
    /\ pc' = "loop"
    /\ UNCHANGED <<dbVars, memVars, turnVars, saidVars, wake, timer, crashes>>

(***************************************************************************)
(* A turn: runPreparedOnce captures what it needs under the lock and asks  *)
(* whether the inbox has rows; it must not compete with them.              *)
(***************************************************************************)
nextRunnableKind ==
    IF active /\ identityPending THEN nextKind
    ELSE IF active THEN "rollups" ELSE "identity"

BeginTurn ==
    /\ pc = "turn"
    /\ turn' = [kind |-> nextRunnableKind, target |-> target, active |-> active,
                after |-> idAfter,
                pass |-> IF nextRunnableKind = "identity" /\ idAfter = 0
                         THEN wantGen ELSE scanGen,
                shared |-> FALSE, reached |-> FALSE]
    /\ errs' = FALSE /\ at' = 1
    /\ pc' = "inbox"
    /\ UNCHANGED <<dbVars, memVars, snap, page, saidVars, wake, timer, crashes>>

InboxFree ==
    /\ pc = "inbox"
    /\ pc' = IF turn.kind = "rollups" THEN "snapshot" ELSE "identity"
    /\ UNCHANGED <<dbVars, memVars, turnVars, saidVars, wake, timer, crashes>>

\* Rows are waiting: the turn is not taken, and nextKind stays as it is.
InboxBusy ==
    /\ pc = "inbox"
    /\ pc' = "retry"
    /\ turnOver
    /\ UNCHANGED <<dbVars, memVars, saidVars, wake, timer, crashes>>

TurnFails ==
    /\ pc \in {"inbox", "snapshot", "identity"}
    /\ pc' = "failed"
    /\ UNCHANGED <<dbVars, memVars, turnVars, saidVars, wake, timer, crashes>>

AfterFailure ==
    /\ pc = "failed"
    /\ nextKind' = IF turn.kind = "rollups" THEN "identity" ELSE "rollups"
    /\ pc' = "retry"
    /\ turnOver
    /\ UNCHANGED <<dbVars, loaded, active, target, reached, pending, idAfter, wantGen,
                   scanGen, saidVars, wake, timer, crashes>>

(***************************************************************************)
(* The rollups.  When the three checkpoints are equal one page of events   *)
(* serves all of them; otherwise each one behind the target reads its own. *)
(***************************************************************************)
LoadSnapshot ==
    /\ pc = "snapshot"
    /\ snap' = cursor
    /\ \/ /\ turn.active => \A k \in Rollups : cursor[k] >= turn.target
          /\ turn' = [turn EXCEPT !.reached = TRUE]
          /\ pc' = "finish"
       \/ /\ turn.active
          /\ \E k \in Rollups : cursor[k] < turn.target
          /\ turn' = [turn EXCEPT !.shared = \A k \in Rollups : cursor[k] = cursor[1]]
          /\ pc' = "page"
    /\ UNCHANGED <<dbVars, memVars, page, at, errs, saidVars, wake, timer, crashes>>

beyond(k) == {e \in hot : snap[k] < e /\ e <= turn.target}
firstPage(S) == {e \in S : Cardinality({f \in S : f < e}) < PageSize}

LoadPage ==
    /\ pc = "page"
    /\ at \in Rollups
    /\ beyond(at) # {}
    /\ page' = firstPage(beyond(at))
    /\ pc' = "guard"
    /\ UNCHANGED <<dbVars, memVars, turn, snap, at, errs, saidVars, wake, timer, crashes>>

\* The query fails, or finds nothing before the target: this ends a shared
\* turn and skips the rollup in the other mode.
LoadPageFails ==
    /\ pc = "page"
    /\ at \in Rollups
    /\ snap[at] < turn.target
    /\ errs' = TRUE
    /\ \/ turn.shared /\ pc' = "failed" /\ UNCHANGED at
       \/ ~turn.shared /\ at' = at + 1 /\ UNCHANGED pc
    /\ UNCHANGED <<dbVars, memVars, turn, snap, page, saidVars, wake, timer, crashes>>

\* A rollup that is not behind the target.
SkipRollup ==
    /\ pc = "page"
    /\ at \in Rollups
    /\ snap[at] >= turn.target
    /\ at' = at + 1
    /\ UNCHANGED <<dbVars, memVars, turn, snap, page, errs, saidVars, wake, timer, pc, crashes>>

\* deferForInbox before each transaction.
GuardFree ==
    /\ pc = "guard"
    /\ at \in Rollups
    /\ pc' = "apply"
    /\ UNCHANGED <<dbVars, memVars, turnVars, saidVars, wake, timer, crashes>>

GuardBusy ==
    /\ pc = "guard"
    /\ at \in Rollups
    /\ \/ ~errs /\ pc' = "finish"
       \/ pc' = "failed"
    /\ UNCHANGED <<dbVars, memVars, turnVars, saidVars, wake, timer, crashes>>

nextRollup == at' = at + 1 /\ pc' = IF turn.shared THEN "guard" ELSE "page"

\* Mutant of Apply: the checkpoint is moved to the target of the round.
ApplyToTarget ==
    /\ pc = "apply"
    /\ cursor[at] = snap[at]
    /\ counts' = [counts EXCEPT ![at] = [e \in Events |-> IF e \in page THEN @[e] + 1 ELSE @[e]]]
    /\ cursor' = [cursor EXCEPT ![at] = turn.target]
    /\ snap' = IF turn.shared THEN snap ELSE [snap EXCEPT ![at] = turn.target]
    /\ nextRollup
    /\ UNCHANGED <<owner, top, hot, ids, idCursor, idCounts, missed, memVars, turn, page,
                   errs, saidVars, wake, timer, crashes>>

\* One transaction adds the rows of the page and moves the checkpoint, which
\* must still be where it was read.
Apply ==
    /\ pc = "apply"
    /\ cursor[at] = snap[at]
    /\ counts' = [counts EXCEPT ![at] = [e \in Events |-> IF e \in page THEN @[e] + 1 ELSE @[e]]]
    /\ cursor' = [cursor EXCEPT ![at] = Max(page)]
    /\ snap' = IF turn.shared THEN snap ELSE [snap EXCEPT ![at] = Max(page)]
    /\ nextRollup
    /\ UNCHANGED <<owner, top, hot, ids, idCursor, idCounts, missed, memVars, turn, page,
                   errs, saidVars, wake, timer, crashes>>

\* Building the rows, the transaction or the test of the checkpoint fails.
ApplyFails ==
    /\ pc = "apply"
    /\ errs' = TRUE
    /\ nextRollup
    /\ UNCHANGED <<dbVars, memVars, turn, snap, page, saidVars, wake, timer, crashes>>

RollupsDone ==
    /\ pc \in {"page", "guard"}
    /\ at > RollupCount
    /\ turn' = [turn EXCEPT !.reached = IF turn.shared THEN Max(page) >= turn.target
                                        ELSE \A k \in Rollups : snap[k] >= turn.target]
    /\ pc' = IF errs THEN "failed" ELSE "finish"
    /\ UNCHANGED <<dbVars, memVars, snap, page, at, errs, saidVars, wake, timer, crashes>>

\* Mutant of completeRound: the notifications of the round go with it.
completeForgets(done) ==
    IF active /\ done
    THEN active' = FALSE /\ target' = 0 /\ reached' = FALSE /\ pending' = 0
    ELSE reached' = done /\ UNCHANGED <<active, target, pending>>

\* completeRollupRoundIfReadyLocked.
completeRound(done) ==
    IF active /\ done
    THEN /\ active' = FALSE /\ target' = 0 /\ reached' = FALSE
         /\ pending' = IF pending <= target THEN 0 ELSE pending
    ELSE reached' = done /\ UNCHANGED <<active, target, pending>>

\* A turn that reached its target ends the round, unless the target was raised
\* meanwhile.  A turn that was deferred waits, one that was not goes on.
FinishRollups ==
    /\ pc = "finish"
    /\ nextKind' = "identity"
    /\ completeRound(reached \/ (turn.active /\ active /\ target = turn.target /\ turn.reached))
    /\ pc' = IF at \in Rollups /\ ~turn.reached THEN "retry" ELSE "loop"
    /\ turnOver
    /\ UNCHANGED <<dbVars, loaded, idAfter, wantGen, scanGen, saidVars, wake,
                   timer, crashes>>

(***************************************************************************)
(* The identities: a page of rows per transaction, each brought up to the  *)
(* events it matches.                                                      *)
(***************************************************************************)
identityRows == {i \in 1..ids : turn.after < i /\ i <= turn.after + IdentityPage}

\* Mutant of delta: the event at the cursor is read again.
deltaInclusive(i) == {e \in hot : owner[e] = i /\ e >= idCursor[i]}

delta(i) == {e \in hot : owner[e] = i /\ e > idCursor[i]}

AggregateIdentities ==
    /\ pc = "identity"
    /\ idCounts' = [i \in Identities |-> [e \in Events |->
                      IF i \in identityRows /\ e \in delta(i)
                      THEN idCounts[i][e] + 1 ELSE idCounts[i][e]]]
    /\ idCursor' = [i \in Identities |->
                      IF i \in identityRows /\ delta(i) # {}
                      THEN Max(delta(i)) ELSE idCursor[i]]
    /\ turn' = [turn EXCEPT !.reached = Cardinality(identityRows) < IdentityPage]
    /\ page' = identityRows
    /\ pc' = "scanned"
    /\ UNCHANGED <<owner, top, hot, cursor, counts, ids, missed, memVars, snap, at, errs,
                   saidVars, wake, timer, crashes>>

\* Mutant of FinishIdentities: the pass is taken to cover what was asked for
\* when it ends, not when it began.
FinishCoversLatest ==
    /\ pc = "scanned"
    /\ nextKind' = "rollups"
    /\ idAfter' = IF turn.reached THEN 0 ELSE Max(page \cup {turn.after})
    /\ scanGen' = wantGen
    /\ pc' = "loop"
    /\ turnOver
    /\ UNCHANGED <<dbVars, loaded, active, target, reached, pending, wantGen,
                   saidVars, wake, timer, crashes>>

FinishIdentities ==
    /\ pc = "scanned"
    /\ nextKind' = "rollups"
    /\ idAfter' = IF turn.reached THEN 0 ELSE Max(page \cup {turn.after})
    /\ scanGen' = turn.pass
    /\ pc' = "loop"
    /\ turnOver
    /\ UNCHANGED <<dbVars, loaded, active, target, reached, pending, wantGen,
                   saidVars, wake, timer, crashes>>

(***************************************************************************)
(* The process ends, in order or not, and starts again from the database.  *)
(***************************************************************************)
Crash ==
    /\ crashes < MaxCrash
    /\ crashes' = crashes + 1
    /\ unsaid' = FALSE
    /\ loaded' = FALSE /\ active' = FALSE /\ target' = 0 /\ reached' = FALSE
    /\ pending' = 0 /\ nextKind' = "rollups"
    /\ idAfter' = 0 /\ wantGen' = 1 /\ scanGen' = 0
    /\ wake' = FALSE /\ timer' = FALSE
    /\ pc' = "start"
    /\ turnOver
    /\ announced' = top /\ bumpTop' = top /\ bumpIds' = ids
    /\ UNCHANGED dbVars

Database ==
    \/ \E n \in 1..2 : Commit(n)
    \/ \E notify \in BOOLEAN : SyncIdentities(notify)
    \/ \E S \in SUBSET hot : Archive(S)

Loop == LoopTop \/ TimerFires \/ TakeWake \/ RetryFires \/ BeginTurn \/ AfterFailure

RollupsTurn ==
    \/ LoadSnapshot \/ LoadPage \/ LoadPageFails \/ SkipRollup
    \/ GuardFree \/ GuardBusy \/ Apply \/ ApplyFails \/ RollupsDone \/ FinishRollups

Next ==
    \/ Database \/ NotifyCommitted
    \/ LoadStartTarget \/ EnsureStartTarget
    \/ Loop
    \/ InboxFree \/ InboxBusy \/ TurnFails
    \/ RollupsTurn
    \/ AggregateIdentities \/ FinishIdentities
    \/ Crash

Spec == Init /\ [][Next]_vars

(***************************************************************************)
(* Properties.                                                             *)
(***************************************************************************)
TypeOK ==
    /\ owner \in [Events -> 0..MaxIdentity]
    /\ top \in 0..MaxEvent /\ hot \subseteq 1..top
    /\ cursor \in [Rollups -> 0..top]
    /\ ids \in 0..MaxIdentity
    /\ idCursor \in [Identities -> 0..top]
    /\ target \in 0..top /\ pending \in 0..top
    /\ idAfter \in 0..ids
    /\ scanGen <= wantGen
    /\ unsaid \in BOOLEAN /\ loaded \in BOOLEAN /\ active \in BOOLEAN
    /\ reached \in BOOLEAN /\ wake \in BOOLEAN /\ timer \in BOOLEAN
    /\ at \in 1..(RollupCount + 1)

\* Each rollup has counted an event exactly once if its checkpoint has passed
\* it and not at all otherwise: no page is counted twice, skipped or lost with
\* a crash (the transaction and compare-and-swap of Apply...AggregationPage).
CountedOnce ==
    \A k \in Rollups : \A e \in Events :
        counts[k][e] = IF e <= cursor[k] THEN 1 ELSE 0

\* The same for the totals of the identities, whose cursors pass only events
\* that match them; what was archived before a row appeared is not counted.
IdentityCountedOnce ==
    \A i \in 1..ids : \A e \in 1..top :
        idCounts[i][e] = IF owner[e] = i /\ e <= idCursor[i] /\ e \notin missed[i]
                         THEN 1 ELSE 0

\* No announced event is forgotten: as long as a rollup is behind it, it lies
\* within the running round or within the window that will be frozen next,
\* whenever the notification came (freezePendingTarget, ensureStartupTarget,
\* completeRollupRoundIfReadyLocked).
AnnouncedIsTargeted ==
    loaded /\ (\E k \in Rollups : cursor[k] < announced) =>
        announced <= pending \/ (active /\ announced <= target)

\* A rollup behind the target of its turn finds an event to read: the archive
\* never takes an event from under a round ("page is empty before target").
PageHasEvents ==
    pc = "page" /\ at \in Rollups => snap[at] >= turn.target \/ beyond(at) # {}

\* When no scan of the identities is due, each one has counted every matching
\* event that was committed, as it was itself, before the generation was last
\* raised (identityPassGeneration).
ScanCovers ==
    idAfter = 0 /\ scanGen = wantGen =>
        \A i \in 1..bumpIds : \A e \in 1..bumpTop :
            owner[e] = i => e <= idCursor[i] \/ e \in missed[i]

\* An event leaves usage_events only when every rollup and every identity
\* that matches it has counted it.
ArchivedIsCounted ==
    \A e \in 1..top : e \notin hot =>
        /\ \A k \in Rollups : counts[k][e] = 1
        /\ \A i \in 1..ids : owner[e] = i => idCounts[i][e] = 1 \/ e \in missed[i]

\* No wake-up is lost: when the runner blocks in its select with no token in the
\* channel and no debounce timer running, every rollup has passed every event
\* that was announced and no scan of the identities is due, whatever the order
\* in which notifications, rounds that completed and failed turns came.
SleepsOnlyWhenDone ==
    pc = "wait" /\ ~wake /\ ~timer =>
        /\ \A k \in Rollups : cursor[k] >= announced
        /\ ~identityPending

(***************************************************************************)
(* The accounts of the aggregation, in one invariant: besides the types,   *)
(* rollups and identities count each event once, an announced event lies   *)
(* ahead of the runner, and the archive takes only what all have counted.  *)
(***************************************************************************)
AggregationInv ==
    /\ TypeOK
    /\ CountedOnce
    /\ IdentityCountedOnce
    /\ AnnouncedIsTargeted
    /\ ArchivedIsCounted
=============================================================================
