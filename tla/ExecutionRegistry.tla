------------------------- MODULE ExecutionRegistry -------------------------
(***************************************************************************)
(* The registry of Home-dispatched executions                              *)
(* (sdk/cliproxy/executionregistry): a request reserves a dispatch token   *)
(* (BeginDispatch), turns it into a scope (Install), binds the resource    *)
(* that cancels it (Bind) and ends it (EndWithRelease), while the Home     *)
(* subscriber swaps the release sink, records observation barriers,        *)
(* freezes in-flight snapshots, waits for unresolved dispatches, drains or *)
(* closes the registry.                                                    *)
(*                                                                         *)
(* Registry.state is an atomic word that Drain and Close change WITHOUT    *)
(* holding Registry.mu, whereas BeginDispatch, Install and Bind read it    *)
(* under Registry.mu and act on what they read.  Those three operations    *)
(* are therefore two steps each, with the mutex held in between; every     *)
(* other critical section is one step that needs the mutex free.           *)
(***************************************************************************)
EXTENDS Integers, FiniteSets

CONSTANTS
    Groups,         \* release groups (credential, model)
    Unaccounted,    \* what an unaccounted scope has instead of a group
    Sinks,          \* release sinks the subscriber may install
    NoSink,         \* the nil sink
    Callers,        \* goroutines that call Drain, Close or WaitPending, once
    MaxDispatch,    \* bound: dispatch tokens ever reserved
    MaxBarrier      \* bound: largest observation barrier Home announces

ASSUME UnaccountedAssumption == Unaccounted \notin Groups
ASSUME NoSinkAssumption == NoSink \notin Sinks
ASSUME MaxDispatchAssumption == MaxDispatch \in Nat
ASSUME MaxBarrierAssumption == MaxBarrier \in Nat

Ids == 1..MaxDispatch

VARIABLES
    state,          \* Registry.state
    mu,             \* Registry.mu: 0 when free, else the dispatch holding it
    next,           \* Registry.next, the last token handed out
    pending,        \* Registry.pending (its keys)
    scopes,         \* Registry.scopes (its keys)
    pc,             \* where the owner of each dispatch is
    group,          \* ScopeSpec: the release group, or Unaccounted
    closeFn,        \* Scope.closeFn # nil
    closeDone,      \* Scope.closeDone: "nil", "open" or "closed"
    releaseSeq,     \* Registry.releaseSequences
    sink,           \* Registry.releaseSink
    call,           \* the (sink, sequence) an ending scope read under the lock
    replay,         \* SetReleaseSink's copied sequences still to be replayed
    told,           \* every (sink, group, sequence) a sink was called with
    caller,         \* where each Drain, Close or WaitPending call is
    todo,           \* the scopes a Drain or Close call has still to sweep
    awaiting,       \* the scope whose close a Close call is waiting for, or 0
    asleep,         \* the calls blocked on the current Registry.changed channel
    closeStarted,   \* Registry.closeStarted
    closeFinished,  \* Registry.closeDone is closed
    observed,       \* Registry.observedBarrier
    barrierSeq,     \* Registry.pendingBarrierSequence
    published,      \* Registry.publishedBarrier
    freeze,         \* the last Freeze handed to the publisher
    begunUnder      \* history: the barrier observed when a dispatch began

lifeVars == <<state, closeStarted, closeFinished>>
dispatchVars == <<next, pending, scopes, pc, group, begunUnder>>
closeVars == <<closeFn, closeDone>>
releaseVars == <<releaseSeq, sink, call, replay, told>>
callerVars == <<caller, todo, awaiting>>
barrierVars == <<observed, barrierSeq, published, freeze>>
vars == <<state, mu, next, pending, scopes, pc, group, closeFn, closeDone,
          releaseSeq, sink, call, replay, told, caller, todo, awaiting,
          asleep, closeStarted, closeFinished, observed, barrierSeq, published,
          freeze, begunUnder>>

OwnerPCs == {"unborn", "beginning", "pending", "installing", "active",
             "binding", "deactivated", "closing", "marked", "delivered",
             "ended", "dropped"}
\* A dispatch that has an installed scope still in the registry.
ScopePCs == {"active", "binding", "deactivated", "closing", "marked",
             "delivered"}
\* A scope whose release sequence has been assigned.
ReleasedPCs == {"marked", "delivered", "ended"}
CallerPCs == {"idle", "drain.snapshot", "drain.sweep", "drain.wait",
              "drain.parked", "drain.ok", "drain.timeout", "drain.refused",
              "close.swap", "close.snapshot", "close.sweep", "close.await",
              "close.join", "close.ok",
              "pending.wait", "pending.parked", "pending.ok", "pending.timeout"}

Init ==
    /\ state = "Accepting"
    /\ mu = 0
    /\ next = 0
    /\ pending = {} /\ scopes = {}
    /\ pc = [i \in Ids |-> "unborn"]
    /\ group = [i \in Ids |-> Unaccounted]
    /\ closeFn = [i \in Ids |-> FALSE]
    /\ closeDone = [i \in Ids |-> "nil"]
    /\ releaseSeq = [g \in Groups |-> 0]
    /\ sink = NoSink
    /\ call = [i \in Ids |-> <<NoSink, 0>>]
    /\ replay = {}
    /\ told = {}
    /\ caller = [c \in Callers |-> "idle"]
    /\ todo = [c \in Callers |-> {}]
    /\ awaiting = [c \in Callers |-> 0]
    /\ asleep = {}
    /\ closeStarted = FALSE /\ closeFinished = FALSE
    /\ observed = 0 /\ barrierSeq = 0 /\ published = 0
    /\ freeze = [barrier |-> 0, executions |-> {}]
    /\ begunUnder = [i \in Ids |-> 0]

\* close(r.changed); r.changed = make(...): every sleeper wakes up.
signalLocked == asleep' = {}

(***************************************************************************)
(* BeginDispatch.  The refusals (state not accepting, before or under the  *)
(* lock) change nothing.                                                   *)
(***************************************************************************)
BeginCheck(i) ==
    /\ mu = 0
    /\ i = next + 1
    /\ state = "Accepting"
    /\ mu' = i
    /\ pc' = [pc EXCEPT ![i] = "beginning"]
    /\ UNCHANGED <<next, pending, scopes, group, begunUnder, lifeVars,
                   closeVars, releaseVars, callerVars, asleep, barrierVars>>

BeginReserve(i) ==
    /\ pc[i] = "beginning"
    /\ next' = i
    /\ pending' = pending \cup {i}
    /\ pc' = [pc EXCEPT ![i] = "pending"]
    /\ begunUnder' = [begunUnder EXCEPT ![i] = observed]
    /\ mu' = 0
    /\ UNCHANGED <<scopes, group, lifeVars, closeVars, releaseVars,
                   callerVars, asleep, barrierVars>>

\* Mutant of PendingEnd: the waiters are not signalled.
PendingEndSilent(i) ==
    /\ pc[i] = "pending"
    /\ mu = 0
    /\ pending' = pending \ {i}
    /\ pc' = [pc EXCEPT ![i] = "dropped"]
    /\ UNCHANGED <<mu, next, scopes, group, begunUnder, lifeVars, closeVars,
                   releaseVars, callerVars, asleep, barrierVars>>

\* PendingDispatch.End of a token that was not installed.
PendingEnd(i) ==
    /\ pc[i] = "pending"
    /\ mu = 0
    /\ pending' = pending \ {i}
    /\ pc' = [pc EXCEPT ![i] = "dropped"]
    /\ signalLocked
    /\ UNCHANGED <<mu, next, scopes, group, begunUnder, lifeVars, closeVars,
                   releaseVars, callerVars, barrierVars>>

(***************************************************************************)
(* Install: refused when the registry stopped accepting (which consumes    *)
(* the token), else the pending token becomes a scope.                     *)
(***************************************************************************)
InstallRefused(i) ==
    /\ pc[i] = "pending"
    /\ mu = 0
    /\ state # "Accepting"
    /\ pending' = pending \ {i}
    /\ pc' = [pc EXCEPT ![i] = "dropped"]
    /\ signalLocked
    /\ UNCHANGED <<mu, next, scopes, group, begunUnder, lifeVars, closeVars,
                   releaseVars, callerVars, barrierVars>>

InstallCheck(i) ==
    /\ pc[i] = "pending"
    /\ mu = 0
    /\ state = "Accepting"
    /\ mu' = i
    /\ pc' = [pc EXCEPT ![i] = "installing"]
    /\ UNCHANGED <<next, pending, scopes, group, begunUnder, lifeVars,
                   closeVars, releaseVars, callerVars, asleep, barrierVars>>

InstallCommit(i, g) ==
    /\ pc[i] = "installing"
    /\ pending' = pending \ {i}
    /\ scopes' = scopes \cup {i}
    /\ pc' = [pc EXCEPT ![i] = "active"]
    /\ group' = [group EXCEPT ![i] = g]
    /\ mu' = 0
    /\ signalLocked
    /\ UNCHANGED <<next, begunUnder, lifeVars, closeVars, releaseVars,
                   callerVars, barrierVars>>

(***************************************************************************)
(* Bind: a scope takes one resource, and none once the registry stopped    *)
(* accepting or the scope stopped being active; a refusal changes nothing. *)
(* (Nobody else can bind or start a close between the two steps: a sweep's *)
(* snapshot and the owner's End need the mutex, so the test of closeFn and *)
(* closeDone is taken with the test of the state.)                         *)
(***************************************************************************)
BindCheck(i) ==
    /\ pc[i] = "active"
    /\ ~closeFn[i] /\ closeDone[i] = "nil"
    /\ mu = 0
    /\ state = "Accepting"
    /\ mu' = i
    /\ pc' = [pc EXCEPT ![i] = "binding"]
    /\ UNCHANGED <<next, pending, scopes, group, begunUnder, lifeVars,
                   closeVars, releaseVars, callerVars, asleep, barrierVars>>

BindCommit(i) ==
    /\ pc[i] = "binding"
    /\ closeFn' = [closeFn EXCEPT ![i] = TRUE]
    /\ pc' = [pc EXCEPT ![i] = "active"]
    /\ mu' = 0
    /\ UNCHANGED <<next, pending, scopes, group, begunUnder, lifeVars,
                   closeDone, releaseVars, callerVars, asleep, barrierVars>>

(***************************************************************************)
(* Closing the bound resource: the first caller takes closeFn and starts   *)
(* the goroutine that runs it; later callers get the same closeDone.       *)
(***************************************************************************)
startBoundResourceClose(i) ==
    IF closeDone[i] = "nil" /\ closeFn[i]
    THEN /\ closeFn' = [closeFn EXCEPT ![i] = FALSE]
         /\ closeDone' = [closeDone EXCEPT ![i] = "open"]
    ELSE UNCHANGED closeVars

\* What waitForBoundResourceClose is blocked on is over.
boundResourceClosed(i) == closeDone[i] # "open"

\* The goroutine: closeFn returned (an error is only logged).
ResourceClosed(i) ==
    /\ closeDone[i] = "open"
    /\ closeDone' = [closeDone EXCEPT ![i] = "closed"]
    /\ UNCHANGED <<mu, dispatchVars, lifeVars, closeFn, releaseVars,
                   callerVars, asleep, barrierVars>>

(***************************************************************************)
(* EndWithRelease, which sync.Once runs once for a scope.                  *)
(***************************************************************************)
EndDeactivate(i) ==
    /\ pc[i] = "active"
    /\ mu = 0
    /\ pc' = [pc EXCEPT ![i] = "deactivated"]
    /\ UNCHANGED <<mu, next, pending, scopes, group, begunUnder, lifeVars,
                   closeVars, releaseVars, callerVars, asleep, barrierVars>>

EndStartClose(i) ==
    /\ pc[i] = "deactivated"
    /\ startBoundResourceClose(i)
    /\ pc' = [pc EXCEPT ![i] = "closing"]
    /\ UNCHANGED <<mu, next, pending, scopes, group, begunUnder, lifeVars,
                   releaseVars, callerVars, asleep, barrierVars>>

\* Mutant of EndMark: the slot is given back without waiting for the close.
EndMarkEarly(i) ==
    /\ pc[i] = "closing"
    /\ mu = 0
    /\ pc' = [pc EXCEPT ![i] = "marked"]
    /\ UNCHANGED <<mu, next, pending, scopes, group, begunUnder, lifeVars,
                   closeVars, releaseVars, callerVars, asleep, barrierVars>>

\* Mutant of EndMark: the scope leaves the registry with its sequence, before
\* the sink is called.
EndMarkDeletes(i) ==
    /\ pc[i] = "closing"
    /\ boundResourceClosed(i)
    /\ mu = 0
    /\ scopes' = scopes \ {i}
    /\ pc' = [pc EXCEPT ![i] = "marked"]
    /\ UNCHANGED <<mu, next, pending, group, begunUnder, lifeVars, closeVars,
                   releaseVars, callerVars, asleep, barrierVars>>

\* Mutant of EndMark: the sequence counts down, as a number in use would.
EndMarkCountsDown(i) ==
    /\ pc[i] = "closing"
    /\ boundResourceClosed(i)
    /\ mu = 0
    /\ IF group[i] = Unaccounted
       THEN UNCHANGED releaseSeq
       ELSE releaseSeq' = [releaseSeq EXCEPT ![group[i]] = @ - 1]
    /\ pc' = [pc EXCEPT ![i] = "marked"]
    /\ UNCHANGED <<mu, next, pending, scopes, group, begunUnder, lifeVars,
                   closeVars, sink, call, replay, told, callerVars, asleep,
                   barrierVars>>

\* markReleasedLocked: the sequence and the sink are read together.
EndMark(i) ==
    /\ pc[i] = "closing"
    /\ boundResourceClosed(i)
    /\ mu = 0
    /\ IF group[i] = Unaccounted
       THEN UNCHANGED <<releaseSeq, call>>
       ELSE LET n == releaseSeq[group[i]] + 1
            IN  /\ releaseSeq' = [releaseSeq EXCEPT ![group[i]] = n]
                /\ call' = [call EXCEPT ![i] = <<sink, n>>]
    /\ pc' = [pc EXCEPT ![i] = "marked"]
    /\ UNCHANGED <<mu, next, pending, scopes, group, begunUnder, lifeVars,
                   closeVars, sink, replay, told, callerVars, asleep,
                   barrierVars>>

\* The sink is called without the lock, with what was read under it.
EndDeliver(i) ==
    /\ pc[i] = "marked"
    /\ told' = IF call[i][1] # NoSink
               THEN told \cup {<<call[i][1], group[i], call[i][2]>>}
               ELSE told
    /\ pc' = [pc EXCEPT ![i] = "delivered"]
    /\ UNCHANGED <<mu, next, pending, scopes, group, begunUnder, lifeVars,
                   closeVars, releaseSeq, sink, call, replay, callerVars,
                   asleep, barrierVars>>

EndDelete(i) ==
    /\ pc[i] = "delivered"
    /\ mu = 0
    /\ scopes' = scopes \ {i}
    /\ pc' = [pc EXCEPT ![i] = "ended"]
    /\ signalLocked
    /\ UNCHANGED <<mu, next, pending, group, begunUnder, lifeVars, closeVars,
                   releaseVars, callerVars, barrierVars>>

(***************************************************************************)
(* SetReleaseSink, called by the subscriber's goroutine only: the swap and *)
(* the copy of the sequences are one critical section, the replay runs     *)
(* after it, group by group in map order.                                  *)
(***************************************************************************)
\* Mutant of SetReleaseSink: the new sink is not told what was released before.
SetReleaseSinkNoReplay(s) ==
    /\ mu = 0
    /\ replay = {}
    /\ sink' = s
    /\ UNCHANGED <<mu, dispatchVars, lifeVars, closeVars, releaseSeq, call,
                   replay, told, callerVars, asleep, barrierVars>>

\* Mutant of SetReleaseSink: the sequences start again with the new sink.
SetReleaseSinkResets(s) ==
    /\ mu = 0
    /\ replay = {}
    /\ sink' = s
    /\ releaseSeq' = [g \in Groups |-> 0]
    /\ UNCHANGED <<mu, dispatchVars, lifeVars, closeVars, call, replay, told,
                   callerVars, asleep, barrierVars>>

SetReleaseSink(s) ==
    /\ mu = 0
    /\ replay = {}
    /\ sink' = s
    /\ replay' = IF s = NoSink THEN {}
                 ELSE {<<g, releaseSeq[g]>> : g \in {h \in Groups : releaseSeq[h] > 0}}
    /\ UNCHANGED <<mu, dispatchVars, lifeVars, closeVars, releaseSeq, call,
                   told, callerVars, asleep, barrierVars>>

ReplayRelease(r) ==
    /\ r \in replay
    /\ told' = told \cup {<<sink, r[1], r[2]>>}
    /\ replay' = replay \ {r}
    /\ UNCHANGED <<mu, dispatchVars, lifeVars, closeVars, releaseSeq, sink,
                   call, callerVars, asleep, barrierVars>>

(***************************************************************************)
(* Calls that wait.  A waiter captures Registry.changed under the lock and *)
(* sleeps on it; signalLocked wakes it and it re-evaluates its condition.  *)
(* Its context may expire at any time while it sleeps.                     *)
(***************************************************************************)
Wake(c) ==
    /\ c \notin asleep
    /\ \/ caller[c] = "drain.parked" /\ caller' = [caller EXCEPT ![c] = "drain.wait"]
       \/ caller[c] = "pending.parked" /\ caller' = [caller EXCEPT ![c] = "pending.wait"]
    /\ UNCHANGED <<mu, dispatchVars, lifeVars, closeVars, releaseVars, todo,
                   awaiting, asleep, barrierVars>>

Timeout(c) ==
    /\ \/ caller[c] = "drain.parked" /\ caller' = [caller EXCEPT ![c] = "drain.timeout"]
       \/ caller[c] = "pending.parked" /\ caller' = [caller EXCEPT ![c] = "pending.timeout"]
    /\ asleep' = asleep \ {c}
    /\ UNCHANGED <<mu, dispatchVars, lifeVars, closeVars, releaseVars, todo,
                   awaiting, barrierVars>>

WaitPendingStart(c) ==
    /\ caller[c] = "idle"
    /\ caller' = [caller EXCEPT ![c] = "pending.wait"]
    /\ UNCHANGED <<mu, dispatchVars, lifeVars, closeVars, releaseVars, todo,
                   awaiting, asleep, barrierVars>>

WaitPendingCheck(c) ==
    /\ caller[c] = "pending.wait"
    /\ mu = 0
    /\ \/ /\ pending = {}
          /\ caller' = [caller EXCEPT ![c] = "pending.ok"]
          /\ UNCHANGED asleep
       \/ /\ pending # {}
          /\ caller' = [caller EXCEPT ![c] = "pending.parked"]
          /\ asleep' = asleep \cup {c}
    /\ UNCHANGED <<mu, dispatchVars, lifeVars, closeVars, releaseVars, todo,
                   awaiting, barrierVars>>

(***************************************************************************)
(* Drain: the swap of the state word takes no lock.                        *)
(***************************************************************************)
DrainSwap(c) ==
    /\ caller[c] = "idle"
    /\ \/ /\ state # "Closed"
          /\ state' = "Draining"
          /\ caller' = [caller EXCEPT ![c] = "drain.snapshot"]
       \/ /\ state = "Closed"
          /\ caller' = [caller EXCEPT ![c] = "drain.refused"]
          /\ UNCHANGED state
    /\ UNCHANGED <<mu, dispatchVars, closeStarted, closeFinished, closeVars,
                   releaseVars, todo, awaiting, asleep, barrierVars>>

\* Mutant of DrainSnapshot: the scopes are copied without the mutex.
DrainSnapshotUnlocked(c) ==
    /\ caller[c] = "drain.snapshot"
    /\ todo' = [todo EXCEPT ![c] = scopes]
    /\ caller' = [caller EXCEPT ![c] = "drain.sweep"]
    /\ UNCHANGED <<mu, dispatchVars, lifeVars, closeVars, releaseVars,
                   awaiting, asleep, barrierVars>>

DrainSnapshot(c) ==
    /\ caller[c] = "drain.snapshot"
    /\ mu = 0
    /\ todo' = [todo EXCEPT ![c] = scopes]
    /\ caller' = [caller EXCEPT ![c] = "drain.sweep"]
    /\ UNCHANGED <<mu, dispatchVars, lifeVars, closeVars, releaseVars,
                   awaiting, asleep, barrierVars>>

DrainSweep(c, i) ==
    /\ caller[c] = "drain.sweep"
    /\ i \in todo[c]
    /\ startBoundResourceClose(i)
    /\ todo' = [todo EXCEPT ![c] = @ \ {i}]
    /\ UNCHANGED <<mu, dispatchVars, lifeVars, releaseVars, caller, awaiting,
                   asleep, barrierVars>>

DrainSwept(c) ==
    /\ caller[c] = "drain.sweep"
    /\ todo[c] = {}
    /\ caller' = [caller EXCEPT ![c] = "drain.wait"]
    /\ UNCHANGED <<mu, dispatchVars, lifeVars, closeVars, releaseVars, todo,
                   awaiting, asleep, barrierVars>>

\* Mutant of DrainCheck: unresolved tokens do not count.
DrainCheckScopesOnly(c) ==
    /\ caller[c] = "drain.wait"
    /\ mu = 0
    /\ scopes = {}
    /\ state' = "Closed"
    /\ caller' = [caller EXCEPT ![c] = "drain.ok"]
    /\ UNCHANGED <<mu, dispatchVars, closeStarted, closeFinished, closeVars,
                   releaseVars, todo, awaiting, asleep, barrierVars>>

DrainCheck(c) ==
    /\ caller[c] = "drain.wait"
    /\ mu = 0
    /\ \/ /\ pending = {} /\ scopes = {}
          /\ state' = "Closed"
          /\ caller' = [caller EXCEPT ![c] = "drain.ok"]
          /\ UNCHANGED asleep
       \/ /\ pending # {} \/ scopes # {}
          /\ caller' = [caller EXCEPT ![c] = "drain.parked"]
          /\ asleep' = asleep \cup {c}
          /\ UNCHANGED state
    /\ UNCHANGED <<mu, dispatchVars, closeStarted, closeFinished, closeVars,
                   releaseVars, todo, awaiting, barrierVars>>

(***************************************************************************)
(* Close: the first caller swaps the state word and waits for the close of *)
(* every scope it finds, one after the other; later callers wait for it.   *)
(***************************************************************************)
CloseStart(c) ==
    /\ caller[c] = "idle"
    /\ caller' = [caller EXCEPT ![c] = CASE closeStarted -> "close.join"
                                         [] ~closeStarted /\ state = "Closed" -> "close.ok"
                                         [] OTHER -> "close.swap"]
    /\ closeStarted' = (closeStarted \/ state # "Closed")
    /\ UNCHANGED <<state, closeFinished, mu, dispatchVars, closeVars,
                   releaseVars, todo, awaiting, asleep, barrierVars>>

CloseSwap(c) ==
    /\ caller[c] = "close.swap"
    /\ state' = "Closed"
    /\ caller' = [caller EXCEPT ![c] = "close.snapshot"]
    /\ UNCHANGED <<closeStarted, closeFinished, mu, dispatchVars, closeVars,
                   releaseVars, todo, awaiting, asleep, barrierVars>>

\* Mutant of CloseSnapshot: the scopes are copied without the mutex.
CloseSnapshotUnlocked(c) ==
    /\ caller[c] = "close.snapshot"
    /\ todo' = [todo EXCEPT ![c] = scopes]
    /\ caller' = [caller EXCEPT ![c] = "close.sweep"]
    /\ UNCHANGED <<mu, dispatchVars, lifeVars, closeVars, releaseVars,
                   awaiting, asleep, barrierVars>>

CloseSnapshot(c) ==
    /\ caller[c] = "close.snapshot"
    /\ mu = 0
    /\ todo' = [todo EXCEPT ![c] = scopes]
    /\ caller' = [caller EXCEPT ![c] = "close.sweep"]
    /\ UNCHANGED <<mu, dispatchVars, lifeVars, closeVars, releaseVars,
                   awaiting, asleep, barrierVars>>

CloseSweep(c, i) ==
    /\ caller[c] = "close.sweep"
    /\ i \in todo[c]
    /\ startBoundResourceClose(i)
    /\ todo' = [todo EXCEPT ![c] = @ \ {i}]
    /\ awaiting' = [awaiting EXCEPT ![c] = i]
    /\ caller' = [caller EXCEPT ![c] = "close.await"]
    /\ UNCHANGED <<mu, dispatchVars, lifeVars, releaseVars, asleep,
                   barrierVars>>

CloseAwaited(c) ==
    /\ caller[c] = "close.await"
    /\ boundResourceClosed(awaiting[c])
    /\ awaiting' = [awaiting EXCEPT ![c] = 0]
    /\ caller' = [caller EXCEPT ![c] = "close.sweep"]
    /\ UNCHANGED <<mu, dispatchVars, lifeVars, closeVars, releaseVars, todo,
                   asleep, barrierVars>>

CloseFinish(c) ==
    /\ caller[c] = "close.sweep"
    /\ todo[c] = {}
    /\ closeFinished' = TRUE
    /\ caller' = [caller EXCEPT ![c] = "close.ok"]
    /\ UNCHANGED <<state, closeStarted, mu, dispatchVars, closeVars,
                   releaseVars, todo, awaiting, asleep, barrierVars>>

\* Mutant of CloseJoin: a later caller does not wait for the first one.
CloseJoinAtOnce(c) ==
    /\ caller[c] = "close.join"
    /\ caller' = [caller EXCEPT ![c] = "close.ok"]
    /\ UNCHANGED <<mu, dispatchVars, lifeVars, closeVars, releaseVars, todo,
                   awaiting, asleep, barrierVars>>

CloseJoin(c) ==
    /\ caller[c] = "close.join"
    /\ closeFinished
    /\ caller' = [caller EXCEPT ![c] = "close.ok"]
    /\ UNCHANGED <<mu, dispatchVars, lifeVars, closeVars, releaseVars, todo,
                   awaiting, asleep, barrierVars>>

(***************************************************************************)
(* Observation barriers and in-flight snapshots.  The snapshot's revision  *)
(* number, which the registry never reads back, is left out.               *)
(***************************************************************************)
ObserveBarrier(b) ==
    /\ mu = 0
    /\ b > observed
    /\ observed' = b
    /\ barrierSeq' = next
    /\ UNCHANGED <<mu, dispatchVars, lifeVars, closeVars, releaseVars,
                   callerVars, asleep, published, freeze>>

\* Mutant of FreezeInFlight: off by one, the last token before the barrier is
\* not waited for.
FreezeOffByOne ==
    /\ mu = 0
    /\ published' = IF observed > published /\ \A i \in pending : i >= barrierSeq
                    THEN observed
                    ELSE published
    /\ freeze' = [barrier |-> published', executions |-> scopes]
    /\ UNCHANGED <<mu, dispatchVars, lifeVars, closeVars, releaseVars,
                   callerVars, asleep, observed, barrierSeq>>

\* Mutant of FreezeInFlight: running executions hold the barrier back too.
FreezeWaitsForScopes ==
    /\ mu = 0
    /\ published' = IF /\ observed > published
                       /\ \A i \in pending \cup scopes : i > barrierSeq
                    THEN observed
                    ELSE published
    /\ freeze' = [barrier |-> published', executions |-> scopes]
    /\ UNCHANGED <<mu, dispatchVars, lifeVars, closeVars, releaseVars,
                   callerVars, asleep, observed, barrierSeq>>

FreezeInFlight ==
    /\ mu = 0
    /\ published' = IF observed > published /\ \A i \in pending : i > barrierSeq
                    THEN observed
                    ELSE published
    /\ freeze' = [barrier |-> published', executions |-> scopes]
    /\ UNCHANGED <<mu, dispatchVars, lifeVars, closeVars, releaseVars,
                   callerVars, asleep, observed, barrierSeq>>

Owner(i) ==
    \/ BeginCheck(i) \/ BeginReserve(i)
    \/ PendingEnd(i)
    \/ InstallRefused(i) \/ InstallCheck(i)
    \/ \E g \in Groups \cup {Unaccounted} : InstallCommit(i, g)
    \/ BindCheck(i) \/ BindCommit(i)
    \/ EndDeactivate(i) \/ EndStartClose(i) \/ EndMark(i) \/ EndDeliver(i)
    \/ EndDelete(i)

Call(c) ==
    \/ WaitPendingStart(c) \/ WaitPendingCheck(c)
    \/ DrainSwap(c) \/ DrainSnapshot(c) \/ DrainSwept(c) \/ DrainCheck(c)
    \/ CloseStart(c) \/ CloseSwap(c) \/ CloseSnapshot(c) \/ CloseAwaited(c)
    \/ CloseFinish(c) \/ CloseJoin(c)
    \/ \E i \in Ids : DrainSweep(c, i) \/ CloseSweep(c, i)
    \/ Wake(c) \/ Timeout(c)

Subscriber ==
    \/ \E s \in Sinks \cup {NoSink} : SetReleaseSink(s)
    \/ \E r \in replay : ReplayRelease(r)
    \/ \E b \in 1..MaxBarrier : ObserveBarrier(b)
    \/ FreezeInFlight

Next ==
    \/ \E i \in Ids : Owner(i) \/ ResourceClosed(i)
    \/ \E c \in Callers : Call(c)
    \/ Subscriber

Spec == Init /\ [][Next]_vars

(***************************************************************************)
(* Fairness.  A goroutine that holds the mutex releases it; the owner of a *)
(* token ends or installs it (every caller of BeginDispatch does, by a     *)
(* deferred End); closeFn returns; a scope whose resource was closed, or   *)
(* whose Bind was refused, is ended by its owner, and an End runs to its   *)
(* end; a call that can go on does; the publisher freezes again and again. *)
(* Nothing forces an undisturbed execution to end or a context to expire.  *)
(***************************************************************************)
Resolve(i) == PendingEnd(i) \/ InstallRefused(i) \/ InstallCheck(i)

Cancelled(i) ==
    \/ closeDone[i] = "closed"
    \/ state # "Accepting" /\ closeDone[i] = "nil" /\ ~closeFn[i]

Finish(i) ==
    \/ BeginReserve(i) \/ BindCommit(i)
    \/ \E g \in Groups \cup {Unaccounted} : InstallCommit(i, g)
    \/ Cancelled(i) /\ EndDeactivate(i)
    \/ EndStartClose(i) \/ EndMark(i) \/ EndDeliver(i) \/ EndDelete(i)

Proceed(c) ==
    \/ WaitPendingCheck(c)
    \/ DrainSnapshot(c) \/ DrainSwept(c) \/ DrainCheck(c)
    \/ CloseSwap(c) \/ CloseSnapshot(c) \/ CloseAwaited(c) \/ CloseFinish(c)
    \/ CloseJoin(c)
    \/ \E i \in Ids : DrainSweep(c, i) \/ CloseSweep(c, i)
    \/ Wake(c)

Fairness ==
    /\ \A i \in Ids : /\ WF_vars(Resolve(i))
                      /\ WF_vars(Finish(i))
                      /\ WF_vars(ResourceClosed(i))
    /\ \A c \in Callers : WF_vars(Proceed(c))
    /\ WF_vars(FreezeInFlight)

FairSpec == Spec /\ Fairness

-----------------------------------------------------------------------------
LifeType ==
    /\ state \in {"Accepting", "Draining", "Closed"}
    /\ closeStarted \in BOOLEAN /\ closeFinished \in BOOLEAN

DispatchType ==
    /\ mu \in 0..MaxDispatch
    /\ next \in 0..MaxDispatch
    /\ pending \subseteq Ids /\ scopes \subseteq Ids
    /\ pc \in [Ids -> OwnerPCs]
    /\ group \in [Ids -> Groups \cup {Unaccounted}]
    /\ begunUnder \in [Ids -> 0..MaxBarrier]

CloseType ==
    /\ closeFn \in [Ids -> BOOLEAN]
    /\ closeDone \in [Ids -> {"nil", "open", "closed"}]

ReleaseType ==
    /\ releaseSeq \in [Groups -> Nat]
    /\ sink \in Sinks \cup {NoSink}
    /\ call \in [Ids -> (Sinks \cup {NoSink}) \X Nat]
    /\ replay \subseteq Groups \X Nat
    /\ told \subseteq (Sinks \cup {NoSink}) \X (Groups \cup {Unaccounted}) \X Nat

CallerType ==
    /\ caller \in [Callers -> CallerPCs]
    /\ todo \in [Callers -> SUBSET Ids]
    /\ awaiting \in [Callers -> 0..MaxDispatch]
    /\ asleep \subseteq Callers

BarrierType ==
    /\ observed \in 0..MaxBarrier /\ published \in 0..MaxBarrier
    /\ barrierSeq \in 0..MaxDispatch
    /\ freeze \in [barrier : 0..MaxBarrier, executions : SUBSET Ids]

\* The values the variables take (registry.go, the Registry and Scope structs).
TypeOK == LifeType /\ DispatchType /\ CloseType /\ ReleaseType /\ CallerType /\ BarrierType

\* Where a Drain or Close call is once it has copied the scopes.
SnapshotTaken == {"drain.sweep", "drain.wait", "drain.parked", "drain.ok",
                  "drain.timeout", "close.sweep", "close.await", "close.ok"}

\* A Drain or Close call that has started the close of all it found.
Swept(c) == \/ caller[c] \in {"drain.wait", "drain.parked", "drain.ok", "drain.timeout"}
            \/ caller[c] = "close.ok"
            \/ caller[c] \in {"drain.sweep", "close.sweep"} /\ todo[c] = {}

\* Once a Drain or Close has gone through the scopes it found, no scope of the
\* registry, then or ever after, has a bound resource whose close was not
\* started: the state word is swapped without the mutex, so an Install or Bind
\* that read it as accepting may still be on its way (registry.go 275, 387).
SweepMissesNothing ==
    \A c \in Callers : Swept(c) => \A i \in Ids : ~closeFn[i]

\* Drain returns nil only when no dispatch is unresolved, no execution is left,
\* every resource that was ever bound has been closed and every accounted
\* execution has had its release numbered; and it stays so.
DrainedIsQuiescent ==
    \A c \in Callers : caller[c] = "drain.ok" =>
        /\ state = "Closed"
        /\ pending = {} /\ scopes = {}
        /\ \A i \in Ids : /\ pc[i] \in {"unborn", "ended", "dropped"}
                          /\ ~closeFn[i] /\ closeDone[i] # "open"

\* Whoever Close returns to, the first caller or one that joined it, every bound
\* resource has been closed, not merely told to close.
CloseReturnsClosed ==
    \A c \in Callers : caller[c] = "close.ok" =>
        \A i \in Ids : ~closeFn[i] /\ closeDone[i] # "open"

\* A slot is given back (its release numbered) only after the resource that
\* used it has been closed, whoever started that close, the ending owner, a
\* Drain or a Close.
ReleaseFollowsClose ==
    \A i \in Ids : pc[i] \in ReleasedPCs => ~closeFn[i] /\ closeDone[i] # "open"

\* The accounted executions of group g that ended.
Released(g) == {i \in Ids : group[i] = g /\ pc[i] \in ReleasedPCs}

\* The cumulative sequence of a group is the number of its accounted executions
\* that ended: Home frees as many slots as were used, never more.
SequenceCountsReleases ==
    \A g \in Groups : releaseSeq[g] = Cardinality(Released(g))

\* The current sink was called with the latest sequence of g, or will be by
\* SetReleaseSink's replay or by the scope that was given the sequence.
SinkHears(g) ==
    \/ <<sink, g, releaseSeq[g]>> \in told
    \/ <<g, releaseSeq[g]>> \in replay
    \/ \E i \in Ids : /\ pc[i] = "marked" /\ group[i] = g
                      /\ call[i] = <<sink, releaseSeq[g]>>

\* Replacing the sink loses no release: whatever the interleaving of ending
\* scopes with SetReleaseSink, the sink in place hears of the latest sequence
\* of every group (registry.go 249-255 and 310-316).
SinkHearsLatest ==
    \A g \in Groups : sink # NoSink /\ releaseSeq[g] > 0 => SinkHears(g)

\* A barrier is published only when every dispatch that began before Home's
\* barrier was observed has been answered: an unresolved token always began
\* under a barrier at least as recent as the published one.
BarrierCoversPending ==
    \A i \in pending : begunUnder[i] >= published

\* A snapshot that carries a barrier names every execution begun before that
\* barrier which is still running or whose release the sink was not told of
\* yet: what it does not name was dropped or has ended.
FreezeNamesUnreleased ==
    \A i \in Ids :
        i <= next /\ begunUnder[i] < freeze.barrier /\ i \notin freeze.executions
            => pc[i] \in {"ended", "dropped"}

\* After Drain or Close took its snapshot nothing is admitted any more: tokens
\* and scopes only disappear.
NoAdmissionAfterSnapshot ==
    [][(\E c \in Callers : caller[c] \in SnapshotTaken)
          => pending' \subseteq pending /\ scopes' \subseteq scopes]_vars

\* Every Drain, Close and WaitPending call returns: no wake-up is lost between
\* the capture of Registry.changed and the signal, and cancelling the bound
\* resources is enough for the owners to leave.
CallsReturn ==
    \A c \in Callers :
        caller[c] # "idle" ~> caller[c] \in {"drain.ok", "drain.timeout", "drain.refused",
                                            "close.ok", "pending.ok", "pending.timeout"}

\* A barrier Home announced is eventually published in a snapshot, even while
\* executions that began before it go on for ever.
BarrierPublished ==
    \A b \in 1..MaxBarrier : observed = b ~> published >= b

(***************************************************************************)
(* The safety of the registry, in one invariant: besides the types, a call *)
(* of Close that has returned left nothing open, a release is numbered     *)
(* after the close and counted once, the sink in place hears the latest    *)
(* number, and a snapshot with a barrier names what is still running.      *)
(***************************************************************************)
RegistryInv ==
    /\ TypeOK
    /\ CloseReturnsClosed
    /\ ReleaseFollowsClose
    /\ SequenceCountsReleases
    /\ SinkHearsLatest
    /\ FreezeNamesUnreleased
=============================================================================
