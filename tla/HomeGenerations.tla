-------------------------- MODULE HomeGenerations --------------------------
(***************************************************************************)
(* How Home subscribers replace one another (sdk/cliproxy/service_home.go, *)
(* Shutdown of service_lifecycle.go).  startHomeSubscriber starts a        *)
(* generation: a supervisor that runs one client lifetime after another,   *)
(* each with a worker that commits the configurations Home sends and       *)
(* publishes the client when the first of them is in place.  A further     *)
(* start, or the shutdown, cancels the supervisor, waits for it and takes  *)
(* away what it has left published.                                        *)
(*                                                                         *)
(* HomeLifetime has what requests do meanwhile; here drains and waits for  *)
(* requests just succeed or fail.  homeOwnershipMu is left out: only       *)
(* workers take it, and OneAtATime shows that there is never a second one. *)
(***************************************************************************)
EXTENDS Naturals, FiniteSets

CONSTANTS
    MaxGeneration,  \* bound: calls of startHomeSubscriber
    MaxLifetime,    \* bound: client lifetimes of a generation
    MaxConfig       \* bound: configurations Home sends in a lifetime

ASSUME GenerationsAssumption ==
    /\ MaxGeneration \in Nat \ {0} /\ MaxLifetime \in Nat \ {0} /\ MaxConfig \in Nat \ {0}

Generations == 1..(MaxGeneration + 1)       \* Shutdown takes a number too
Clients == Generations \X (1..MaxLifetime)
None == <<0, 0>>
Callers == {"start", "stop"}

VARIABLES
    lifecycleMu, commitMu,  \* who holds homeLifecycleMu and homeConfigCommitMu
    call, held,     \* where each caller is, and what drainDetachedHomeLifetime took
    parentDone,     \* the context of Run is cancelled
    generation, homeCancel, homeClient, bundle, logClient, supervisor,  \* Service fields
    dispatch,       \* the bundle published in the core manager
    current,        \* home.Current
    cancelled,      \* generations whose own context is cancelled
    done,           \* generations whose supervisor.done is closed
    sup, life,      \* where each supervisor is, and the number of its lifetime
    took,           \* what detachHomeSubscriberLifetime took from the service
    ended,          \* clients whose lifetime context is cancelled
    worker,         \* where the config worker of each generation is
    queued, wake, ready, published,     \* of the lifetime: its config work queue and flags
    received,       \* configurations the lifetime has received
    publisher,      \* the in-flight publisher of the lifetime
    config,         \* who committed the service's configuration last
    replaced,       \* history: generations cancelled by a caller
    failed          \* history: a drain or a wait for requests has failed

callVars == <<lifecycleMu, call, held>>
serviceVars == <<generation, homeCancel, homeClient, bundle, logClient, supervisor,
                 dispatch, current>>
supVars == <<done, sup, life, took, ended>>
workVars == <<queued, wake, ready, published, received>>
vars == <<callVars, commitMu, parentDone, serviceVars, cancelled, supVars, worker, workVars,
          publisher, config, replaced, failed>>

Init ==
    /\ lifecycleMu = "free" /\ commitMu = "free"
    /\ call = [a \in Callers |-> "idle"] /\ held = None
    /\ parentDone = FALSE
    /\ generation = 0 /\ homeCancel = 0 /\ homeClient = None /\ bundle = None
    /\ logClient = None /\ supervisor = 0 /\ dispatch = None /\ current = None
    /\ cancelled = {} /\ done = {}
    /\ sup = [g \in Generations |-> "off"] /\ life = [g \in Generations |-> 0]
    /\ took = [g \in Generations |-> None]
    /\ ended = {}
    /\ worker = [g \in Generations |-> "ended"]
    /\ queued = [g \in Generations |-> 0] /\ wake = [g \in Generations |-> FALSE]
    /\ ready = [g \in Generations |-> FALSE] /\ published = [g \in Generations |-> FALSE]
    /\ received = [g \in Generations |-> 0]
    /\ publisher = [g \in Generations |-> "none"]
    /\ config = None
    /\ replaced = {} /\ failed = FALSE

client(g) == <<g, life[g]>>
homeCtxDone(g) == parentDone \/ g \in cancelled
lifetimeDone(g) == homeCtxDone(g) \/ client(g) \in ended
homeLifetimeActive(g) == ~lifetimeDone(g) /\ generation = g
without(field, c) == IF field = c THEN None ELSE field

\* A failed drain or wait: cancelServiceRun.
Settles(ok) ==
    /\ failed' = (failed \/ ~ok)
    /\ parentDone' = (parentDone \/ ~ok)

(***************************************************************************)
(* startHomeSubscriber ("start") and Shutdown ("stop").                    *)
(***************************************************************************)
CallLock(a) ==
    /\ call[a] = "idle"
    /\ lifecycleMu = "free"
    /\ a = "start" => generation < MaxGeneration
    /\ lifecycleMu' = a
    /\ call' = [call EXCEPT ![a] = IF supervisor = 0 THEN "take" ELSE "cancel"]
    /\ UNCHANGED <<held, commitMu, parentDone, serviceVars, cancelled, supVars, worker,
                   workVars, publisher, config, replaced, failed>>

\* Mutant of CallCancel: the supervisor is cancelled without the commit lock.
CallCancelUnlocked(a) ==
    /\ call[a] = "cancel"
    /\ cancelled' = cancelled \cup {supervisor}
    /\ replaced' = replaced \cup {supervisor}
    /\ call' = [call EXCEPT ![a] = "wait"]
    /\ UNCHANGED <<lifecycleMu, held, commitMu, parentDone, serviceVars, supVars, worker,
                   workVars, publisher, config, failed>>

CallCancel(a) ==
    /\ call[a] = "cancel"
    /\ commitMu = "free"
    /\ cancelled' = cancelled \cup {supervisor}
    /\ replaced' = replaced \cup {supervisor}
    /\ call' = [call EXCEPT ![a] = "wait"]
    /\ UNCHANGED <<lifecycleMu, held, commitMu, parentDone, serviceVars, supVars, worker,
                   workVars, publisher, config, failed>>

\* Mutant of CallWait: nobody waits for the supervisor.
CallWaitSkipped(a) ==
    /\ call[a] = "wait"
    /\ call' = [call EXCEPT ![a] = "take"]
    /\ UNCHANGED <<lifecycleMu, held, commitMu, parentDone, serviceVars, cancelled, supVars,
                   worker, workVars, publisher, config, replaced, failed>>

CallWait(a) ==
    /\ call[a] = "wait"
    /\ supervisor \in done
    /\ call' = [call EXCEPT ![a] = "take"]
    /\ UNCHANGED <<lifecycleMu, held, commitMu, parentDone, serviceVars, cancelled, supVars,
                   worker, workVars, publisher, config, replaced, failed>>

\* Under homeMu: what is published is taken away.  Shutdown outdates the generation.
CallTake(a) ==
    /\ call[a] = "take"
    /\ held' = homeClient
    /\ cancelled' = cancelled \cup ({homeCancel} \ {0})
    /\ homeCancel' = 0 /\ homeClient' = None /\ bundle' = None /\ logClient' = None
    /\ generation' = IF a = "stop" THEN generation + 1 ELSE generation
    /\ call' = [call EXCEPT ![a] = "drain"]
    /\ UNCHANGED <<lifecycleMu, commitMu, parentDone, supervisor, dispatch, current, supVars,
                   worker, workVars, publisher, config, replaced, failed>>

\* The taken bundle and client are cleared; a registry that is still there is
\* drained (by a start, which gives up when that fails) or closed.
CallDrain(a, ok) ==
    /\ call[a] = "drain"
    /\ ok \/ (a = "start" /\ held # None)
    /\ dispatch' = without(dispatch, held) /\ current' = without(current, held)
    /\ held' = None
    /\ Settles(ok)
    /\ call' = [call EXCEPT ![a] = IF a = "start" /\ ok THEN "go"
                                   ELSE IF a = "start" THEN "idle" ELSE "returned"]
    /\ lifecycleMu' = IF a = "start" /\ ok THEN a ELSE "free"
    /\ UNCHANGED <<commitMu, generation, homeCancel, homeClient, bundle, logClient, supervisor,
                   cancelled, supVars, worker, workVars, publisher, config, replaced>>

StartGeneration ==
    LET g == generation + 1
    IN  /\ call["start"] = "go"
        /\ call' = [call EXCEPT !["start"] = "idle"]
        /\ lifecycleMu' = "free"
        /\ \/ parentDone /\ UNCHANGED <<generation, homeCancel, supervisor, sup>>
           \/ /\ ~parentDone
              /\ generation' = g /\ homeCancel' = g /\ supervisor' = g
              /\ sup' = [sup EXCEPT ![g] = "new"]
        /\ UNCHANGED <<held, commitMu, parentDone, homeClient, bundle, logClient, dispatch,
                       current, cancelled, done, life, took, ended, worker, workVars,
                       publisher, config, replaced, failed>>

\* The context of Run ends.
CancelRun ==
    /\ ~parentDone
    /\ parentDone' = TRUE
    /\ UNCHANGED <<callVars, commitMu, serviceVars, cancelled, supVars, worker, workVars,
                   publisher, config, replaced, failed>>

(***************************************************************************)
(* The supervisor: runHomeSubscriber.                                      *)
(***************************************************************************)
\* The next round of the loop: a client, its queue and its worker.
NewLifetime(g) ==
    /\ sup[g] = "new"
    /\ \/ /\ homeCtxDone(g)
          /\ sup' = [sup EXCEPT ![g] = "deferred"]
          /\ UNCHANGED <<life, worker, workVars, publisher>>
       \/ /\ ~homeCtxDone(g)
          /\ life[g] < MaxLifetime
          /\ life' = [life EXCEPT ![g] = @ + 1]
          /\ sup' = [sup EXCEPT ![g] = "run"]
          /\ worker' = [worker EXCEPT ![g] = "ready"]
          /\ queued' = [queued EXCEPT ![g] = 0] /\ wake' = [wake EXCEPT ![g] = FALSE]
          /\ ready' = [ready EXCEPT ![g] = FALSE]
          /\ published' = [published EXCEPT ![g] = FALSE]
          /\ received' = [received EXCEPT ![g] = 0]
          /\ publisher' = [publisher EXCEPT ![g] = "none"]
    /\ UNCHANGED <<callVars, commitMu, parentDone, serviceVars, cancelled, done, took, ended,
                   config, replaced, failed>>

\* The subscription: a configuration arrives and is enqueued, and the worker is
\* woken after the unlock; the first is fetched before Home confirms.
OnConfig(g) ==
    /\ sup[g] = "run"
    /\ received[g] = 0 \/ ready[g]
    /\ received[g] < MaxConfig
    /\ received' = [received EXCEPT ![g] = @ + 1]
    /\ queued' = [queued EXCEPT ![g] = @ + 1]
    /\ sup' = [sup EXCEPT ![g] = "enqueue"]
    /\ UNCHANGED <<callVars, commitMu, parentDone, serviceVars, cancelled, done, life, took,
                   ended, worker, wake, ready, published, publisher, config, replaced, failed>>

\* Mutant of Wake: the token is dropped.
WakeNobody(g) ==
    /\ sup[g] = "enqueue"
    /\ sup' = [sup EXCEPT ![g] = "run"]
    /\ UNCHANGED <<callVars, commitMu, parentDone, serviceVars, cancelled, done, life, took,
                   ended, worker, workVars, publisher, config, replaced, failed>>

Wake(g) ==
    /\ sup[g] = "enqueue"
    /\ wake' = [wake EXCEPT ![g] = TRUE]
    /\ sup' = [sup EXCEPT ![g] = "run"]
    /\ UNCHANGED <<callVars, commitMu, parentDone, serviceVars, cancelled, done, life, took,
                   ended, worker, queued, ready, published, received, publisher, config,
                   replaced, failed>>

OnReady(g) ==
    /\ sup[g] = "run"
    /\ received[g] > 0 /\ ~ready[g]
    /\ ready' = [ready EXCEPT ![g] = TRUE]
    /\ UNCHANGED <<callVars, commitMu, parentDone, serviceVars, cancelled, supVars, worker,
                   queued, wake, published, received, publisher, config, replaced, failed>>

\* RunConfigSubscriberLifetime fails, or its context ends; lifetimeCancel.
LifetimeEnds(g) ==
    /\ sup[g] = "run"
    /\ ended' = ended \cup {client(g)}
    /\ sup' = [sup EXCEPT ![g] = "join"]
    /\ UNCHANGED <<callVars, commitMu, parentDone, serviceVars, cancelled, done, life, took,
                   worker, workVars, publisher, config, replaced, failed>>

Join(g) ==
    /\ sup[g] = "join"
    /\ worker[g] = "ended"
    /\ publisher[g] # "running"
    /\ sup' = [sup EXCEPT ![g] = "detach"]
    /\ UNCHANGED <<callVars, commitMu, parentDone, serviceVars, cancelled, done, life, took,
                   ended, worker, workVars, publisher, config, replaced, failed>>

\* detachHomeSubscriberLifetime: under homeMu, then outside of it.
Detach(g) ==
    /\ sup[g] = "detach"
    /\ took' = [took EXCEPT ![g] = IF homeClient = client(g) THEN bundle ELSE None]
    /\ homeClient' = without(homeClient, client(g))
    /\ bundle' = IF homeClient = client(g) THEN None ELSE bundle
    /\ logClient' = without(logClient, client(g))
    /\ sup' = [sup EXCEPT ![g] = "clear"]
    /\ UNCHANGED <<callVars, commitMu, parentDone, generation, homeCancel, supervisor,
                   dispatch, current, cancelled, done, life, ended, worker, workVars,
                   publisher, config, replaced, failed>>

\* Mutant of Clear: the bundle stays published.
ClearCurrentOnly(g) ==
    /\ sup[g] = "clear"
    /\ current' = without(current, client(g))
    /\ took' = [took EXCEPT ![g] = None]
    /\ sup' = [sup EXCEPT ![g] = IF homeCtxDone(g) THEN "drain" ELSE "settle"]
    /\ UNCHANGED <<callVars, commitMu, parentDone, generation, homeCancel, homeClient, bundle,
                   logClient, supervisor, dispatch, cancelled, done, life, ended, worker,
                   workVars, publisher, config, replaced, failed>>

Clear(g) ==
    /\ sup[g] = "clear"
    /\ dispatch' = IF took[g] = None THEN dispatch ELSE without(dispatch, took[g])
    /\ current' = without(current, client(g))
    /\ took' = [took EXCEPT ![g] = None]
    /\ sup' = [sup EXCEPT ![g] = IF homeCtxDone(g) THEN "drain" ELSE "settle"]
    /\ UNCHANGED <<callVars, commitMu, parentDone, generation, homeCancel, homeClient, bundle,
                   logClient, supervisor, cancelled, done, life, ended, worker, workVars,
                   publisher, config, replaced, failed>>

\* Before a retry: WaitPending and, where the takeover is unsafe, Drain; then the
\* pause of a lifetime that was never published.
Settle(g, ok) ==
    /\ sup[g] = "settle"
    /\ Settles(ok)
    /\ sup' = [sup EXCEPT ![g] = IF ok THEN "new" ELSE "deferred"]
    /\ UNCHANGED <<callVars, commitMu, serviceVars, cancelled, done, life, took, ended, worker,
                   workVars, publisher, config, replaced>>

\* Mutant of Drain: the failure is only logged.
DrainLogged(g, ok) ==
    /\ sup[g] = "drain"
    /\ failed' = (failed \/ ~ok)
    /\ sup' = [sup EXCEPT ![g] = "deferred"]
    /\ UNCHANGED <<callVars, commitMu, parentDone, serviceVars, cancelled, done, life, took,
                   ended, worker, workVars, publisher, config, replaced>>

\* At the end: Drain and Flush.
Drain(g, ok) ==
    /\ sup[g] = "drain"
    /\ Settles(ok)
    /\ sup' = [sup EXCEPT ![g] = "deferred"]
    /\ UNCHANGED <<callVars, commitMu, serviceVars, cancelled, done, life, took, ended, worker,
                   workVars, publisher, config, replaced>>

\* The deferred functions: Drain once more, then homeCancel and done.
DeferredDrain(g, ok) ==
    /\ sup[g] = "deferred"
    /\ Settles(ok)
    /\ sup' = [sup EXCEPT ![g] = "exit"]
    /\ UNCHANGED <<callVars, commitMu, serviceVars, cancelled, done, life, took, ended, worker,
                   workVars, publisher, config, replaced>>

Exit(g) ==
    /\ sup[g] = "exit"
    /\ homeCancel' = IF generation = g THEN 0 ELSE homeCancel
    /\ done' = done \cup {g}
    /\ sup' = [sup EXCEPT ![g] = "off"]
    /\ UNCHANGED <<callVars, commitMu, parentDone, generation, homeClient, bundle, logClient,
                   supervisor, dispatch, current, cancelled, life, took, ended, worker, workVars,
                   publisher, config, replaced, failed>>

(***************************************************************************)
(* The worker: runHomeConfigWorkerWithSupervisor.                          *)
(***************************************************************************)
workerRest == <<callVars, parentDone, serviceVars, cancelled, supVars, replaced, failed>>

\* It waits until Home has confirmed the subscription.
WorkerReady(g) ==
    /\ worker[g] = "ready"
    /\ \/ lifetimeDone(g) /\ worker' = [worker EXCEPT ![g] = "ended"]
       \/ ready[g] /\ worker' = [worker EXCEPT ![g] = "dequeue"]
    /\ UNCHANGED <<workerRest, commitMu, workVars, publisher, config>>

Dequeue(g) ==
    /\ worker[g] = "dequeue"
    /\ \/ /\ lifetimeDone(g) /\ worker' = [worker EXCEPT ![g] = "ended"]
          /\ UNCHANGED queued
       \/ /\ ~lifetimeDone(g) /\ queued[g] > 0
          /\ queued' = [queued EXCEPT ![g] = @ - 1]
          /\ worker' = [worker EXCEPT ![g] = "stage"]
       \/ /\ ~lifetimeDone(g) /\ queued[g] = 0
          /\ worker' = [worker EXCEPT ![g] = "asleep"]
          /\ UNCHANGED queued
    /\ UNCHANGED <<workerRest, commitMu, wake, ready, published, received, publisher, config>>

WorkerWakes(g) ==
    /\ worker[g] = "asleep"
    /\ \/ /\ lifetimeDone(g) /\ worker' = [worker EXCEPT ![g] = "ended"]
          /\ UNCHANGED wake
       \/ /\ wake[g] /\ wake' = [wake EXCEPT ![g] = FALSE]
          /\ worker' = [worker EXCEPT ![g] = "dequeue"]
    /\ UNCHANGED <<workerRest, commitMu, queued, ready, published, received, publisher, config>>

\* Parsing and stageHomeOverlayWithClient, which is repeated until it succeeds.
Stage(g, ok) ==
    /\ worker[g] = "stage"
    /\ \/ ~ok /\ lifetimeDone(g) /\ worker' = [worker EXCEPT ![g] = "ended"]
       \/ ok /\ worker' = [worker EXCEPT ![g] = "commit"]
    /\ UNCHANGED <<workerRest, commitMu, workVars, publisher, config>>

\* commitHomeConfig: the lock, the check and the commit.
CommitLock(g) ==
    /\ worker[g] = "commit"
    /\ commitMu = "free"
    /\ commitMu' = "worker"
    /\ worker' = [worker EXCEPT ![g] = "check"]
    /\ UNCHANGED <<workerRest, workVars, publisher, config>>

\* Mutant of CommitCheck: the early return leaves the lock held.
CommitCheckHolds(g) ==
    /\ worker[g] = "check"
    /\ worker' = [worker EXCEPT ![g] = IF homeLifetimeActive(g) THEN "store" ELSE "ended"]
    /\ UNCHANGED <<workerRest, commitMu, workVars, publisher, config>>

CommitCheck(g) ==
    /\ worker[g] = "check"
    /\ worker' = [worker EXCEPT ![g] = IF homeLifetimeActive(g) THEN "store" ELSE "ended"]
    /\ commitMu' = IF homeLifetimeActive(g) THEN commitMu ELSE "free"
    /\ UNCHANGED <<workerRest, workVars, publisher, config>>

CommitStore(g) ==
    /\ worker[g] = "store"
    /\ config' = client(g)
    /\ commitMu' = "free"
    /\ worker' = [worker EXCEPT ![g] = "runtime"]
    /\ UNCHANGED <<workerRest, workVars, publisher>>

\* applyConfigRuntime.  It gives up when the lifetime ends, and also when a
\* server it replaces does not stop in time: then the worker is gone although
\* the subscription lives on.
ApplyRuntime(g, ok) ==
    /\ worker[g] = "runtime"
    /\ worker' = [worker EXCEPT ![g] = IF ok /\ homeLifetimeActive(g) THEN "finalize"
                                       ELSE IF lifetimeDone(g) THEN "ended" ELSE "gave up"]
    /\ UNCHANGED <<workerRest, commitMu, workVars, publisher, config>>

GaveUp(g) ==
    /\ worker[g] = "gave up"
    /\ lifetimeDone(g)
    /\ worker' = [worker EXCEPT ![g] = "ended"]
    /\ UNCHANGED <<workerRest, commitMu, workVars, publisher, config>>

\* Mutant of Finalize: the retries do not look at the context.
FinalizeForever(g, ok) ==
    /\ worker[g] = "finalize"
    /\ ok
    /\ worker' = [worker EXCEPT ![g] = IF published[g] THEN "dequeue" ELSE "publish"]
    /\ UNCHANGED <<workerRest, commitMu, workVars, publisher, config>>

\* finalizeHomePluginWorkUntilDone: reports to Home, repeated until they succeed.
Finalize(g, ok) ==
    /\ worker[g] = "finalize"
    /\ \/ ~ok /\ ~homeLifetimeActive(g) /\ worker' = [worker EXCEPT ![g] = "ended"]
       \/ /\ ok
          /\ worker' = [worker EXCEPT ![g] = IF published[g] THEN "dequeue" ELSE "publish"]
    /\ UNCHANGED <<workerRest, commitMu, workVars, publisher, config>>

\* publish, under homeMu.
Publish(g) ==
    /\ worker[g] = "publish"
    /\ \/ /\ ~homeLifetimeActive(g)
          /\ worker' = [worker EXCEPT ![g] = "ended"]
          /\ UNCHANGED <<homeClient, bundle, dispatch, current, logClient, published>>
       \/ /\ homeLifetimeActive(g)
          /\ homeClient' = client(g) /\ bundle' = client(g) /\ dispatch' = client(g)
          /\ current' = client(g) /\ logClient' = client(g)
          /\ published' = [published EXCEPT ![g] = TRUE]
          /\ worker' = [worker EXCEPT ![g] = "publishers"]
    /\ UNCHANGED <<callVars, commitMu, parentDone, generation, homeCancel, supervisor,
                   cancelled, supVars, queued, wake, ready, received, publisher, config,
                   replaced, failed>>

\* startHomeInFlightPublisher (and the usage forwarder, see UsageQueue).
StartPublishers(g) ==
    /\ worker[g] = "publishers"
    /\ publisher' = [publisher EXCEPT ![g] = "running"]
    /\ worker' = [worker EXCEPT ![g] = "dequeue"]
    /\ UNCHANGED <<workerRest, commitMu, workVars, config>>

PublisherEnds(g) ==
    /\ publisher[g] = "running"
    /\ lifetimeDone(g)
    /\ publisher' = [publisher EXCEPT ![g] = "done"]
    /\ UNCHANGED <<workerRest, commitMu, worker, workVars, config>>

Caller(a) ==
    CallCancel(a) \/ CallWait(a) \/ CallTake(a) \/ (\E ok \in BOOLEAN : CallDrain(a, ok))

\* The supervisor's steps once its lifetime has ended.
Supervise(g) ==
    \/ NewLifetime(g) \/ Wake(g) \/ Join(g) \/ Detach(g) \/ Clear(g) \/ Exit(g)
    \/ \E ok \in BOOLEAN : Settle(g, ok) \/ Drain(g, ok) \/ DeferredDrain(g, ok)

Work(g) ==
    \/ WorkerReady(g) \/ Dequeue(g) \/ WorkerWakes(g) \/ Stage(g, FALSE) \/ CommitLock(g)
    \/ CommitCheck(g) \/ CommitStore(g) \/ (\E ok \in BOOLEAN : ApplyRuntime(g, ok)) \/ GaveUp(g)
    \/ Finalize(g, FALSE) \/ Publish(g) \/ StartPublishers(g)

HomeAnswers(g) == Stage(g, TRUE) \/ Finalize(g, TRUE)

Next ==
    \/ \E a \in Callers : CallLock(a) \/ Caller(a)
    \/ StartGeneration \/ CancelRun
    \/ \E g \in Generations :
        OnConfig(g) \/ OnReady(g) \/ LifetimeEnds(g) \/ Supervise(g) \/ Work(g)
        \/ HomeAnswers(g) \/ PublisherEnds(g)

Spec == Init /\ [][Next]_vars

\* Callers, supervisors and workers that can go on do: drains and waits are
\* bounded by a timeout, and a subscription ends when its context does.  Nothing
\* makes Home send, confirm or answer, or a lifetime fail.
Fairness ==
    /\ \A a \in Callers : WF_vars(Caller(a))
    /\ WF_vars(StartGeneration)
    /\ \A g \in Generations :
        /\ WF_vars(Supervise(g) \/ (homeCtxDone(g) /\ LifetimeEnds(g)))
        /\ WF_vars(Work(g)) /\ WF_vars(PublisherEnds(g))

FairSpec == Spec /\ Fairness

(***************************************************************************)
(* Properties.                                                             *)
(***************************************************************************)
TypeOK ==
    /\ lifecycleMu \in Callers \cup {"free"} /\ commitMu \in {"free", "worker"}
    /\ call \in [Callers -> {"idle", "cancel", "wait", "take", "drain", "go", "returned"}]
    /\ {held, homeClient, bundle, logClient, dispatch, current, config} \subseteq Clients \cup {None}
    /\ generation \in 0..(MaxGeneration + 1)
    /\ {homeCancel, supervisor} \subseteq Generations \cup {0}
    /\ cancelled \subseteq Generations /\ done \subseteq Generations
    /\ sup \in [Generations -> {"off", "new", "run", "enqueue", "join", "detach", "clear",
                                "settle", "drain", "deferred", "exit"}]
    /\ life \in [Generations -> 0..MaxLifetime]
    /\ took \in [Generations -> Clients \cup {None}]
    /\ ended \subseteq Clients
    /\ worker \in [Generations -> {"ready", "dequeue", "asleep", "stage", "commit", "check",
                                   "store", "runtime", "gave up", "finalize", "publish",
                                   "publishers", "ended"}]
    /\ (commitMu = "worker") = (\E g \in Generations : worker[g] \in {"check", "store"})
    /\ queued \in [Generations -> 0..MaxConfig] /\ received \in [Generations -> 0..MaxConfig]
    /\ publisher \in [Generations -> {"none", "running", "done"}]

\* Generations do not overlap: a supervisor, a worker or a publisher runs only
\* when those of every other generation have ended.
OneAtATime ==
    Cardinality({g \in Generations : \/ sup[g] # "off" \/ worker[g] # "ended"
                                     \/ publisher[g] = "running"}) <= 1

\* A supervisor that is through, or between two lifetimes, has left nothing of
\* its clients published: no request, log line or plugin task of what comes
\* after reaches one of them.
RetiredIsForgotten ==
    \A g \in Generations : g \in done \/ sup[g] \in {"settle", "new"} =>
        \A c \in {homeClient, bundle, dispatch, current, logClient} : c[1] # g

\* Once startHomeSubscriber or Shutdown has cancelled a generation, no
\* configuration of that generation is committed any more.
NoCommitAfterReplacement ==
    [][config' # config => config'[1] \notin replaced]_vars

\* Executions that could not be drained may still be running under the old
\* registry: after a failed drain no client is started any more.
FailedDrainEndsService ==
    [][failed => life' = life]_vars

\* Shutdown always comes to its end, whatever the worker is blocked on.
ShutdownReturns == call["stop"] = "cancel" ~> call["stop"] = "returned"

\* A configuration that Home has confirmed and sent is taken by the worker in the end,
\* unless the lifetime ends or the runtime could not take an earlier one,
\* provided that the calls a worker repeats until Home answers succeed in the end.
ConfigsAreTaken ==
    (\A g \in Generations : WF_vars(HomeAnswers(g))) =>
        \A g \in Generations :
            queued[g] > 0 /\ ready[g]
                ~> queued[g] = 0 \/ lifetimeDone(g) \/ worker[g] = "gave up"

(***************************************************************************)
(* How generations follow one another, in one invariant: besides the       *)
(* types, they do not overlap, and what is over is published nowhere.      *)
(***************************************************************************)
GenerationsInv ==
    /\ TypeOK
    /\ OneAtATime
    /\ RetiredIsForgotten
=============================================================================
