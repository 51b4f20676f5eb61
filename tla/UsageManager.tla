---------------------------- MODULE UsageManager ----------------------------
(***************************************************************************)
(* The usage manager (sdk/cliproxy/usage/manager.go): requests publish     *)
(* records into an unbounded queue, one goroutine hands each of them to    *)
(* the registered plugins.  The queue plugin is there from the start; the  *)
(* embedded keeper registers under a name, and a later instance replaces   *)
(* it.  At shutdown the manager is stopped and the keeper closed           *)
(* (service_lifecycle.go, internal/cmd/run.go, usagekeeper/runtime.go).    *)
(***************************************************************************)
EXTENDS Naturals, Sequences, SequencesExt

CONSTANTS
    Published,      \* each is published by a goroutine of its own
    QueuePlugin,    \* registered by init of redisqueue/plugin.go
    Keepers         \* instances registered under the keeper's name

ASSUME ManagerAssumption == QueuePlugin \notin Keepers

Plugins == Keepers \cup {QueuePlugin}

VARIABLES
    pub,            \* where each Publish is
    queue,          \* Manager.queue
    closed,         \* Manager.closed
    worker,         \* where run is
    item,           \* the record being dispatched, a sequence of at most one
    calls,          \* the plugins dispatch has still to invoke
    plugins,        \* Manager.plugins
    stop,           \* where the shutdown is
    keeperOpen,     \* the embedded runtime has its writer
    accepted,       \* history: the records in the order they were queued
    heard,          \* history: the records each kind of plugin was handed
    stored          \* history: the records the keeper has written to its inbox

ManagerVars == <<pub, queue, closed, worker, item, calls, plugins, stop, keeperOpen,
                 accepted, heard, stored>>

ManagerInit ==
    /\ pub = [r \in Published |-> "idle"]
    /\ queue = <<>> /\ closed = FALSE
    /\ worker = "none" /\ item = <<>> /\ calls = <<>>
    /\ plugins = <<QueuePlugin>>
    /\ stop = "idle" /\ keeperOpen = TRUE
    /\ accepted = <<>>
    /\ heard = [k \in {"queue", "keeper"} |-> <<>>]
    /\ stored = {}

kindOf(p) == IF p = QueuePlugin THEN "queue" ELSE "keeper"

\* Start, by the service or by the first Publish.
Start ==
    /\ worker = "none"
    /\ worker' = "check"
    /\ UNCHANGED <<pub, queue, closed, item, calls, plugins, stop, keeperOpen,
                   accepted, heard, stored>>

(***************************************************************************)
(* Publish: the record is queued under the lock and the worker is woken    *)
(* after the unlock.  A closed manager drops it.                           *)
(***************************************************************************)
Publish(r) ==
    /\ pub[r] = "idle"
    /\ worker # "none"
    /\ \/ /\ ~closed
          /\ queue' = Append(queue, r) /\ accepted' = Append(accepted, r)
          /\ pub' = [pub EXCEPT ![r] = "queued"]
       \/ /\ closed
          /\ pub' = [pub EXCEPT ![r] = "dropped"]
          /\ UNCHANGED <<queue, accepted>>
    /\ UNCHANGED <<closed, worker, item, calls, plugins, stop, keeperOpen, heard, stored>>

\* Mutant of Signal: nobody is woken.
SignalNobody(r) ==
    /\ pub[r] = "queued"
    /\ pub' = [pub EXCEPT ![r] = "done"]
    /\ UNCHANGED <<queue, closed, worker, item, calls, plugins, stop, keeperOpen,
                   accepted, heard, stored>>

Signal(r) ==
    /\ pub[r] = "queued"
    /\ pub' = [pub EXCEPT ![r] = "done"]
    /\ worker' = IF worker = "asleep" THEN "check" ELSE worker
    /\ UNCHANGED <<queue, closed, item, calls, plugins, stop, keeperOpen,
                   accepted, heard, stored>>

(***************************************************************************)
(* run and dispatch.                                                       *)
(***************************************************************************)
\* Mutant of Take: the wait is not repeated when it returns with nothing queued.
TakeUnchecked ==
    /\ worker = "check"
    /\ \/ /\ queue = <<>> /\ ~closed
          /\ worker' = "asleep"
          /\ UNCHANGED <<queue, item>>
       \/ /\ queue = <<>> /\ closed
          /\ worker' = "taken"
          /\ UNCHANGED <<queue, item>>
       \/ /\ queue # <<>>
          /\ item' = <<Head(queue)>> /\ queue' = Tail(queue)
          /\ worker' = "taken"
    /\ UNCHANGED <<pub, closed, calls, plugins, stop, keeperOpen, accepted, heard, stored>>

\* Mutant of Take: the newest record is taken first.
TakeNewest ==
    /\ worker = "check"
    /\ \/ /\ queue = <<>>
          /\ worker' = IF closed THEN "exited" ELSE "asleep"
          /\ UNCHANGED <<queue, item>>
       \/ /\ queue # <<>>
          /\ item' = <<Last(queue)>> /\ queue' = Front(queue)
          /\ worker' = "taken"
    /\ UNCHANGED <<pub, closed, calls, plugins, stop, keeperOpen, accepted, heard, stored>>

Take ==
    /\ worker = "check"
    /\ \/ /\ queue = <<>>
          /\ worker' = IF closed THEN "exited" ELSE "asleep"
          /\ UNCHANGED <<queue, item>>
       \/ /\ queue # <<>>
          /\ item' = <<Head(queue)>> /\ queue' = Tail(queue)
          /\ worker' = "taken"
    /\ UNCHANGED <<pub, closed, calls, plugins, stop, keeperOpen, accepted, heard, stored>>

CopyPlugins ==
    /\ worker = "taken"
    /\ calls' = plugins
    /\ worker' = "dispatch"
    /\ UNCHANGED <<pub, queue, closed, item, plugins, stop, keeperOpen, accepted,
                   heard, stored>>

\* A call of HandleUsage.  The keeper writes the record to its inbox unless its
\* runtime is closed or the insert fails; a panic is recovered.
Invoke(done) ==
    /\ worker = "dispatch"
    /\ calls # <<>>
    /\ calls' = Tail(calls)
    /\ heard' = [heard EXCEPT ![kindOf(Head(calls))] = @ \o item]
    /\ stored' = IF done /\ Head(calls) \in Keepers /\ keeperOpen
                 THEN stored \cup {Head(item)} ELSE stored
    /\ UNCHANGED <<pub, queue, closed, worker, item, plugins, stop, keeperOpen, accepted>>

Dispatched ==
    /\ worker = "dispatch"
    /\ calls = <<>>
    /\ item' = <<>>
    /\ worker' = "check"
    /\ UNCHANGED <<pub, queue, closed, calls, plugins, stop, keeperOpen, accepted,
                   heard, stored>>

(***************************************************************************)
(* RegisterNamed: the first instance is appended, a later one takes the    *)
(* place of the one before.                                                *)
(***************************************************************************)
\* Mutant of RegisterNamed: the name is not looked up.
RegisterAppends(k) ==
    /\ k \notin ToSet(plugins)
    /\ plugins' = Append(plugins, k)
    /\ UNCHANGED <<pub, queue, closed, worker, item, calls, stop, keeperOpen, accepted,
                   heard, stored>>

RegisterNamed(k) ==
    /\ k \notin ToSet(plugins)
    /\ plugins' = IF \E i \in DOMAIN plugins : plugins[i] \in Keepers
                  THEN [i \in DOMAIN plugins |->
                          IF plugins[i] \in Keepers THEN k ELSE plugins[i]]
                  ELSE Append(plugins, k)
    /\ UNCHANGED <<pub, queue, closed, worker, item, calls, stop, keeperOpen, accepted,
                   heard, stored>>

(***************************************************************************)
(* The shutdown: Stop closes the manager and wakes the worker; when the    *)
(* service has returned, the keeper is closed.                             *)
(***************************************************************************)
Stop ==
    /\ stop = "idle"
    /\ closed' = TRUE
    /\ stop' = "closed"
    /\ UNCHANGED <<pub, queue, worker, item, calls, plugins, keeperOpen, accepted,
                   heard, stored>>

Broadcast ==
    /\ stop = "closed"
    /\ worker' = IF worker = "asleep" THEN "check" ELSE worker
    /\ stop' = "returned"
    /\ UNCHANGED <<pub, queue, closed, item, calls, plugins, keeperOpen, accepted,
                   heard, stored>>

CloseKeeper ==
    /\ stop = "returned"
    /\ keeperOpen
    /\ keeperOpen' = FALSE
    /\ UNCHANGED <<pub, queue, closed, worker, item, calls, plugins, stop, accepted,
                   heard, stored>>

Run == Take \/ CopyPlugins \/ (\E done \in BOOLEAN : Invoke(done)) \/ Dispatched

ManagerNext ==
    \/ Start
    \/ \E r \in Published : Publish(r) \/ Signal(r)
    \/ Run
    \/ \E k \in Keepers : RegisterNamed(k)
    \/ Stop \/ Broadcast \/ CloseKeeper

ManagerSpec == ManagerInit /\ [][ManagerNext]_ManagerVars

\* The worker runs, the plugins return, and who has queued a record signals it.
ManagerFairness ==
    /\ WF_ManagerVars(Run) /\ WF_ManagerVars(Broadcast)
    /\ \A r \in Published : WF_ManagerVars(Signal(r))

ManagerLiveSpec == ManagerSpec /\ ManagerFairness

(***************************************************************************)
(* Properties.                                                             *)
(***************************************************************************)
ManagerTypeOK ==
    /\ pub \in [Published -> {"idle", "queued", "done", "dropped"}]
    /\ ToSet(queue) \subseteq Published
    /\ worker \in {"none", "check", "asleep", "taken", "dispatch", "exited"}
    /\ ToSet(calls) \subseteq Plugins /\ ToSet(plugins) \subseteq Plugins
    /\ stop \in {"idle", "closed", "returned"}
    /\ Len(item) = IF worker \in {"taken", "dispatch"} THEN 1 ELSE 0

\* The queue plugin is handed every accepted record once, in the order in
\* which they were queued, until the worker has none left.
HeardInOrder == heard["queue"] \o
                  (IF QueuePlugin \in ToSet(calls) \/ worker = "taken" THEN item ELSE <<>>)
                  \o queue = accepted

\* Replacing the keeper's plugin, even in the middle of a dispatch, neither
\* skips a record nor hands one to two instances: once there is an instance
\* the keepers together hear every record from some point on.
KeepersHearOnce ==
    \E first \in 1..(Len(accepted) - Len(heard["keeper"]) + 1) :
        heard["keeper"] = SubSeq(accepted, first, first + Len(heard["keeper"]) - 1)

\* Every accepted record is handed to the queue plugin, also when the manager
\* is stopped meanwhile: no wake-up is lost.
RecordsDispatched ==
    \A r \in Published : pub[r] = "queued" ~> r \in ToSet(heard["queue"])

(***************************************************************************)
(* What plugins hear, in one invariant: besides the types, the queue       *)
(* plugin every accepted record in order, the keepers each record once.    *)
(***************************************************************************)
ManagerInv ==
    /\ ManagerTypeOK
    /\ HeardInOrder
    /\ KeepersHearOnce
=============================================================================
