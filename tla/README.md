# Verification of CLIProxyAPI-Keeper

TLA+ models of the concurrent core of CLIProxyAPI-Keeper, the TLC runs that
check them on small instances and the TLAPS proofs of the properties that matter
most. `PROJECT.json` holds the machine-readable inventory: components, runs,
mutants, the map from definitions to source lines, hazards and theorems.

## 1. The system

CLIProxyAPI-Keeper is a proxy for AI providers (`sdk/cliproxy`, `internal/`)
with an embedded usage keeper (`keeper/`). In cluster mode a control centre,
**Home**, hands out credentials and limits how many executions may use one
credential and model at a time. The table lists the parts that keep state.

| Part | State | Operations | Hard behaviour | Correct when |
|---|---|---|---|---|
| Execution registry (`sdk/cliproxy/executionregistry`) | state word, tokens, scopes, cumulative release sequences, sink, barriers | BeginDispatch, Install, Bind, End, SetReleaseSink, WaitPending, Drain, Close, ObserveBarrier, FreezeInFlight | an atomic word changed outside the mutex, closes shared by three callers, waits on a replaced channel | a sweep misses no resource; Drain and Close return only when their promise holds; no release is lost or numbered early |
| Release flusher (`internal/home/concurrency_release.go`) | latest and acknowledged sequence per group, open tickets, wake and force channels | MarkDirty, Run, flush, Flush, SetSender | sends without the lock, lost and late frames, backoff, replaced lifetimes | a ticket completes only when Home has recorded it, and eventually does |
| Home subscriber (`sdk/cliproxy/service_home.go`) | current client, registry, bundle, generation, config queue | start, stage, commit, publish, detach, settle, take over, restart, drain, flush, shut down | stale bundles, lost answers, deadlines, generations that replace each other | no granted slot is stranded by a takeover; a clean shutdown frees all; a replaced generation publishes and commits nothing |
| Dispatch of a request (`sdk/cliproxy/auth/conductor_home.go`) | token, scope, selection | RPOP, install, bind, abort | the answer races the detachment of the client | the token is always resolved |
| Usage manager (`sdk/cliproxy/usage`) | queue of records, plugins | publish, dispatch, register, stop | plugins replaced during a dispatch, stop against publish | plugins hear the accepted records in order, once |
| Local usage queue (`internal/redisqueue`) | records, subscribers and their channels | enqueue, pop, subscribe, unsubscribe, clear, forward to Home | two critical sections per enqueue, channels closed by three paths, pushes that fail after they arrived | a record is in one place; no stream has a gap |
| Keeper inbox (`keeper/internal/{poller,service,repository}`) | rows and their status and attempts, the single-flight flag | ingest, process, mark, clean up | crash between statements, statements that fail, poisoned rows in a batch | a message yields one event at most and reaches an end |
| Keeper aggregation (`keeper/internal/{poller,repository}`) | checkpoints, targets, generation of the identities, archive | commit, notify, round, page, identity pass, archive | events announced during a round, a failing rollup, the archive, a crash | every event is counted once by each rollup and identity, and none is forgotten |
| WebSocket relay (`internal/wsrelay`) | pending requests, their channels and locks | send, dispatch, deliver, cancel, clean up | a full channel with its lock held, channels closed by four paths | channels are closed once, nobody waits on a session that is over |
| Token refresh (`sdk/cliproxy/auth`) | credentials and their epochs and generations, heap, dirty set, jobs, persist watermark | reschedule, pop, mark pending, refresh, merge, register, update, remove, persist | answers of a provider against edits, the loop's reads against its writes | no credential is forgotten, no refresh token used twice where the code can help it, no edit undone |
| In-flight publisher, session selections (`sdk/cliproxy/auth/home_*.go`) | last snapshot; selections kept by a session | publish, retain, reuse, end | ownership passes between goroutines | a selection ends exactly once |
| Conductor and scheduler (`sdk/cliproxy/auth`) | credentials, cooldowns | pick, mark result | results applied late | a cooled credential is not picked |
| Model registry, watcher | counts, hashes | register, unregister; reload | counts against removals | candidates for later |

Translators, provider executors, plugin host, HTTP handlers and user interfaces
are stateless conversion or I/O and are not modelled.

How the modelled parts interact: a request takes a token from the registry, asks
Home for a credential through the client of the published bundle, installs a
scope, binds its cancellation to it and ends it. The ending scope numbers its
release and calls the registry's sink, which is the flusher's `MarkDirty`; the
flusher's `Run` goroutine, one per subscriber lifetime, sends the cumulative
sequence to Home. When the subscription fails, the subscriber detaches the
bundle, stops the flusher, fences the client, waits for the tokens and either
lets the next lifetime take the membership over (same registry, same flusher)
or drains the registry and starts with new ones.

A finished request publishes a usage record to the usage manager, which hands it to
the queue plugin (the local queue, from which a forwarder pushes it to Home or a
client pops it) and to the embedded keeper. The keeper stores the raw message in its
inbox, turns rows into events and announces these to the aggregation, which brings
its rollups and the totals of the identities up to date; the daily maintenance then
archives what all of them have counted. Credentials reach requests through the
conductor's map, which the refresh loop and the management handlers write.

## 2. The modules

`ExecutionRegistry` models `registry.go` and `observation.go`. A dispatch is
named by its token number; `pc[i]` says where its owner goroutine is.
`BeginDispatch`, `Install` and `Bind` test the state word under the mutex and act
on it, and `Drain` and `Close` swap that word *without* the mutex; so each of the
three is two steps (`BeginCheck`/`BeginReserve`, `InstallCheck`/`InstallCommit`,
`BindCheck`/`BindCommit`) with `mu` held in between. Every other critical section
is one step that needs `mu = 0`. `EndWithRelease` is five steps (deactivate,
start the close, number the release once the close is over, call the sink without
the lock, delete and signal); `Drain` and `Close` are a swap, a snapshot, one step
per scope of the sweep and the wait. `Registry.changed` is the set `asleep` of
calls that captured the current channel: `signalLocked` empties it. `told`
and `begunUnder` are history variables.

`ReleaseFlusher` models `concurrency_release.go`. `Run` is in its `select` or in
`flush`; `flush` copies the dirty groups in one step and then sends and
acknowledges them one by one. Durations are abstracted: a timer is `"due"` (reset
to 0) or `"armed"`, and an armed timer may fire at any time. The wake and force
channels hold one token each. Home is external: a send is recorded and
acknowledged, or fails, in which case the frame may still arrive later
(`LateFrame`). The branch of `flush` for a missing sender cannot be reached,
because `runHomeSubscriber` sets the sender before it starts `Run`.

`ReleaseChannel` is the abstract specification of a release sink: Home's record of
a group grows, and only to a marked sequence; a ticket is completed only when that
record covers it. `ReleaseFlusher` implements it (`ImplementsChannel`).

`HomeLifetime` extends `ExecutionRegistry` with the requests of
`conductor_home.go`, the client's fence and ambiguity flag and the supervisor loop
`runHomeSubscriber`. The flusher is replaced by its abstract specification: Home
may record, at any time, any sequence the sink was told; `ShutDown` uses what
`Flush` promises. The registry that replaces a drained one starts from nothing, so
the model ends there (`sup = "recovered"`), as it does when the subscriber
returns. Home is assumed to answer a grant with the group it accounted it to, as
well-formed JSON; the code treats an answer whose concurrency tuple is malformed as
ambiguous, and that is modelled.

`SelectionResources` models the resource that `Execute` binds to a scope: the
attempts' cancellations (`attemptCancels`) and the closers (`executionResources`)
of one `HomeDispatchSelection`. Add tests and registers under the lock and, when it
is too late, cancels or closes after the unlock; a release removes under the lock
and cancels after it; Close takes each list under its lock and runs it without. The
closers themselves are opaque, except `attemptCancels.Close`, which is always the
first of the list. Only the registry closes the selection, once per scope
(`startBoundResourceClose`), so there is one Close. `bound` and `ran` are history
variables.

`HomeGenerations` models what surrounds a lifetime: `startHomeSubscriber`, `Shutdown`
and the supervisor with its worker and publishers, one index per generation. A client
is the pair of its generation and lifetime. `homeLifecycleMu` and `homeCommitMu` are
variables; a commit is three steps (`CommitLock`, `CommitCheck`, `CommitStore`), and a
replacement four (`CallLock`, then cancel, wait, take away, drain). `homeConfigWorkQueue`
appends and wakes in two steps (`OnConfig`, `Wake`) and its channel holds one token.
Requests are left to `HomeLifetime`; drains and waits for them succeed or fail here.
Staging and finalization are repeated until Home answers (`HomeAnswers`).

`UsageManager` has one publisher per record, the dispatcher, the keepers that register
under one name, and the shutdown. `Publish` appends under the lock and `Signal`s after
it; the dispatcher tests and waits under it (`Take`, `asleep`). A dispatch is a copy of
the plugin list that is worked off plugin by plugin while `RegisterNamed` may swap an
entry of the list. `accepted` and `heard` are history variables.

`UsageQueue` models `redisqueue/queue.go` with everyone who calls it. `Enqueue` reads
`enabled`, publishes to the subscribers under the lock and appends under it again, a
step each; `publishToSubscribers`, `unsubscribe` and `clear` take a channel out of the
map and close it later (`closing`, `closes`). The forwarder of a lifetime pops a batch,
pushes it record by record and enqueues the rest again; a failed push may have arrived.
Whether Home is configured is fixed when the process starts (`home`), and decides who is
there: with Home the forwarders, while the RESP port refuses subscribers and popping
clients (`redis_queue_protocol.go:61`), the management routes are off and the queue stays
enabled; without Home these clients and no forwarder (`service_lifecycle.go:114`).
`delivered`, `lost`, `ambiguous`, `sent` and `got` are history variables.

`UsageInbox` models a row by what it is worth (`kind`: it decodes, does not, or needs a
lookup), its status and its attempts. `ProcessOnce`, by the runner or by a direct call, is
a step per database statement; each statement may fail, a transaction is one step, and
`Crash` ends the process between any two. `running` is the single-flight flag; `stamp`
is the cut-off a call has read, `age` what the cleanup compares. `stored` counts the
events of a row, `burst` the failures recorded without a sleep.

`UsageAggregation` models the runner's loop, its turns, the pages of its rollups (shared,
or one by one after a failure) and its passes over the identities, with the debounce
timer, the retry timer and the wake channel. Page, upsert and checkpoint are one
transaction, hence one step per rollup, that a stale checkpoint refuses. `Archive` is
the maintenance, with the test of `usageEventAggregationsCaughtUp`. `counts`,
`idCounts`, `announced` and `bump*` are history variables; `missed` is what was archived
before an identity appeared.

`RelaySession` models a session: the caller's goroutine of each request (`Store`,
`ArmCancel`, `SendCheck`, `Write`, the undo of a failed send, `Receive`), the
`AfterFunc` of its context, the read loop (`Read`, `Deliver`, `DeliverTerminal`) and the
cleanup, whose `Range` visits the map entry by entry and may or may not see one stored
meanwhile. A `deliver` that finds the channel full waits with the request's lock held
(`DeliverSelect`).

`TokenRefresh` models a credential by its epoch, generation, token, due time, next
refresh, error and one other field (`note`). The loop reads and writes under different
locks, so `rebuild`, `handleDueAuth` and `applyDirty` are a step to read and a step to
put. `resetTimer` arms the time that was left when the loop read its clock, before it handled
what was due and possibly waited for room in the jobs channel: the timer fires late by
what the round took. `refreshAuthForRequest` is a step up to the provider's call and one for
its outcome: a new token, the same, a failure, a 401, a cancelled request; in the last three
the provider may have exchanged the token and the answer be lost (`Unanswered`). The merge
is an operator. Editors look a credential up and write it back later, as the management
handlers do; announcing (reschedule and persist) is a step of its own after the unlock.
The api-call tool is an editor that exchanges an outdated token itself, without the lock
of `refreshAuthForRequest` (`resolveTokenForAuth`, `ExchangeSucceeds`, `ExchangeFails`); the
Antigravity executor, which exchanges an outdated token for a request and stores nothing,
does what `ExchangeFails` does. One token stands for access and refresh token. `owner`,
`spent`, `restored`, `loose` (exchanged without the lock, or without an answer), `noted` and
`markedAt` are history variables.

`MC*` modules give TLC the instances; `*Proofs` modules hold the theorems.
Definitions commented as mutants are deliberate faults, one per property at least: with the
fault in place of the definition it is named after, TLC reports the property
violated.

## 3. What is checked

| Run | Instance | Properties | Distinct states |
|---|---|---|---|
| `registry` | 2 calls, 1 dispatch, 1 group, 1 sink, 1 barrier | `RegistryInv`, `SweepMissesNothing`, `DrainedIsQuiescent`, `BarrierCoversPending`, `NoAdmissionAfterSnapshot`; `CallsReturn`, `BarrierPublished` | 234 000 |
| `flusher` | 1 group, 2 sequences, 2 lifetimes | `FlusherInv`, `DirtyIsPrompt`, `ImplementsChannel`; `TicketsComplete` | 111 000 |
| `lifetime` | 2 dispatches, 1 group, 2 lifetimes | `LifetimeInv`, `TakeoverKnowsGrants`, `CleanShutdownFreesAll`; `LifetimeReplaced` | 440 000 |
| `selection` | 3 attempts, 3 binders | `SelectionInv`; `AttemptsCancelled` | 102 000 |
| `generations` | 2 generations of 2 lifetimes, 2 configurations, a shutdown | `GenerationsInv`, `NoCommitAfterReplacement`, `FailedDrainEndsService`; `ShutdownReturns`, `ConfigsAreTaken` | 147 000 |
| `manager` | 3 records, 2 keepers, the shutdown | `ManagerInv`; `RecordsDispatched` | 76 000 |
| `queue` | 2 records; 3 forwarders, or 2 subscribers with room for 1 and a client | `QueueInv`, `Conserved`; `RecordsSettle` | 215 000 |
| `inbox` | 2 rows, 2 attempts, the runner and a call, a crash | `InboxInv`, `PacedRetries`; `RowsSettle` | 267 000 |
| `aggregation` | 2 events, 2 rollups, 1 identity, pages of 1, a crash | `AggregationInv`, `PageHasEvents`, `ScanCovers`, `SleepsOnlyWhenDone` | 1 660 000 |
| `relay` | a stream of up to 3 chunks, a plain request, channels of 1 | `RelayInv`; `NobodyWaits` | 372 000 |
| `refresh` | 1 credential, a worker, a request, 2 editors, 2 instants | `RefreshInv`, `NotForgotten`, `SpentOnce`, `Paced` | 3 800 000 |
| `relay_frames` | one stream, channel of 2, 3 chunks | `NoSilentFrameLoss`, **violated** | |

Liveness properties follow the semicolon. `RegistryInv`, `FlusherInv`, `LifetimeInv`,
`SelectionInv`, `GenerationsInv`, `ManagerInv`, `QueueInv`, `InboxInv`, `AggregationInv`,
`RelayInv` and `RefreshInv` are conjunctions, each of its module's type invariant and
safety properties defined and explained one by one above it; `NobodyWaits` is two
leads-to properties. All properties hold except that of
`relay_frames`: `deliverTerminal` makes room for the end of a stream by taking the oldest
message out of the full channel, so that a caller who lags behind receives a complete
stream with a chunk missing, which the repository's own test
`TestSession_Dispatch_NoSilentFrameLoss` rules out. With the 64 messages of
`pendingChannelBuffer` it needs a caller that far behind.

What the runs showed besides:
- `Manager.Remove` unschedules after it has left its lock. A credential registered under
  the same name in between loses its heap entry, and is not refreshed by the loop until
  something reschedules it. `NotForgotten` names this case (`orphaned`); that it is the
  only one is proved.
- The loop's timer fires late by the time for which the last round was held up, by a full
  jobs channel for instance, since the `now` of the round (`auto_refresh_loop.go:144`) is
  also what the wait is computed from (`:165`). `NotForgotten` states that bound.
- A token whose exchange was not answered is exchanged again, since the code cannot know;
  so is one that the api-call tool or an Antigravity request exchanges outside the lock
  while a refresh is under way. `SpentOnce` excepts both (`loose`). The tool also writes its
  whole copy back: it can undo the note of an edit made meanwhile, and replace a token
  that a refresh has brought meanwhile, by its own new one.
- Without Home a record queued after `Enqueue` found no subscriber stays in the queue if
  only subscribers come afterwards: it waits for a client that pops, or expires.
  `RecordsSettle` says that this is the only way to be left over.
- `Update` of a field writes back a whole credential that was read earlier, so that a
  token refreshed meanwhile is replaced by its predecessor. `SpentOnce` excepts the tokens
  this concerns, too (`restored`), `Paced` the credentials that have one: `MergeRefreshedAuth`
  takes the next refresh time from an answer whose copy had one, so that an answer to the
  newer token, unchanged, clears the pause of the older token just marked. With two
  requests and five calls and edits the loop then marks the credential twice in an
  instant, the second time even with a token that was not written back.
- `usage.Manager.Stop` returns while the dispatcher still has records, although its
  comment speaks of draining: `RecordsDispatched` shows that the queue plugin hears them
  all the same; a keeper that is closed next does not.
- A config worker whose `applyConfigRuntime` fails (the pprof server it replaces does not
  stop in time) ends while its subscription goes on; `ConfigsAreTaken` excepts what is
  queued afterwards.

**Bounds.** Every run uses the smallest instance on which the actors its properties are
about meet. The races of the registry are between one dispatch and one call, or two calls:
`registry` has those, two dispatches meet in `lifetime`, and the proofs below, which cover
all safety properties of `registry`, hold for any number. `BarrierPublished`, which is not
proved, is thus checked for one barrier and one dispatch before or after it; a stream of
dispatches under ever newer barriers is beyond the run. A sequence raised while an
older one is in flight needs two, a takeover two lifetimes, a replacement two generations.
`queue` allows one each of what is rare (`MaxRare`: a refresh, disabling the queue, a push
that arrived and failed); three forwarders, so that one is replaced and its successor is,
too. In `relay` a stream is longer than its channel by two, one for
the blocked `deliver` and one for the displaced chunk. `inbox` has a batch of two rows, one
that fails before one that does not, and attempts for a retry; `aggregation` a page
smaller than a round, a rollup that lags behind another and an archive that may take the
first event. `refresh` has a single credential, since nothing but the heap's order relates
two; two editors, for an edit that overlaps a removal or another edit, and two instants, so
that something is due again after its backoff. Its `MaxEvents` bounds refreshes, uses of the
api-call tool, edits and failed saves together; `MaxBusy` lets a request or an editor start
only while at most one other request, editor or worker is under way, whereas workers always
may, so that the run has every pair of them, and a worker beside two others if it
starts last; the proofs are for any number. `Skew`, the margin of that tool, is 0, with
which a token of the run becomes outdated; and `Symmetry` exchanges the editors (the run has
no liveness property).
Deadlock is checked by `registry`, `flusher` and `inbox`, and switched off where the
system really stops: a service that was shut down, requests that have ended, bounded
inputs that are used up.

**Fairness.** *Registry:* a goroutine that holds the mutex releases it; the owner of a token
ends or installs it, since every path of `pickHomeDispatchSelection` does; a bound `closeFn`
returns, and the owner of a cancelled scope, or of one whose Bind was refused, ends it,
since the resource is the cancellation of the request; a call that can go on does. An
undisturbed execution need not end, and no context has to expire. *Flusher:* `Run` keeps
taking rounds (strong fairness of the timer, which competes in a `select`), a new lifetime
follows a cancelled one, and Home does not refuse a group for ever. *Lifetime:* in addition
a round trip to Home is answered or fails, because closing the client closes its
connections; only the final `Flush` may rely on its deadline. *Selection:* a call that has
begun runs to its end, the bound closers included; nobody has to release an attempt or close
the selection. *Generations:* supervisors, workers and callers that can go on do, since
drains and waits have timeouts; Home need not answer, except under the premise of
`ConfigsAreTaken`. *Manager:* the dispatcher runs and its plugins return. *Queue:*
goroutines go on, and with Home its heartbeat and pushes succeed again and again (strong
fairness over all forwarders, not of each); without Home nobody has to pop or to subscribe.
*Inbox:* a call goes on, the runner's ticker fires, and the database does not refuse a kind
of statement for ever; the condition is on the statement and not on a row, so a row cannot
rely on its own luck. *Relay:* goroutines go on, `select`s with something ready are taken;
the provider need not send anything and no context ends. *Aggregation* and *refresh* are
checked for safety only: `SleepsOnlyWhenDone` and `NotForgotten` are the state invariants
behind their progress, a lost wake-up being the only way these loops stop.

## 4. What is proved

All proofs hold for every value of the constants allowed by the `ASSUME`s: natural
bounds, `Unaccounted` not a group, `NoSink` not a sink, `CancelAttempts` not a
binder, a queue plugin that is not a keeper, records that are told from the
forwarders and from the two messages a subscriber gets besides them, channels with
room for one message at least. Each component has one inductive invariant (the
queue two), a lemma per part of it that says which steps keep it and why, and the
theorems that follow. `HomeExecutionProofs` holds the proofs of the registry and of the
lifetimes around it, `UsageProofs` those of the manager, the queue and the aggregation,
three specifications side by side; that is why the definitions of `UsageManager` and
`UsageQueue` carry the component in their names (`ManagerSpec`, `QueueSpec`, ...). Frame lemmas
(`OwnerFrame`, `CallFrame`, `SupFrame`, ...) say which actions move which variables
and keep each part's proof to the actions that can disturb it.

| Property of a run | Theorem |
|---|---|
| `RegistryInv`, `SweepMissesNothing`, `DrainedIsQuiescent`, `BarrierCoversPending`, `NoAdmissionAfterSnapshot` | `RegistryCorrect`, `SweepCorrect`, `DrainCorrect`, `BarrierCorrect`, `NoLateAdmission` |
| `FlusherInv`, `DirtyIsPrompt`, `ImplementsChannel` | `FlusherCorrect`, `PromptCorrect`, `FlusherImplementsChannel` |
| `SelectionInv` | `SelectionCorrect` |
| `LifetimeInv`, `TakeoverKnowsGrants`, `CleanShutdownFreesAll` | `LifetimeCorrect`, `TakeoverCorrect`, `ShutdownCorrect` |
| `GenerationsInv`, `NoCommitAfterReplacement`, `FailedDrainEndsService` | `GenerationsCorrect`, `ReplacedCommitsNothing`, `NoClientAfterFailure` |
| `ManagerInv` | `ManagerCorrect` |
| `QueueInv`, `Conserved` | `QueueCorrect`, `RecordsConserved` |
| `InboxInv`, `PacedRetries` | `InboxCorrect`, `RetriesPaced` |
| `AggregationInv`, `PageHasEvents`, `ScanCovers`, `SleepsOnlyWhenDone` | `AggregationCorrect`, `PagesFilled`, `ScansCover`, `SleepCorrect` |
| `RelayInv` | `RelayCorrect` |
| `RefreshInv`, `NotForgotten`, `SpentOnce`, `Paced` | `RefreshCorrect`, `NeverForgotten`, `NeverSpentTwice`, `RefreshesPaced` |

*Registry* (`HomeExecutionProofs`, first part). `InvariantHolds` proves
`Spec => []IndInv`; the theorems `TypeCorrect`, `SweepCorrect`, `DrainCorrect`,
`CloseCorrect`, `ReleaseOrder`, `SequenceCorrect`, `SinkCorrect`, `BarrierCorrect`
and the action property `NoLateAdmission` follow from it, and `RegistryCorrect` sums
them up. `IndInv` strengthens the
properties by
- `OwnersInv`: the mutex, the token and scope sets and the owners' positions agree
  (who is between check and commit holds the mutex; a token number is never reused);
- `CloseInv`: a scope has a resource or a close, never both, and a released one has
  no close running;
- `LifeInv`: a call past its swap sees a state word that is no longer accepting;
- `SweepInv`: between the snapshot and the end of a sweep, every resource not yet
  being closed belongs to a scope in `todo`. This is the heart of the argument: the
  snapshot needs the mutex, so an Install or Bind that read "accepting" has
  committed before it, and one that comes later reads the swapped word;
- `BarrierInv`: tokens up to `barrierSeq` are exactly those begun under an older
  barrier.

*Flusher* (`ReleaseFlusherProofs`). `TypeCorrect`, `TicketsCorrect`, `FlushCorrect`,
`PromptCorrect` and the refinement `FlusherImplementsChannel`, with `FlusherCorrect` for
the invariants together. Their invariant adds that what is in
the batch or in flight was marked (`FrameInv`), that what is acknowledged was
recorded by Home and every ticket is open or acknowledged (`TicketInv`), and that
latest sequences only grow after a Flush began (`FlushInv`). `DirtyIsPrompt` is
inductive together with `RoundInv`: a round that has not failed still has every dirty
group before it, or was overtaken by a `MarkDirty` whose token starts the next one.

*Selection* (`SelectionResourcesProofs`). `TypeCorrect`, `AttemptsEnd` and
`ReverseOrder`, summed up in `SelectionCorrect`, for any number of attempts and
binders. The invariant says that
`attemptCancels.Close` stays at the head of the list until it has run (`ListInv`),
so Close cannot end without it; that an attempt in progress is listed, about to be
cancelled or cancelled (`AttemptInv`); and that what ran and what is left make up
the list read backwards (`OrderInv`).

*Lifetime* (`HomeExecutionProofs`, second part, on top of the registry's).
`LifetimeImplementsRegistry` shows that every step of the composition is a step of the
registry or leaves it alone, so the registry's invariant holds in it, too; the invariant
proved is `IndInv /\ LifetimeInd`. `LifetimeInd` relates what the registry does not know
to what it does:
- `ProgressInv`: where a request stands with Home (`rpc`) fits where its dispatch stands
  in the registry (`pc`), and a request on the wire belongs to a dispatch not resolved;
- `GrantInv`: Home granted a request one group at most, and an installed scope has the
  group that was granted;
- `FenceInv`: once `WaitPending` has returned for a lifetime whose client is fenced, none
  of its tokens has been or can still be sent; so all requests of a lifetime that was taken
  over are settled (never sent, installed, or given nothing that Home counts);
- `ToldInv` and `RecordInv`: what the sink was told, and hence what Home recorded, does not
  exceed the sequence the registry has reached.

From these `TakeoverCorrect`, `NoUnderCount`, `RecoveryCorrect` and `ShutdownCorrect`
follow with `SequenceCountsReleases` and `DrainedIsQuiescent` of the registry.

*Generations* (`HomeGenerationsProofs`). `GenerationsInd` says who holds
`homeLifecycleMu` and that its holder passes its wait only when the supervisor it found is
through (`CallInv`); that only the last supervisor is not through, and that its worker and
publisher end before it leaves its lifetime (`SupInv`); that what is published is the
client of that lifetime, and that a bundle in the core manager is also in the service or in
the hands of the detaching supervisor (`PubInv`); and that a worker about to store holds the
commit lock and is of a generation nobody has cancelled (`CommitInv`). `OneAtATime` follows
because whatever runs belongs to `supervisor`.

*Manager* (`UsageProofs`, first part). What a kind of plugin has heard, what it is due of
the record under way and what is queued are one stream (`heardStream`). `MgrInd` says that
the queue plugin's stream is what was accepted, and the keepers' an end of it
(`MgrStreamInv`); that the plugin list is the queue plugin's alone or followed by one keeper,
and the calls that are left are an end of such a list (`CallsInv`); and that a keeper that is
not registered has heard nothing and is not about to. Only a copy of a list without a keeper
(`CopyStream`) takes a record from the keepers' stream, which is possible before the first
registration only; replacing a keeper changes no list's length, so a dispatch under way
neither skips nor repeats.

*Queue* (`UsageProofs`, second part), two invariants. `RecordsConserved`: the positions of a
record are counted over the queue, every enqueuer's list and every forwarder's batch;
together with what was delivered and lost they are one, plus one for each ambiguous push
(`CountInv`). Counts of sequences that are cut, appended and concatenated come from the
cardinality of the sets of positions (`OccursConcat`, `OccursSplit`, `OccursThree`), those
over a family of lists from a lemma on the one list that changes (`PlacesUpdate`); so each
of the two sections of `Enqueue`, a pop that expires and takes, a push that fails halfway
and the requeue move a record from one place to one other. That a record is not the name
of a forwarder is the assumption that keeps the lists apart.
`QueueCorrect`: what a subscriber has received and has buffered is its stream since it
subscribed, all of it while it is registered (`current`) and a beginning of it afterwards
(`behind`); it is in the map, or on its way out of it, or closed, once (`SubscriberInv`).
A slow one is removed in the step that would have left a gap.

*Relay* (`RelaySessionProofs`). `RelayInd` says of each request
- `ChannelInv`: the lock is held exactly by the read loop in its `select` for this request,
  on a channel that is neither closed nor has its last message; a closed one was closed once;
- `RequestInv`: a request that is stored and no longer in the map is closed, or someone has
  taken it from there and has yet to close it (its `AfterFunc`, the Range, a failed send or
  the read loop), and only one stored after the session was closed can survive the Range,
  whose send then finds the session closed and undoes it;
- `OrderInv`: the chunks received and buffered are in order and none is newer than the last
  that was due; while nothing has ended the request they are all there, and the one in the
  hands of the read loop is the next.

A message that is forced into a full channel keeps the order and loses the rest
(`Forced`, `DropOrdered`), which is what `relay_frames` shows the caller of.

*Inbox* (`UsageInboxProofs`). `processRunning` is set while a call is under way and no two
calls are (`OneCall`); a row that a call holds has no event yet and was touched by nobody
but the cleanup since it was listed (`HeldUnstored`), so the transaction that stores it
is the first to do so; a row whose failure the runner has recorded is in none of its lists,
and is beyond another attempt or in a call that ends in the sleep (`BurstInv`).

*Aggregation* (`UsageProofs`, third part). The parts of `AggregationInd`:
- while a turn works on a page, the checkpoints it has still to move are those it read
  (`SnapInv`), and the page holds the next events after them without a gap, none of which
  the archive has taken (`PageInv`); hence `CountedOnce` and `IdentityCountedOnce`;
- a round that counts as reached has passed its target with every rollup (`ReachedInv`), and
  what was announced while the runner started is not below what it read (`StartInv`);
- an announced event lies within the round or before the next (`AnnouncedIsTargeted`);
- `ScanInv`: a pass over the identities of the last generation has `covered` those before
  its cursor (`CoveredTo`), which nothing undoes but a further generation;
- `WaitInv`: a runner that blocks without a token has no round and no pass to do, and a
  timer for what is pending.

The pages are sets of event numbers; `LeastNumber`, `MaxOfBounded` and `FirstPage` prove
from the well-foundedness of the naturals that such a set has a least member, that `Max`
is one and that the page it cuts off is a prefix.

*Token refresh* (`TokenRefreshProofs`). `RefreshInd` rests on what a step may do to a
credential: it leaves it alone (`Stays`), touches it within its registration and token
(`Retouched`), puts a new or edited version on its way to the store (`Renewed`), or removes
it (`Removed`); `AuthsWritten` proves that these are all. The parts:
- `OwnInv`: the manager's credentials and the copies that callers and editors hold carry
  tokens issued to their registration, and a caller's registration is compared before its
  answer is merged;
- `MarkInv` and `SaveInv`: neither the watermark nor anything to be saved is ahead of the
  manager; the store has the current token and note and whatever is still under way is
  current or older than the watermark, or a current save is under way that none of the
  others overtakes;
- `SpentInv`: no token in use was exchanged, unless it is spared (`Spared`: written back, or
  exchanged without the lock or an answer), and one caller at a time works on a credential;
  only a refresh that succeeds adds to the tokens exchanged and not spared (`SpentOnlyBy`);
- `LoopInv`, `KeptInv` and `PutInv`: the loop is awake while something is dirty, and each
  credential is scheduled in time (`Scheduled`) or someone will reschedule it (`Cared`),
  also when the loop is about to put an outdated time into the heap; in its `select` the
  timer is set for each heap entry, by `SelectMoves` late by what the round took at most.

`PaceInd`, inductive on top of it, is about credentials without a token written back: a
copy is due no later than the credential (`OrderInv`), so an answer that does not pause a
marked credential finds it due later than its mark (`RestInv`), and the loop, whose clock
has reached every mark (`MarkedInv`), has taken what it works off out of its heap
(`PoppedInv`) and finds nothing there that was marked at this instant (`RoundInv`). That
the clock starts at 1 is why `MaxTime` is not 0.

*Only model-checked.* The liveness properties (`CallsReturn`, `BarrierPublished`,
`TicketsComplete`, `LifetimeReplaced`, `AttemptsCancelled`, `ShutdownReturns`,
`ConfigsAreTaken`, `RowsSettle`, `RecordsDispatched`, `RecordsSettle`, `NobodyWaits`), since
the prover has no support for fairness and ENABLED. Every other property of a passing run is
a theorem. What recursive definitions compute cannot be proved either, for want of
induction; so counts are cardinalities of sets of positions, and `InOrder` compares
positions instead of filtering the stream.
None of the modules uses a RECURSIVE operator.

## 5. Plan

1. Session selections: retained selections, their reuse and their end; the in-flight
   publisher around `FreezeInFlight`.
2. Cooldowns: results applied late to credentials and models, and the scheduler that
   picks among those available; `MergeRefreshedAuth` with cooldowns and quotas.
3. The relay manager's table of sessions; `RunOnce` and the service without notifier of
   the aggregation; `StopAutoRefresh`.

## 6. Not modelled

Durations (only their order matters to what is stated; `TokenRefresh` alone has a clock);
the Redis protocol, certificates and heartbeats of the Home client; the contents of
requests, credentials and configuration; everything `PROJECT.json` lists as
`not_modelled`. Within modelled components: fetching the configuration before subscribing
(`RunConfigSubscriberLifetime`), overlay staging and plugin finalization beyond success or
repetition; the relay's `Manager`; `RunOnce` and the aggregation without a notifier;
`StopAutoRefresh`, `RefreshEvaluator`, preferred intervals and providers without executor
in the refresh loop, the retries within one call of a provider (`RefreshTokensWithRetry`),
what `PrepareRequestAuth` stores before a request (its exchange, for Antigravity credentials
without a project, is one of the exchanges without the lock), and the merge of cooldowns, quotas and the
disabled flag.
