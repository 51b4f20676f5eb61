---------------------------- MODULE HomeLifetime ----------------------------
(***************************************************************************)
(* The execution registry inside the Home subscriber                       *)
(* (sdk/cliproxy/service_home.go, runHomeSubscriber) and the requests that *)
(* dispatch through it (sdk/cliproxy/auth/conductor_home.go).              *)
(*                                                                         *)
(* A request reads the dispatch bundle (client, registry), reserves a      *)
(* token, asks Home for a credential (RPOP) and installs a scope for what  *)
(* Home granted.  Home counts the accounted grants of a group and          *)
(* subtracts the cumulative releases it records.  When the subscription    *)
(* fails the supervisor detaches and fences the client, waits until every  *)
(* token is resolved and then either lets the next lifetime take the       *)
(* membership over, registry and counts included, or, when an answer was   *)
(* lost, drains everything and starts anew.  The flusher between the       *)
(* registry and Home is the ReleaseChannel it implements: Home may record  *)
(* any sequence the sink was told, at any time.                            *)
(***************************************************************************)
EXTENDS ExecutionRegistry

CONSTANTS
    MaxLifetime     \* bound: subscriber lifetimes on one registry

ASSUME MaxLifetimeAssumption == MaxLifetime \in Nat \ {0}

\* The supervisor's calls: WaitPending at the end of a lifetime, its own Drain
\* and the deferred one.
DrainCall == 0
DeferredDrain == -1
ASSUME CallersAssumption == Callers = DeferredDrain..(MaxLifetime - 1)

Lifetimes == 1..MaxLifetime

VARIABLES
    sup,            \* where runHomeSubscriber is
    lifetime,       \* the current client
    bundle,         \* the published dispatch bundle's client, 0 if none
    via,            \* the client a request read from the bundle, 0 if none yet
    rpc,            \* where the RPOP of each request is
    fenced,         \* Client.dispatchFenced
    ambiguous,      \* Client.ambiguousDispatch
    grants,         \* external, Home: the (dispatch, group) pairs it granted
    recorded        \* external, Home: the cumulative releases it recorded

requestVars == <<via, rpc>>
clientVars == <<fenced, ambiguous>>
supVars == <<sup, lifetime, bundle>>
homeVars == <<grants, recorded>>
lifetimeVars == <<sup, lifetime, bundle, via, rpc, fenced, ambiguous, grants, recorded>>
allVars == <<vars, lifetimeVars>>

LifetimeInit ==
    /\ Init
    /\ sup = "new" /\ lifetime = 1 /\ bundle = 0
    /\ via = [i \in Ids |-> 0]
    /\ rpc = [i \in Ids |-> "idle"]
    /\ fenced = [l \in Lifetimes |-> FALSE]
    /\ ambiguous = [l \in Lifetimes |-> FALSE]
    /\ grants = {}
    /\ recorded = [g \in Groups |-> 0]

(***************************************************************************)
(* A request (pickHomeDispatchSelection): bundle, token, RPOP, install.    *)
(***************************************************************************)
ReadBundle(i) ==
    /\ via[i] = 0 /\ bundle # 0
    /\ via' = [via EXCEPT ![i] = bundle]
    /\ UNCHANGED <<vars, rpc, clientVars, supVars, homeVars>>

Begin(i) ==
    /\ via[i] # 0
    /\ BeginCheck(i) \/ BeginReserve(i)
    /\ UNCHANGED lifetimeVars

\* rPopAuth fails before anything is sent (always, once the client is fenced),
\* or takes its last look at the fence and puts the request on the wire.
IssueRPop(i) ==
    /\ pc[i] = "pending" /\ rpc[i] = "idle"
    /\ \/ rpc' = [rpc EXCEPT ![i] = "failed"]
       \/ ~fenced[via[i]] /\ rpc' = [rpc EXCEPT ![i] = "issued"]
    /\ UNCHANGED <<vars, via, clientVars, supVars, homeVars>>

\* Home: grants, or refuses, also a request whose sender has given up on it.
HomeGrants(i, g) ==
    /\ rpc[i] \in {"issued", "lost"}
    /\ grants' = grants \cup {<<i, g>>}
    /\ rpc' = [rpc EXCEPT ![i] = IF @ = "issued" THEN "granted" ELSE "ambiguous"]
    /\ UNCHANGED <<vars, via, clientVars, supVars, recorded>>

RPopReplied(i) ==
    /\ \/ rpc[i] = "granted" /\ rpc' = [rpc EXCEPT ![i] = "replied"]
       \/ rpc[i] = "issued" /\ rpc' = [rpc EXCEPT ![i] = "failed"]
    /\ UNCHANGED <<vars, via, clientVars, supVars, homeVars>>

\* AbortAmbiguousDispatch: the flag and the fence, before the token is ended.
abortAmbiguousDispatch(i) ==
    /\ ambiguous' = [ambiguous EXCEPT ![via[i]] = TRUE]
    /\ fenced' = [fenced EXCEPT ![via[i]] = TRUE]

\* No answer, or a malformed one.
RPopAmbiguous(i) ==
    /\ pc[i] = "pending"
    /\ \/ rpc[i] = "issued" /\ rpc' = [rpc EXCEPT ![i] = "lost"]
       \/ rpc[i] \in {"granted", "replied"} /\ rpc' = [rpc EXCEPT ![i] = "ambiguous"]
    /\ abortAmbiguousDispatch(i)
    /\ UNCHANGED <<vars, via, supVars, homeVars>>

\* An accounted answer is found inconsistent after its scope was installed.
AbortInstalled(i) ==
    /\ rpc[i] = "replied" /\ pc[i] = "active" /\ group[i] # Unaccounted
    /\ ~closeFn[i] /\ closeDone[i] = "nil"
    /\ abortAmbiguousDispatch(i)
    /\ rpc' = [rpc EXCEPT ![i] = "ambiguous"]
    /\ UNCHANGED <<vars, via, supVars, homeVars>>

\* Mutant of EndToken: the token of a lost answer is forgotten.
EndTokenUnlessLost(i) ==
    /\ rpc[i] \in {"idle", "failed", "ambiguous"}
    /\ PendingEnd(i)
    /\ UNCHANGED lifetimeVars

\* No credential, or one that Home does not account and that is not usable.
EndToken(i) ==
    /\ \/ rpc[i] \in {"idle", "failed", "lost", "ambiguous"}
       \/ rpc[i] = "replied" /\ <<i, Unaccounted>> \in grants
    /\ PendingEnd(i)
    /\ UNCHANGED lifetimeVars

\* Mutant of InstallGrant: every grant is installed as an accounted one.
InstallAccounted(i) ==
    /\ rpc[i] = "replied"
    /\ InstallCheck(i) \/ \E g \in Groups : InstallCommit(i, g)
    /\ UNCHANGED lifetimeVars

InstallGrant(i) ==
    /\ rpc[i] = "replied"
    /\ \/ InstallCheck(i)
       \/ \E g \in Groups \cup {Unaccounted} : <<i, g>> \in grants /\ InstallCommit(i, g)
    /\ UNCHANGED lifetimeVars

\* A refused Install consumes the token first; the abort follows.
InstallRejected(i) ==
    /\ rpc[i] = "replied"
    /\ InstallRefused(i)
    /\ rpc' = [rpc EXCEPT ![i] = "rejected"]
    /\ UNCHANGED <<via, clientVars, supVars, homeVars>>

AbortRejected(i) ==
    /\ rpc[i] = "rejected"
    /\ abortAmbiguousDispatch(i)
    /\ rpc' = [rpc EXCEPT ![i] = "ambiguous"]
    /\ UNCHANGED <<vars, via, supVars, homeVars>>

\* newHomeDispatchSelection binds, unless the answer was found inconsistent; a
\* scope whose Bind was refused is only ended.
Execute(i) ==
    /\ \/ rpc[i] = "replied" /\ BindCheck(i)
       \/ BindCommit(i) \/ ResourceClosed(i)
       \/ EndDeactivate(i) \/ EndStartClose(i) \/ EndMark(i) \/ EndDeliver(i)
       \/ EndDelete(i)
    /\ UNCHANGED lifetimeVars

\* Home records a release the sink was told of (ReleaseChannel's Record).
HomeRecords(g, n) ==
    /\ \E s \in Sinks : <<s, g, n>> \in told
    /\ n > recorded[g]
    /\ recorded' = [recorded EXCEPT ![g] = n]
    /\ UNCHANGED <<vars, requestVars, clientVars, supVars, grants>>

(***************************************************************************)
(* The supervisor.                                                         *)
(***************************************************************************)
Goto(l) == sup' = l

\* registry.SetReleaseSink(releaseFlusher.MarkDirty) before the first lifetime.
InstallSink(s) ==
    /\ sup = "new" /\ SetReleaseSink(s) /\ Goto("serving")
    /\ UNCHANGED <<lifetime, bundle, requestVars, clientVars, homeVars>>

\* The config worker publishes the bundle once the first config is applied.
Publish ==
    /\ sup = "serving" /\ bundle = 0
    /\ bundle' = lifetime
    /\ UNCHANGED <<vars, sup, lifetime, requestVars, clientVars, homeVars>>

\* A detached bundle is no longer found; a request that read it keeps its client.
detachHomeSubscriberLifetime == bundle' = 0

\* The subscription failed (retry), or the service is shutting down: detach.
LifetimeEnds ==
    /\ sup = "serving"
    /\ detachHomeSubscriberLifetime
    /\ \/ lifetime < MaxLifetime /\ Goto("closing")
       \/ Goto("draining")
    /\ UNCHANGED <<vars, lifetime, requestVars, clientVars, homeVars>>

\* Mutant of CloseClient: the client is not fenced before the wait.
CloseClientUnfenced ==
    /\ sup = "closing"
    /\ Goto("settling")
    /\ UNCHANGED <<vars, lifetime, bundle, requestVars, clientVars, homeVars>>

CloseClient ==
    /\ sup = "closing"
    /\ fenced' = [fenced EXCEPT ![lifetime] = TRUE]
    /\ Goto("settling")
    /\ UNCHANGED <<vars, lifetime, bundle, requestVars, ambiguous, homeVars>>

SettleCall ==
    /\ sup = "settling"
    /\ \/ WaitPendingStart(lifetime) \/ WaitPendingCheck(lifetime)
       \/ caller[lifetime] = "pending.parked" /\ (Wake(lifetime) \/ Timeout(lifetime))
    /\ UNCHANGED lifetimeVars

\* What follows the wait: take the membership over, or drain because an answer
\* was lost or Home cannot hand the membership over, or return.
TakeOver ==
    /\ sup = "settling"
    /\ caller[lifetime] = "pending.ok" /\ ~ambiguous[lifetime]
    /\ lifetime' = lifetime + 1
    /\ Goto("serving")
    /\ UNCHANGED <<vars, bundle, requestVars, clientVars, homeVars>>

StartAnew ==
    /\ sup = "settling"
    /\ caller[lifetime] = "pending.ok"
    /\ SetReleaseSink(NoSink)
    /\ Goto("unsafe")
    /\ UNCHANGED <<lifetime, bundle, requestVars, clientVars, homeVars>>

\* A wait timed out, or the service stopped before the next lifetime began.
GiveUp ==
    /\ \/ /\ sup = "settling"
          /\ \/ caller[lifetime] = "pending.timeout"
             \/ caller[lifetime] = "pending.ok" /\ ~ambiguous[lifetime]
       \/ sup \in {"unsafe", "draining"} /\ caller[DrainCall] = "drain.timeout"
       \/ sup = "flushing"
    /\ SetReleaseSink(NoSink)
    /\ fenced' = [fenced EXCEPT ![lifetime] = TRUE]
    /\ Goto("deferred")
    /\ UNCHANGED <<lifetime, bundle, requestVars, ambiguous, homeVars>>

DrainBy(c) ==
    /\ \/ DrainSwap(c) \/ DrainSnapshot(c) \/ (\E i \in Ids : DrainSweep(c, i))
       \/ DrainSwept(c) \/ DrainCheck(c)
       \/ caller[c] = "drain.parked" /\ (Wake(c) \/ Timeout(c))
    /\ UNCHANGED lifetimeVars

SupervisorDrains ==
    \/ sup \in {"unsafe", "draining"} /\ DrainBy(DrainCall)
    \/ sup \in {"deferred", "done"} /\ DrainBy(DeferredDrain)

\* Mutant of Recovered: a Drain that timed out is good enough.
RecoveredAnyway ==
    /\ sup = "unsafe" /\ caller[DrainCall] \in {"drain.ok", "drain.timeout"}
    /\ Goto("recovered")
    /\ UNCHANGED <<vars, lifetime, bundle, requestVars, clientVars, homeVars>>

\* The new registry and the new membership start from nothing.
Recovered ==
    /\ sup = "unsafe" /\ caller[DrainCall] = "drain.ok"
    /\ Goto("recovered")
    /\ UNCHANGED <<vars, lifetime, bundle, requestVars, clientVars, homeVars>>

\* Mutant of FlushReleases: a Drain that timed out is good enough.
FlushReleasesAnyway ==
    /\ sup = "draining" /\ caller[DrainCall] \in {"drain.ok", "drain.timeout"}
    /\ Goto("flushing")
    /\ UNCHANGED <<vars, lifetime, bundle, requestVars, clientVars, homeVars>>

FlushReleases ==
    /\ sup = "draining" /\ caller[DrainCall] = "drain.ok"
    /\ Goto("flushing")
    /\ UNCHANGED <<vars, lifetime, bundle, requestVars, clientVars, homeVars>>

\* Flush returns nil: every sequence the sink was told has been acknowledged
\* (ReleaseFlusher's FlushCovers).
ShutDown ==
    /\ sup = "flushing"
    /\ \A s \in Sinks, g \in Groups, n \in Ids : <<s, g, n>> \in told => recorded[g] >= n
    /\ SetReleaseSink(NoSink)
    /\ fenced' = [fenced EXCEPT ![lifetime] = TRUE]
    /\ Goto("done")
    /\ UNCHANGED <<lifetime, bundle, requestVars, ambiguous, homeVars>>

Request(i) ==
    \/ ReadBundle(i) \/ Begin(i) \/ IssueRPop(i) \/ RPopReplied(i)
    \/ RPopAmbiguous(i) \/ AbortInstalled(i) \/ EndToken(i) \/ InstallGrant(i) \/ InstallRejected(i)
    \/ AbortRejected(i) \/ Execute(i)
    \/ \E g \in Groups \cup {Unaccounted} : HomeGrants(i, g)

Supervisor ==
    \/ \E s \in Sinks : InstallSink(s)
    \/ Publish \/ LifetimeEnds \/ CloseClient \/ SettleCall \/ TakeOver
    \/ StartAnew \/ GiveUp \/ SupervisorDrains \/ Recovered \/ FlushReleases
    \/ ShutDown

LifetimeNext ==
    \/ \E i \in Ids : Request(i)
    \/ \E g \in Groups, n \in Ids : HomeRecords(g, n)
    \/ Supervisor

LifetimeSpec == LifetimeInit /\ [][LifetimeNext]_allVars

(***************************************************************************)
(* Fairness: the registry's (see ExecutionRegistry) for the requests and   *)
(* the supervisor's calls; a request's RPOP fails or is answered, and the  *)
(* request goes on; the supervisor takes its next step.  No deadline has   *)
(* to expire, except the one of the final Flush.                           *)
(***************************************************************************)
Answered(i) == RPopReplied(i) \/ RPopAmbiguous(i)

Continue(i) == IssueRPop(i) \/ EndToken(i) \/ InstallGrant(i) \/ InstallRejected(i)

FinishDispatch(i) == Finish(i) /\ UNCHANGED lifetimeVars

CloseResource(i) == ResourceClosed(i) /\ UNCHANGED lifetimeVars

\* The call the supervisor is in goes on; its context is not made to expire.
SupervisorCalls ==
    /\ \/ sup = "settling" /\ (WaitPendingStart(lifetime) \/ Proceed(lifetime))
       \/ sup \in {"unsafe", "draining"} /\ (DrainSwap(DrainCall) \/ Proceed(DrainCall))
    /\ UNCHANGED lifetimeVars

LifetimeFairness ==
    /\ \A i \in Ids : /\ WF_allVars(Answered(i)) /\ WF_allVars(Continue(i))
                      /\ WF_allVars(FinishDispatch(i)) /\ WF_allVars(CloseResource(i))
    /\ WF_allVars(SupervisorCalls)
    /\ WF_allVars(CloseClient \/ TakeOver \/ StartAnew \/ GiveUp \/ Recovered
                    \/ FlushReleases \/ ShutDown)

FairLifetimeSpec == LifetimeSpec /\ LifetimeFairness

-----------------------------------------------------------------------------
\* The values the variables take (service_home.go, client.go).
LifetimeTypeOK ==
    /\ TypeOK
    /\ sup \in {"new", "serving", "closing", "settling", "unsafe", "recovered",
                "draining", "flushing", "done", "deferred"}
    /\ lifetime \in Lifetimes /\ bundle \in 0..MaxLifetime
    /\ via \in [Ids -> 0..MaxLifetime]
    /\ rpc \in [Ids -> {"idle", "failed", "issued", "granted", "replied", "lost",
                        "ambiguous", "rejected"}]
    /\ fenced \in [Lifetimes -> BOOLEAN] /\ ambiguous \in [Lifetimes -> BOOLEAN]
    /\ grants \subseteq Ids \X (Groups \cup {Unaccounted})
    /\ recorded \in [Groups -> Nat]

\* Taking the membership over is safe: every slot Home ever granted to an
\* earlier lifetime belongs to a scope of the registry, which will release or
\* has released it.  A grant still on its way, or one that was lost, would leak
\* its slot for ever, since Home carries its count over (service_home.go
\* 573-590: the client is fenced before WaitPending, the flag read after it).
TakeoverKnowsGrants ==
    \A i \in Ids, g \in Groups :
        <<i, g>> \in grants /\ via[i] < lifetime
            => group[i] = g /\ pc[i] \in ScopePCs \cup {"ended"}

\* Home never counts fewer executions in a group than are running: what it
\* recorded as released never exceeds the grants whose resource was closed,
\* across lifetimes and lost, duplicated or late frames.
HomeNeverUnderCounts ==
    \A g \in Groups :
        recorded[g] <= Cardinality({i \in Released(g) : <<i, g>> \in grants})

\* The new registry and the new Home membership that replace an unsafe lifetime
\* start from nothing: no execution of the old registry is running, and no
\* request of the old membership is on the wire or can still be put there.
RecoveredIsQuiet ==
    sup = "recovered" =>
        \A i \in Ids : /\ pc[i] \in {"unborn", "ended", "dropped"}
                      /\ rpc[i] \notin {"issued", "granted"}

\* A shutdown that drained and flushed without error has given every installed
\* slot back: Home's record of a group is the number of its installed scopes.
CleanShutdownFreesAll ==
    sup = "done" =>
        /\ \A i \in Ids : pc[i] \in {"unborn", "ended", "dropped"}
        /\ \A g \in Groups : recorded[g] = Cardinality({i \in Ids : group[i] = g})

\* A lifetime that ended is followed by the next one, by a new registry or by
\* the return of the subscriber: the supervisor is never stuck in a wait.
LifetimeReplaced ==
    sup \in {"closing", "settling", "unsafe", "draining", "flushing"}
        ~> sup \in {"serving", "recovered", "done", "deferred"}

(***************************************************************************)
(* What a lifetime keeps at every step: besides the types, Home counts no  *)
(* execution less than are running, and a new membership starts when those *)
(* of the old one are over.                                                *)
(***************************************************************************)
LifetimeInv ==
    /\ LifetimeTypeOK
    /\ HomeNeverUnderCounts
    /\ RecoveredIsQuiet
=============================================================================
