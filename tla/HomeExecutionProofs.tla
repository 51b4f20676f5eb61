------------------------ MODULE HomeExecutionProofs -------------------------
(***************************************************************************)
(* Machine-checked proofs about ExecutionRegistry and about HomeLifetime,  *)
(* which extends it, for any number of dispatches, callers, groups, sinks, *)
(* barriers and lifetimes.  Every step of a lifetime is a step of the      *)
(* registry or leaves it alone, so what the first part shows of the registry *)
(* holds in the second; what is new there is the agreement of a request's  *)
(* RPOP, its token or scope, the fence of its client and what Home granted. *)
(***************************************************************************)
EXTENDS HomeLifetime, FiniteSetTheorems, TLAPS

USE DEF Ids

(***************************************************************************)
(* ExecutionRegistry: the inductive invariant, part by part.               *)
(***************************************************************************)
LockedPCs == {"beginning", "installing", "binding"}

\* The mutex is held exactly by the dispatch that is between the test of the
\* state word and its commit; pending, scopes and next agree with the owners.
OwnersInv ==
    /\ \A i \in Ids : pc[i] \in LockedPCs <=> mu = i
    /\ \A i \in Ids : i \in pending <=> pc[i] \in {"pending", "installing"}
    /\ \A i \in Ids : i \in scopes <=> pc[i] \in ScopePCs
    /\ \A i \in Ids : i > next <=> pc[i] \in {"unborn", "beginning"}
    /\ \A i \in Ids : pc[i] = "beginning" => i = next + 1

\* A resource is bound, being closed or closed only where its owner allows it.
CloseInv ==
    \A i \in Ids :
        /\ closeFn[i] => closeDone[i] = "nil" /\ pc[i] \in {"active", "deactivated"}
        /\ closeDone[i] = "open" => pc[i] \in {"active", "deactivated", "closing"}
        /\ pc[i] \in {"unborn", "beginning", "pending", "installing", "binding", "dropped"}
               => closeDone[i] = "nil"

Swapped == SnapshotTaken \cup {"drain.snapshot", "close.snapshot"}
NothingOpen == \A i \in Ids : ~closeFn[i] /\ closeDone[i] # "open"
Quiescent == mu = 0 /\ pending = {} /\ scopes = {}

\* Nobody holds the mutex once a snapshot was taken, and nobody can get it to
\* admit anything again; a closed registry is quiescent or being closed.
LifeInv ==
    /\ \A c \in Callers : caller[c] \in Swapped => state # "Accepting"
    /\ \A c \in Callers : caller[c] \in SnapshotTaken => mu = 0
    /\ \A c \in Callers : caller[c] = "drain.ok" => state = "Closed" /\ Quiescent
    /\ \A c \in Callers : caller[c] \in {"close.swap", "close.snapshot", "close.sweep",
                                         "close.await", "close.join"} => closeStarted
    /\ state = "Closed" /\ ~closeStarted => Quiescent
    /\ closeFinished => state # "Accepting" /\ mu = 0

\* What a sweep has not started to close, or a Close has not waited for, is in
\* what it has still to do.
SweepInv ==
    /\ \A c \in Callers :
        /\ caller[c] \in {"drain.sweep", "close.sweep", "close.await"}
               => \A i \in Ids : closeFn[i] => i \in todo[c]
        /\ caller[c] \in {"drain.wait", "drain.parked", "drain.ok", "drain.timeout"}
               => \A i \in Ids : ~closeFn[i]
        /\ caller[c] = "close.sweep"
               => \A i \in Ids : closeDone[i] = "open" => i \in todo[c]
        /\ caller[c] = "close.await"
               => /\ awaiting[c] \in Ids
                  /\ \A i \in Ids : closeDone[i] = "open" => i \in todo[c] \cup {awaiting[c]}
        /\ caller[c] = "close.ok" => NothingOpen
    /\ closeFinished => NothingOpen

\* Barriers: a dispatch begun before the observed barrier has a token number
\* the barrier remembers; published barriers were observed.
BarrierInv ==
    /\ published <= observed
    /\ freeze.barrier <= published
    /\ \A i \in Ids : i <= next => begunUnder[i] <= observed
    /\ \A i \in Ids : i <= next /\ begunUnder[i] < observed => i <= barrierSeq

\* Barriers and snapshots, kept together.
BarrierAll == BarrierInv /\ BarrierCoversPending /\ FreezeNamesUnreleased

IndInv == /\ TypeOK /\ OwnersInv /\ CloseInv /\ LifeInv /\ SweepInv
          /\ BarrierAll /\ SinkHearsLatest /\ SequenceCountsReleases
\* A step keeps every variable in its type.
LEMMA TypeStep == TypeOK /\ [Next]_vars => TypeOK'
<1> SUFFICES ASSUME TypeOK, [Next]_vars PROVE TypeOK'
  OBVIOUS
<1> USE MaxDispatchAssumption, MaxBarrierAssumption
    DEF TypeOK, lifeVars, dispatchVars, closeVars, releaseVars, callerVars, barrierVars
<1>1. ASSUME NEW i \in Ids, BeginCheck(i) PROVE TypeOK'
  <2>1. DispatchType'
    BY <1>1 DEF BeginCheck, DispatchType, OwnerPCs
  <2> QED
    BY <2>1, <1>1 DEF BeginCheck, LifeType, CloseType, ReleaseType, CallerType, BarrierType
<1>2. ASSUME NEW i \in Ids, BeginReserve(i) PROVE TypeOK'
  <2>1. DispatchType'
    BY <1>2 DEF BeginReserve, DispatchType, OwnerPCs, BarrierType
  <2> QED
    BY <2>1, <1>2 DEF BeginReserve, LifeType, CloseType, ReleaseType, CallerType, BarrierType
<1>3. ASSUME NEW i \in Ids, PendingEnd(i) PROVE TypeOK'
  <2>1. DispatchType'
    BY <1>3 DEF PendingEnd, signalLocked, DispatchType, OwnerPCs
  <2>2. CallerType'
    BY <1>3 DEF PendingEnd, signalLocked, CallerType, CallerPCs
  <2> QED
    BY <2>1, <2>2, <1>3 DEF PendingEnd, signalLocked, LifeType, CloseType, ReleaseType,
       BarrierType
<1>4. ASSUME NEW i \in Ids, InstallRefused(i) PROVE TypeOK'
  <2>1. DispatchType'
    BY <1>4 DEF InstallRefused, signalLocked, DispatchType, OwnerPCs
  <2>2. CallerType'
    BY <1>4 DEF InstallRefused, signalLocked, CallerType, CallerPCs
  <2> QED
    BY <2>1, <2>2, <1>4 DEF InstallRefused, signalLocked, LifeType, CloseType, ReleaseType,
       BarrierType
<1>5. ASSUME NEW i \in Ids, InstallCheck(i) PROVE TypeOK'
  <2>1. DispatchType'
    BY <1>5 DEF InstallCheck, DispatchType, OwnerPCs
  <2> QED
    BY <2>1, <1>5 DEF InstallCheck, LifeType, CloseType, ReleaseType, CallerType, BarrierType
<1>6. ASSUME NEW i \in Ids, NEW g \in Groups \cup {Unaccounted}, InstallCommit(i, g)
      PROVE  TypeOK'
  <2>1. DispatchType'
    BY <1>6 DEF InstallCommit, signalLocked, DispatchType, OwnerPCs
  <2>2. CallerType'
    BY <1>6 DEF InstallCommit, signalLocked, CallerType, CallerPCs
  <2> QED
    BY <2>1, <2>2, <1>6 DEF InstallCommit, signalLocked, LifeType, CloseType, ReleaseType,
       BarrierType
<1>7. ASSUME NEW i \in Ids, BindCheck(i) PROVE TypeOK'
  <2>1. DispatchType'
    BY <1>7 DEF BindCheck, DispatchType, OwnerPCs
  <2> QED
    BY <2>1, <1>7 DEF BindCheck, LifeType, CloseType, ReleaseType, CallerType, BarrierType
<1>8. ASSUME NEW i \in Ids, BindCommit(i) PROVE TypeOK'
  <2>1. DispatchType'
    BY <1>8 DEF BindCommit, DispatchType, OwnerPCs
  <2>2. CloseType'
    BY <1>8 DEF BindCommit, CloseType
  <2> QED
    BY <2>1, <2>2, <1>8 DEF BindCommit, LifeType, ReleaseType, CallerType, BarrierType
<1>9. ASSUME NEW i \in Ids, EndDeactivate(i) PROVE TypeOK'
  <2>1. DispatchType'
    BY <1>9 DEF EndDeactivate, DispatchType, OwnerPCs
  <2> QED
    BY <2>1, <1>9 DEF EndDeactivate, LifeType, CloseType, ReleaseType, CallerType, BarrierType
<1>10. ASSUME NEW i \in Ids, EndStartClose(i) PROVE TypeOK'
  <2>1. DispatchType'
    BY <1>10 DEF EndStartClose, startBoundResourceClose, DispatchType, OwnerPCs
  <2>2. CloseType'
    BY <1>10 DEF EndStartClose, startBoundResourceClose, CloseType
  <2> QED
    BY <2>1, <2>2, <1>10 DEF EndStartClose, startBoundResourceClose, LifeType, ReleaseType,
       CallerType, BarrierType
<1>11. ASSUME NEW i \in Ids, EndMark(i) PROVE TypeOK'
  <2>1. DispatchType'
    BY <1>11 DEF EndMark, DispatchType, OwnerPCs
  <2>2. ReleaseType'
    <3>1. CASE group[i] = Unaccounted
      BY <1>11, <3>1 DEF EndMark, ReleaseType
    <3>2. CASE group[i] # Unaccounted
      <4> DEFINE n == releaseSeq[group[i]] + 1
      <4>1. group[i] \in Groups /\ n \in Nat
        BY <3>2 DEF DispatchType, ReleaseType
      <4>2. releaseSeq' = [releaseSeq EXCEPT ![group[i]] = n] /\ call' = [call EXCEPT ![i] = <<sink, n>>]
        BY <1>11, <3>2 DEF EndMark
      <4> HIDE DEF n
      <4> QED
        BY <1>11, <4>1, <4>2 DEF EndMark, ReleaseType
    <3> QED
      BY <3>1, <3>2
  <2> QED
    BY <2>1, <2>2, <1>11 DEF EndMark, LifeType, CloseType, CallerType, BarrierType
<1>12. ASSUME NEW i \in Ids, EndDeliver(i) PROVE TypeOK'
  <2>1. DispatchType'
    BY <1>12 DEF EndDeliver, DispatchType, OwnerPCs
  <2>2. ReleaseType'
    BY <1>12 DEF EndDeliver, ReleaseType, DispatchType
  <2> QED
    BY <2>1, <2>2, <1>12 DEF EndDeliver, LifeType, CloseType, CallerType, BarrierType
<1>13. ASSUME NEW i \in Ids, EndDelete(i) PROVE TypeOK'
  <2>1. DispatchType'
    BY <1>13 DEF EndDelete, signalLocked, DispatchType, OwnerPCs
  <2>2. CallerType'
    BY <1>13 DEF EndDelete, signalLocked, CallerType, CallerPCs
  <2> QED
    BY <2>1, <2>2, <1>13 DEF EndDelete, signalLocked, LifeType, CloseType, ReleaseType,
       BarrierType
<1>14. ASSUME NEW i \in Ids, ResourceClosed(i) PROVE TypeOK'
  <2>1. CloseType'
    BY <1>14 DEF ResourceClosed, CloseType
  <2> QED
    BY <2>1, <1>14 DEF ResourceClosed, LifeType, DispatchType, ReleaseType, CallerType,
       BarrierType
<1>15. ASSUME NEW c \in Callers, WaitPendingStart(c) PROVE TypeOK'
  <2>1. CallerType'
    BY <1>15 DEF WaitPendingStart, CallerType, CallerPCs
  <2> QED
    BY <2>1, <1>15 DEF WaitPendingStart, LifeType, DispatchType, CloseType, ReleaseType,
       BarrierType
<1>16. ASSUME NEW c \in Callers, WaitPendingCheck(c) PROVE TypeOK'
  <2>1. CallerType'
    BY <1>16 DEF WaitPendingCheck, CallerType, CallerPCs
  <2> QED
    BY <2>1, <1>16 DEF WaitPendingCheck, LifeType, DispatchType, CloseType, ReleaseType,
       BarrierType
<1>17. ASSUME NEW c \in Callers, DrainSwap(c) PROVE TypeOK'
  <2>1. LifeType'
    BY <1>17 DEF DrainSwap, LifeType
  <2>2. CallerType'
    BY <1>17 DEF DrainSwap, CallerType, CallerPCs
  <2> QED
    BY <2>1, <2>2, <1>17 DEF DrainSwap, DispatchType, CloseType, ReleaseType, BarrierType
<1>18. ASSUME NEW c \in Callers, DrainSnapshot(c) PROVE TypeOK'
  <2>1. CallerType'
    BY <1>18 DEF DrainSnapshot, CallerType, CallerPCs, DispatchType
  <2> QED
    BY <2>1, <1>18 DEF DrainSnapshot, LifeType, DispatchType, CloseType, ReleaseType, BarrierType
<1>19. ASSUME NEW c \in Callers, DrainSwept(c) PROVE TypeOK'
  <2>1. CallerType'
    BY <1>19 DEF DrainSwept, CallerType, CallerPCs
  <2> QED
    BY <2>1, <1>19 DEF DrainSwept, LifeType, DispatchType, CloseType, ReleaseType, BarrierType
<1>20. ASSUME NEW c \in Callers, DrainCheck(c) PROVE TypeOK'
  <2>1. LifeType'
    BY <1>20 DEF DrainCheck, LifeType
  <2>2. CallerType'
    BY <1>20 DEF DrainCheck, CallerType, CallerPCs
  <2> QED
    BY <2>1, <2>2, <1>20 DEF DrainCheck, DispatchType, CloseType, ReleaseType, BarrierType
<1>21. ASSUME NEW c \in Callers, CloseStart(c) PROVE TypeOK'
  <2>1. LifeType'
    BY <1>21 DEF CloseStart, LifeType
  <2>2. CallerType'
    BY <1>21 DEF CloseStart, CallerType, CallerPCs
  <2> QED
    BY <2>1, <2>2, <1>21 DEF CloseStart, DispatchType, CloseType, ReleaseType, BarrierType
<1>22. ASSUME NEW c \in Callers, CloseSwap(c) PROVE TypeOK'
  <2>1. LifeType'
    BY <1>22 DEF CloseSwap, LifeType
  <2>2. CallerType'
    BY <1>22 DEF CloseSwap, CallerType, CallerPCs
  <2> QED
    BY <2>1, <2>2, <1>22 DEF CloseSwap, DispatchType, CloseType, ReleaseType, BarrierType
<1>23. ASSUME NEW c \in Callers, CloseSnapshot(c) PROVE TypeOK'
  <2>1. CallerType'
    BY <1>23 DEF CloseSnapshot, CallerType, CallerPCs, DispatchType
  <2> QED
    BY <2>1, <1>23 DEF CloseSnapshot, LifeType, DispatchType, CloseType, ReleaseType, BarrierType
<1>24. ASSUME NEW c \in Callers, CloseAwaited(c) PROVE TypeOK'
  <2>1. CallerType'
    BY <1>24 DEF CloseAwaited, CallerType, CallerPCs
  <2> QED
    BY <2>1, <1>24 DEF CloseAwaited, LifeType, DispatchType, CloseType, ReleaseType, BarrierType
<1>25. ASSUME NEW c \in Callers, CloseFinish(c) PROVE TypeOK'
  <2>1. LifeType'
    BY <1>25 DEF CloseFinish, LifeType
  <2>2. CallerType'
    BY <1>25 DEF CloseFinish, CallerType, CallerPCs
  <2> QED
    BY <2>1, <2>2, <1>25 DEF CloseFinish, DispatchType, CloseType, ReleaseType, BarrierType
<1>26. ASSUME NEW c \in Callers, CloseJoin(c) PROVE TypeOK'
  <2>1. CallerType'
    BY <1>26 DEF CloseJoin, CallerType, CallerPCs
  <2> QED
    BY <2>1, <1>26 DEF CloseJoin, LifeType, DispatchType, CloseType, ReleaseType, BarrierType
<1>27. ASSUME NEW c \in Callers, NEW i \in Ids, DrainSweep(c, i) PROVE TypeOK'
  <2>1. CloseType'
    BY <1>27 DEF DrainSweep, startBoundResourceClose, CloseType
  <2>2. CallerType'
    BY <1>27 DEF DrainSweep, startBoundResourceClose, CallerType, CallerPCs
  <2> QED
    BY <2>1, <2>2, <1>27 DEF DrainSweep, startBoundResourceClose, LifeType, DispatchType,
       ReleaseType, BarrierType
<1>28. ASSUME NEW c \in Callers, NEW i \in Ids, CloseSweep(c, i) PROVE TypeOK'
  <2>1. CloseType'
    BY <1>28 DEF CloseSweep, startBoundResourceClose, CloseType
  <2>2. CallerType'
    BY <1>28 DEF CloseSweep, startBoundResourceClose, CallerType, CallerPCs
  <2> QED
    BY <2>1, <2>2, <1>28 DEF CloseSweep, startBoundResourceClose, LifeType, DispatchType,
       ReleaseType, BarrierType
<1>29. ASSUME NEW c \in Callers, Wake(c) PROVE TypeOK'
  <2>1. CallerType'
    BY <1>29 DEF Wake, CallerType, CallerPCs
  <2> QED
    BY <2>1, <1>29 DEF Wake, LifeType, DispatchType, CloseType, ReleaseType, BarrierType
<1>30. ASSUME NEW c \in Callers, Timeout(c) PROVE TypeOK'
  <2>1. CallerType'
    BY <1>30 DEF Timeout, CallerType, CallerPCs
  <2> QED
    BY <2>1, <1>30 DEF Timeout, LifeType, DispatchType, CloseType, ReleaseType, BarrierType
<1>31. ASSUME NEW s \in Sinks \cup {NoSink}, SetReleaseSink(s) PROVE TypeOK'
  <2>1. ReleaseType'
    BY <1>31 DEF SetReleaseSink, ReleaseType
  <2> QED
    BY <2>1, <1>31 DEF SetReleaseSink, LifeType, DispatchType, CloseType, CallerType, BarrierType
<1>32. ASSUME NEW r \in replay, ReplayRelease(r) PROVE TypeOK'
  <2>1. ReleaseType'
    BY <1>32 DEF ReplayRelease, ReleaseType
  <2> QED
    BY <2>1, <1>32 DEF ReplayRelease, LifeType, DispatchType, CloseType, CallerType, BarrierType
<1>33. ASSUME NEW b \in 1..MaxBarrier, ObserveBarrier(b) PROVE TypeOK'
  <2>1. BarrierType'
    BY <1>33 DEF ObserveBarrier, BarrierType, DispatchType
  <2> QED
    BY <2>1, <1>33 DEF ObserveBarrier, LifeType, DispatchType, CloseType, ReleaseType, CallerType
<1>34. ASSUME FreezeInFlight PROVE TypeOK'
  <2>1. BarrierType'
    BY <1>34 DEF FreezeInFlight, BarrierType, DispatchType
  <2> QED
    BY <2>1, <1>34 DEF FreezeInFlight, LifeType, DispatchType, CloseType, ReleaseType, CallerType
<1>35. CASE UNCHANGED vars
  BY <1>35 DEF vars, LifeType, DispatchType, CloseType, ReleaseType, CallerType, BarrierType
<1> QED
  BY <1>1, <1>2, <1>3, <1>4, <1>5, <1>6, <1>7, <1>8, <1>9, <1>10, <1>11, <1>12, <1>13, <1>14,
     <1>15, <1>16, <1>17, <1>18, <1>19, <1>20, <1>21, <1>22, <1>23, <1>24, <1>25, <1>26, <1>27,
     <1>28, <1>29, <1>30, <1>31, <1>32, <1>33, <1>34, <1>35 DEF Next, Owner, Call, Subscriber

\* The initial values have their types.
LEMMA TypeInit == Init => TypeOK
<1> SUFFICES ASSUME Init PROVE TypeOK
  OBVIOUS
<1> USE MaxDispatchAssumption, MaxBarrierAssumption DEF Init
<1>1. LifeType
  BY DEF LifeType
<1>2. DispatchType
  BY DEF DispatchType, OwnerPCs
<1>3. CloseType
  BY DEF CloseType
<1>4. ReleaseType
  BY DEF ReleaseType
<1>5. CallerType
  BY DEF CallerType, CallerPCs
<1>6. BarrierType
  BY DEF BarrierType
<1> QED
  BY <1>1, <1>2, <1>3, <1>4, <1>5, <1>6 DEF TypeOK

(***************************************************************************)
(* Frame conditions: what each kind of process leaves alone.               *)
(***************************************************************************)
\* Owners touch neither the life cycle nor the calls nor the barriers.
LEMMA OwnerFrame ==
    ASSUME NEW i \in Ids, Owner(i)
    PROVE  UNCHANGED <<lifeVars, callerVars, barrierVars>>
<1> USE DEF lifeVars, dispatchVars, closeVars, releaseVars, callerVars, barrierVars
<1>1. ASSUME BeginCheck(i) PROVE UNCHANGED <<lifeVars, callerVars, barrierVars>>
  BY <1>1 DEF BeginCheck
<1>2. ASSUME BeginReserve(i) PROVE UNCHANGED <<lifeVars, callerVars, barrierVars>>
  BY <1>2 DEF BeginReserve
<1>3. ASSUME PendingEnd(i) PROVE UNCHANGED <<lifeVars, callerVars, barrierVars>>
  BY <1>3 DEF PendingEnd, signalLocked
<1>4. ASSUME InstallRefused(i) PROVE UNCHANGED <<lifeVars, callerVars, barrierVars>>
  BY <1>4 DEF InstallRefused, signalLocked
<1>5. ASSUME InstallCheck(i) PROVE UNCHANGED <<lifeVars, callerVars, barrierVars>>
  BY <1>5 DEF InstallCheck
<1>6. ASSUME NEW g \in Groups \cup {Unaccounted}, InstallCommit(i, g)
      PROVE  UNCHANGED <<lifeVars, callerVars, barrierVars>>
  BY <1>6 DEF InstallCommit, signalLocked
<1>7. ASSUME BindCheck(i) PROVE UNCHANGED <<lifeVars, callerVars, barrierVars>>
  BY <1>7 DEF BindCheck
<1>8. ASSUME BindCommit(i) PROVE UNCHANGED <<lifeVars, callerVars, barrierVars>>
  BY <1>8 DEF BindCommit
<1>9. ASSUME EndDeactivate(i) PROVE UNCHANGED <<lifeVars, callerVars, barrierVars>>
  BY <1>9 DEF EndDeactivate
<1>10. ASSUME EndStartClose(i) PROVE UNCHANGED <<lifeVars, callerVars, barrierVars>>
  BY <1>10 DEF EndStartClose, startBoundResourceClose
<1>11. ASSUME EndMark(i) PROVE UNCHANGED <<lifeVars, callerVars, barrierVars>>
  BY <1>11 DEF EndMark
<1>12. ASSUME EndDeliver(i) PROVE UNCHANGED <<lifeVars, callerVars, barrierVars>>
  BY <1>12 DEF EndDeliver
<1>13. ASSUME EndDelete(i) PROVE UNCHANGED <<lifeVars, callerVars, barrierVars>>
  BY <1>13 DEF EndDelete, signalLocked
<1> QED
  BY <1>1, <1>2, <1>3, <1>4, <1>5, <1>6, <1>7, <1>8, <1>9, <1>10, <1>11, <1>12, <1>13 DEF Owner

\* Drain, Close and WaitPending touch neither owners nor releases nor barriers.
LEMMA CallFrame ==
    ASSUME NEW c \in Callers, Call(c)
    PROVE  UNCHANGED <<mu, dispatchVars, releaseVars, barrierVars>>
<1> USE DEF lifeVars, dispatchVars, closeVars, releaseVars, callerVars, barrierVars
<1>1. ASSUME WaitPendingStart(c) PROVE UNCHANGED <<mu, dispatchVars, releaseVars, barrierVars>>
  BY <1>1 DEF WaitPendingStart
<1>2. ASSUME WaitPendingCheck(c) PROVE UNCHANGED <<mu, dispatchVars, releaseVars, barrierVars>>
  BY <1>2 DEF WaitPendingCheck
<1>3. ASSUME DrainSwap(c) PROVE UNCHANGED <<mu, dispatchVars, releaseVars, barrierVars>>
  BY <1>3 DEF DrainSwap
<1>4. ASSUME DrainSnapshot(c) PROVE UNCHANGED <<mu, dispatchVars, releaseVars, barrierVars>>
  BY <1>4 DEF DrainSnapshot
<1>5. ASSUME DrainSwept(c) PROVE UNCHANGED <<mu, dispatchVars, releaseVars, barrierVars>>
  BY <1>5 DEF DrainSwept
<1>6. ASSUME DrainCheck(c) PROVE UNCHANGED <<mu, dispatchVars, releaseVars, barrierVars>>
  BY <1>6 DEF DrainCheck
<1>7. ASSUME CloseStart(c) PROVE UNCHANGED <<mu, dispatchVars, releaseVars, barrierVars>>
  BY <1>7 DEF CloseStart
<1>8. ASSUME CloseSwap(c) PROVE UNCHANGED <<mu, dispatchVars, releaseVars, barrierVars>>
  BY <1>8 DEF CloseSwap
<1>9. ASSUME CloseSnapshot(c) PROVE UNCHANGED <<mu, dispatchVars, releaseVars, barrierVars>>
  BY <1>9 DEF CloseSnapshot
<1>10. ASSUME CloseAwaited(c) PROVE UNCHANGED <<mu, dispatchVars, releaseVars, barrierVars>>
  BY <1>10 DEF CloseAwaited
<1>11. ASSUME CloseFinish(c) PROVE UNCHANGED <<mu, dispatchVars, releaseVars, barrierVars>>
  BY <1>11 DEF CloseFinish
<1>12. ASSUME CloseJoin(c) PROVE UNCHANGED <<mu, dispatchVars, releaseVars, barrierVars>>
  BY <1>12 DEF CloseJoin
<1>13. ASSUME NEW i \in Ids, DrainSweep(c, i)
       PROVE  UNCHANGED <<mu, dispatchVars, releaseVars, barrierVars>>
  BY <1>13 DEF DrainSweep, startBoundResourceClose
<1>14. ASSUME NEW i \in Ids, CloseSweep(c, i)
       PROVE  UNCHANGED <<mu, dispatchVars, releaseVars, barrierVars>>
  BY <1>14 DEF CloseSweep, startBoundResourceClose
<1>15. ASSUME Wake(c) PROVE UNCHANGED <<mu, dispatchVars, releaseVars, barrierVars>>
  BY <1>15 DEF Wake
<1>16. ASSUME Timeout(c) PROVE UNCHANGED <<mu, dispatchVars, releaseVars, barrierVars>>
  BY <1>16 DEF Timeout
<1> QED
  BY <1>1, <1>2, <1>3, <1>4, <1>5, <1>6, <1>7, <1>8, <1>9, <1>10, <1>11, <1>12, <1>13, <1>14,
     <1>15, <1>16 DEF Call

\* A call touches the bound resources only through startBoundResourceClose.
LEMMA CallCloses ==
    ASSUME NEW c \in Callers, Call(c)
    PROVE  UNCHANGED closeVars \/ \E i \in Ids : startBoundResourceClose(i)
<1>1. ASSUME WaitPendingStart(c) PROVE UNCHANGED closeVars
  BY <1>1 DEF WaitPendingStart, closeVars
<1>2. ASSUME WaitPendingCheck(c) PROVE UNCHANGED closeVars
  BY <1>2 DEF WaitPendingCheck, closeVars
<1>3. ASSUME DrainSwap(c) PROVE UNCHANGED closeVars
  BY <1>3 DEF DrainSwap, closeVars
<1>4. ASSUME DrainSnapshot(c) PROVE UNCHANGED closeVars
  BY <1>4 DEF DrainSnapshot, closeVars
<1>5. ASSUME DrainSwept(c) PROVE UNCHANGED closeVars
  BY <1>5 DEF DrainSwept, closeVars
<1>6. ASSUME DrainCheck(c) PROVE UNCHANGED closeVars
  BY <1>6 DEF DrainCheck, closeVars
<1>7. ASSUME CloseStart(c) PROVE UNCHANGED closeVars
  BY <1>7 DEF CloseStart, closeVars
<1>8. ASSUME CloseSwap(c) PROVE UNCHANGED closeVars
  BY <1>8 DEF CloseSwap, closeVars
<1>9. ASSUME CloseSnapshot(c) PROVE UNCHANGED closeVars
  BY <1>9 DEF CloseSnapshot, closeVars
<1>10. ASSUME CloseAwaited(c) PROVE UNCHANGED closeVars
  BY <1>10 DEF CloseAwaited, closeVars
<1>11. ASSUME CloseFinish(c) PROVE UNCHANGED closeVars
  BY <1>11 DEF CloseFinish, closeVars
<1>12. ASSUME CloseJoin(c) PROVE UNCHANGED closeVars
  BY <1>12 DEF CloseJoin, closeVars
<1>13. ASSUME NEW i \in Ids, DrainSweep(c, i) PROVE \E j \in Ids : startBoundResourceClose(j)
  BY <1>13 DEF DrainSweep
<1>14. ASSUME NEW i \in Ids, CloseSweep(c, i) PROVE \E j \in Ids : startBoundResourceClose(j)
  BY <1>14 DEF CloseSweep
<1>15. ASSUME Wake(c) PROVE UNCHANGED closeVars
  BY <1>15 DEF Wake, closeVars
<1>16. ASSUME Timeout(c) PROVE UNCHANGED closeVars
  BY <1>16 DEF Timeout, closeVars
<1> QED
  BY <1>1, <1>2, <1>3, <1>4, <1>5, <1>6, <1>7, <1>8, <1>9, <1>10, <1>11, <1>12, <1>13, <1>14,
     <1>15, <1>16 DEF Call

\* The subscriber touches only the sink and the barriers.
LEMMA SubscriberFrame ==
    ASSUME Subscriber
    PROVE  UNCHANGED <<mu, dispatchVars, lifeVars, closeVars, callerVars, asleep>>
<1> USE DEF lifeVars, dispatchVars, closeVars, releaseVars, callerVars, barrierVars
<1>1. ASSUME NEW s \in Sinks \cup {NoSink}, SetReleaseSink(s)
      PROVE  UNCHANGED <<mu, dispatchVars, lifeVars, closeVars, callerVars, asleep>>
  BY <1>1 DEF SetReleaseSink
<1>2. ASSUME NEW r \in replay, ReplayRelease(r)
      PROVE  UNCHANGED <<mu, dispatchVars, lifeVars, closeVars, callerVars, asleep>>
  BY <1>2 DEF ReplayRelease
<1>3. ASSUME NEW b \in 1..MaxBarrier, ObserveBarrier(b)
      PROVE  UNCHANGED <<mu, dispatchVars, lifeVars, closeVars, callerVars, asleep>>
  BY <1>3 DEF ObserveBarrier
<1>4. ASSUME FreezeInFlight
      PROVE  UNCHANGED <<mu, dispatchVars, lifeVars, closeVars, callerVars, asleep>>
  BY <1>4 DEF FreezeInFlight
<1> QED
  BY <1>1, <1>2, <1>3, <1>4 DEF Subscriber

\* The owners' program counters, the mutex and the two maps stay in step.
LEMMA OwnersStep == ASSUME TypeOK, OwnersInv, [Next]_vars PROVE OwnersInv'
<1> USE MaxDispatchAssumption, MaxBarrierAssumption DEF lifeVars, dispatchVars, closeVars,
        releaseVars, callerVars, barrierVars
<1>1. ASSUME NEW i \in Ids, BeginCheck(i) PROVE OwnersInv'
  BY <1>1 DEF BeginCheck, OwnersInv, LockedPCs, ScopePCs, TypeOK, DispatchType, OwnerPCs
<1>2. ASSUME NEW i \in Ids, BeginReserve(i) PROVE OwnersInv'
  BY <1>2 DEF BeginReserve, OwnersInv, LockedPCs, ScopePCs, TypeOK, DispatchType, OwnerPCs
<1>3. ASSUME NEW i \in Ids, PendingEnd(i) PROVE OwnersInv'
  BY <1>3 DEF PendingEnd, signalLocked, OwnersInv, LockedPCs, ScopePCs, TypeOK,
      DispatchType, OwnerPCs
<1>4. ASSUME NEW i \in Ids, InstallRefused(i) PROVE OwnersInv'
  BY <1>4 DEF InstallRefused, signalLocked, OwnersInv, LockedPCs, ScopePCs, TypeOK,
      DispatchType, OwnerPCs
<1>5. ASSUME NEW i \in Ids, InstallCheck(i) PROVE OwnersInv'
  <2>1. pc' = [pc EXCEPT ![i] = "installing"] /\ mu = 0 /\ mu' = i /\ pc[i] = "pending"
        /\ UNCHANGED <<next, pending, scopes>>
    BY <1>5 DEF InstallCheck
  <2> QED
    BY <2>1 DEF OwnersInv, LockedPCs, ScopePCs, TypeOK, DispatchType
<1>6. ASSUME NEW i \in Ids, NEW g \in Groups \cup {Unaccounted}, InstallCommit(i, g)
      PROVE  OwnersInv'
  BY <1>6 DEF InstallCommit, signalLocked, OwnersInv, LockedPCs, ScopePCs, TypeOK,
      DispatchType, OwnerPCs
<1>7. ASSUME NEW i \in Ids, BindCheck(i) PROVE OwnersInv'
  BY <1>7 DEF BindCheck, OwnersInv, LockedPCs, ScopePCs, TypeOK, DispatchType, OwnerPCs
<1>8. ASSUME NEW i \in Ids, BindCommit(i) PROVE OwnersInv'
  BY <1>8 DEF BindCommit, OwnersInv, LockedPCs, ScopePCs, TypeOK, DispatchType, OwnerPCs
<1>9. ASSUME NEW i \in Ids, EndDeactivate(i) PROVE OwnersInv'
  BY <1>9 DEF EndDeactivate, OwnersInv, LockedPCs, ScopePCs, TypeOK, DispatchType, OwnerPCs
<1>10. ASSUME NEW i \in Ids, EndStartClose(i) PROVE OwnersInv'
  BY <1>10 DEF EndStartClose, startBoundResourceClose, OwnersInv, LockedPCs, ScopePCs,
      TypeOK, DispatchType, OwnerPCs
<1>11. ASSUME NEW i \in Ids, EndMark(i) PROVE OwnersInv'
  BY <1>11 DEF EndMark, OwnersInv, LockedPCs, ScopePCs, TypeOK, DispatchType, OwnerPCs
<1>12. ASSUME NEW i \in Ids, EndDeliver(i) PROVE OwnersInv'
  BY <1>12 DEF EndDeliver, OwnersInv, LockedPCs, ScopePCs, TypeOK, DispatchType, OwnerPCs
<1>13. ASSUME NEW i \in Ids, EndDelete(i) PROVE OwnersInv'
  BY <1>13 DEF EndDelete, signalLocked, OwnersInv, LockedPCs, ScopePCs, TypeOK,
      DispatchType, OwnerPCs
<1>14. ASSUME NEW i \in Ids, ResourceClosed(i) PROVE OwnersInv'
  BY <1>14 DEF ResourceClosed, OwnersInv
<1>15. ASSUME NEW c \in Callers, Call(c) PROVE OwnersInv'
  BY <1>15, CallFrame DEF OwnersInv
<1>16. CASE Subscriber
  BY <1>16, SubscriberFrame DEF OwnersInv
<1>17. CASE UNCHANGED vars
  BY <1>17 DEF vars, OwnersInv
<1> QED
  BY <1>1, <1>2, <1>3, <1>4, <1>5, <1>6, <1>7, <1>8, <1>9, <1>10, <1>11, <1>12, <1>13,
      <1>14, <1>15, <1>16, <1>17 DEF Next, Owner

\* A bound resource is closed once, by whoever comes first.
LEMMA CloseStep == ASSUME TypeOK, OwnersInv, CloseInv, [Next]_vars PROVE CloseInv'
<1> USE MaxDispatchAssumption, MaxBarrierAssumption DEF lifeVars, dispatchVars, closeVars,
        releaseVars, callerVars, barrierVars
<1>1. ASSUME NEW i \in Ids, BeginCheck(i) PROVE CloseInv'
  <2>1. pc[i] = "unborn"
    BY <1>1 DEF BeginCheck, OwnersInv, LockedPCs, TypeOK, DispatchType
  <2> QED
    BY <1>1, <2>1 DEF BeginCheck, CloseInv, TypeOK, DispatchType, CloseType
<1>2. ASSUME NEW i \in Ids, BeginReserve(i) PROVE CloseInv'
  BY <1>2 DEF BeginReserve, CloseInv, TypeOK, DispatchType, CloseType
<1>3. ASSUME NEW i \in Ids, PendingEnd(i) PROVE CloseInv'
  BY <1>3 DEF PendingEnd, signalLocked, CloseInv, TypeOK, DispatchType, CloseType
<1>4. ASSUME NEW i \in Ids, InstallRefused(i) PROVE CloseInv'
  BY <1>4 DEF InstallRefused, signalLocked, CloseInv, TypeOK, DispatchType, CloseType
<1>5. ASSUME NEW i \in Ids, InstallCheck(i) PROVE CloseInv'
  BY <1>5 DEF InstallCheck, CloseInv, TypeOK, DispatchType, CloseType
<1>6. ASSUME NEW i \in Ids, NEW g \in Groups \cup {Unaccounted}, InstallCommit(i, g)
      PROVE  CloseInv'
  BY <1>6 DEF InstallCommit, signalLocked, CloseInv, TypeOK, DispatchType, CloseType
<1>7. ASSUME NEW i \in Ids, BindCheck(i) PROVE CloseInv'
  BY <1>7 DEF BindCheck, CloseInv, TypeOK, DispatchType, CloseType
<1>8. ASSUME NEW i \in Ids, BindCommit(i) PROVE CloseInv'
  BY <1>8 DEF BindCommit, CloseInv, TypeOK, DispatchType, CloseType
<1>9. ASSUME NEW i \in Ids, EndDeactivate(i) PROVE CloseInv'
  BY <1>9 DEF EndDeactivate, CloseInv, TypeOK, DispatchType, CloseType
<1>10. ASSUME NEW i \in Ids, EndStartClose(i) PROVE CloseInv'
  BY <1>10 DEF EndStartClose, startBoundResourceClose, CloseInv, TypeOK, DispatchType,
      CloseType
<1>11. ASSUME NEW i \in Ids, EndMark(i) PROVE CloseInv'
  BY <1>11 DEF EndMark, boundResourceClosed, CloseInv, TypeOK, DispatchType, CloseType
<1>12. ASSUME NEW i \in Ids, EndDeliver(i) PROVE CloseInv'
  BY <1>12 DEF EndDeliver, CloseInv, TypeOK, DispatchType, CloseType
<1>13. ASSUME NEW i \in Ids, EndDelete(i) PROVE CloseInv'
  BY <1>13 DEF EndDelete, signalLocked, CloseInv, TypeOK, DispatchType, CloseType
<1>14. ASSUME NEW i \in Ids, ResourceClosed(i) PROVE CloseInv'
  BY <1>14 DEF ResourceClosed, CloseInv, TypeOK, DispatchType, CloseType
<1>15. ASSUME NEW c \in Callers, Call(c) PROVE CloseInv'
  <2>1. CASE UNCHANGED closeVars
    BY <1>15, CallFrame, <2>1 DEF CloseInv
  <2>2. ASSUME NEW i \in Ids, startBoundResourceClose(i) PROVE CloseInv'
    BY <1>15, CallFrame, <2>2 DEF CloseInv, startBoundResourceClose, TypeOK, CloseType,
       DispatchType
  <2> QED
    BY <1>15, CallCloses, <2>1, <2>2
<1>16. CASE Subscriber
  BY <1>16, SubscriberFrame DEF CloseInv
<1>17. CASE UNCHANGED vars
  BY <1>17 DEF vars, CloseInv
<1> QED
  BY <1>1, <1>2, <1>3, <1>4, <1>5, <1>6, <1>7, <1>8, <1>9, <1>10, <1>11, <1>12, <1>13,
      <1>14, <1>15, <1>16, <1>17 DEF Next, Owner

\* Once the registry has stopped accepting and the mutex was seen free, nobody
\* is between the test and the commit of an admission: nothing is admitted.
LEMMA ShutStaysShut ==
    ASSUME TypeOK, OwnersInv, state # "Accepting", mu = 0, [Next]_vars
    PROVE  mu' = 0 /\ pending' \subseteq pending /\ scopes' \subseteq scopes
<1> DEFINE Goal == mu' = 0 /\ pending' \subseteq pending /\ scopes' \subseteq scopes
<1> USE DEF lifeVars, dispatchVars, closeVars, releaseVars, callerVars, barrierVars
<1>1. ASSUME NEW i \in Ids, BeginCheck(i) PROVE Goal
  BY <1>1 DEF BeginCheck
<1>2. ASSUME NEW i \in Ids, BeginReserve(i) PROVE Goal
  BY <1>2 DEF BeginReserve, OwnersInv, LockedPCs
<1>3. ASSUME NEW i \in Ids, PendingEnd(i) PROVE Goal
  BY <1>3 DEF PendingEnd
<1>4. ASSUME NEW i \in Ids, InstallRefused(i) PROVE Goal
  BY <1>4 DEF InstallRefused
<1>5. ASSUME NEW i \in Ids, InstallCheck(i) PROVE Goal
  BY <1>5 DEF InstallCheck
<1>6. ASSUME NEW i \in Ids, NEW g \in Groups \cup {Unaccounted}, InstallCommit(i, g) PROVE Goal
  BY <1>6 DEF InstallCommit, OwnersInv, LockedPCs
<1>7. ASSUME NEW i \in Ids, BindCheck(i) PROVE Goal
  BY <1>7 DEF BindCheck
<1>8. ASSUME NEW i \in Ids, BindCommit(i) PROVE Goal
  BY <1>8 DEF BindCommit, OwnersInv, LockedPCs
<1>9. ASSUME NEW i \in Ids, EndDeactivate(i) PROVE Goal
  BY <1>9 DEF EndDeactivate
<1>10. ASSUME NEW i \in Ids, EndStartClose(i) PROVE Goal
  BY <1>10 DEF EndStartClose
<1>11. ASSUME NEW i \in Ids, EndMark(i) PROVE Goal
  BY <1>11 DEF EndMark
<1>12. ASSUME NEW i \in Ids, EndDeliver(i) PROVE Goal
  BY <1>12 DEF EndDeliver
<1>13. ASSUME NEW i \in Ids, EndDelete(i) PROVE Goal
  BY <1>13 DEF EndDelete
<1>14. ASSUME NEW i \in Ids, ResourceClosed(i) PROVE Goal
  BY <1>14 DEF ResourceClosed
<1>15. ASSUME NEW c \in Callers, Call(c) PROVE Goal
  BY <1>15, CallFrame
<1>16. CASE Subscriber
  BY <1>16, SubscriberFrame
<1>17. CASE UNCHANGED vars
  BY <1>17 DEF vars
<1> QED BY <1>1, <1>2, <1>3, <1>4, <1>5, <1>6, <1>7, <1>8, <1>9, <1>10, <1>11, <1>12,
    <1>13, <1>14, <1>15, <1>16, <1>17 DEF Next, Owner

\* ... and no resource is bound any more: closes are only started or finished.
LEMMA ClosesOnlyAdvance ==
    ASSUME TypeOK, OwnersInv, mu = 0, [Next]_vars, NEW j \in Ids
    PROVE  /\ closeFn'[j] => closeFn[j]
           /\ closeDone'[j] = "open" => closeFn[j] \/ closeDone[j] = "open"
<1> DEFINE Goal == /\ closeFn'[j] => closeFn[j]
                   /\ closeDone'[j] = "open" => closeFn[j] \/ closeDone[j] = "open"
<1> USE DEF TypeOK, CloseType, lifeVars, dispatchVars, closeVars, releaseVars, callerVars,
        barrierVars
<1>1. ASSUME NEW i \in Ids, BeginCheck(i) PROVE Goal
  BY <1>1 DEF BeginCheck
<1>2. ASSUME NEW i \in Ids, BeginReserve(i) PROVE Goal
  BY <1>2 DEF BeginReserve
<1>3. ASSUME NEW i \in Ids, PendingEnd(i) PROVE Goal
  BY <1>3 DEF PendingEnd, signalLocked
<1>4. ASSUME NEW i \in Ids, InstallRefused(i) PROVE Goal
  BY <1>4 DEF InstallRefused, signalLocked
<1>5. ASSUME NEW i \in Ids, InstallCheck(i) PROVE Goal
  BY <1>5 DEF InstallCheck
<1>6. ASSUME NEW i \in Ids, NEW g \in Groups \cup {Unaccounted}, InstallCommit(i, g) PROVE Goal
  BY <1>6 DEF InstallCommit, signalLocked
<1>7. ASSUME NEW i \in Ids, BindCheck(i) PROVE Goal
  BY <1>7 DEF BindCheck
<1>8. ASSUME NEW i \in Ids, BindCommit(i) PROVE Goal
  BY <1>8 DEF BindCommit, OwnersInv, LockedPCs
<1>9. ASSUME NEW i \in Ids, EndDeactivate(i) PROVE Goal
  BY <1>9 DEF EndDeactivate
<1>10. ASSUME NEW i \in Ids, EndStartClose(i) PROVE Goal
  BY <1>10 DEF EndStartClose, startBoundResourceClose
<1>11. ASSUME NEW i \in Ids, EndMark(i) PROVE Goal
  BY <1>11 DEF EndMark
<1>12. ASSUME NEW i \in Ids, EndDeliver(i) PROVE Goal
  BY <1>12 DEF EndDeliver
<1>13. ASSUME NEW i \in Ids, EndDelete(i) PROVE Goal
  BY <1>13 DEF EndDelete, signalLocked
<1>14. ASSUME NEW i \in Ids, ResourceClosed(i) PROVE Goal
  BY <1>14 DEF ResourceClosed
<1>15. ASSUME NEW c \in Callers, Call(c) PROVE Goal
  BY <1>15, CallCloses DEF startBoundResourceClose
<1>16. CASE Subscriber
  BY <1>16, SubscriberFrame
<1>17. CASE UNCHANGED vars
  BY <1>17 DEF vars
<1> QED BY <1>1, <1>2, <1>3, <1>4, <1>5, <1>6, <1>7, <1>8, <1>9, <1>10, <1>11, <1>12,
    <1>13, <1>14, <1>15, <1>16, <1>17 DEF Next, Owner

\* The life-cycle part: only the calls change it.
LEMMA LifeStep == ASSUME TypeOK, OwnersInv, LifeInv, [Next]_vars PROVE LifeInv'
<1> USE DEF lifeVars, dispatchVars, closeVars, releaseVars, callerVars, barrierVars
<1>1. state # "Accepting" /\ mu = 0 => mu' = 0 /\ pending' \subseteq pending /\ scopes' \subseteq scopes
  BY ShutStaysShut
<1>2. ASSUME UNCHANGED <<lifeVars, callerVars>> PROVE LifeInv'
  BY <1>1, <1>2 DEF LifeInv, Quiescent, Swapped, SnapshotTaken
<1>3. ASSUME NEW c \in Callers, WaitPendingStart(c) PROVE LifeInv'
  BY <1>3 DEF WaitPendingStart, LifeInv, Quiescent, Swapped, SnapshotTaken, TypeOK,
      CallerType, LifeType
<1>4. ASSUME NEW c \in Callers, WaitPendingCheck(c) PROVE LifeInv'
  BY <1>4 DEF WaitPendingCheck, LifeInv, Quiescent, Swapped, SnapshotTaken, TypeOK,
      CallerType, LifeType
<1>5. ASSUME NEW c \in Callers, DrainSwap(c) PROVE LifeInv'
  BY <1>5 DEF DrainSwap, LifeInv, Quiescent, Swapped, SnapshotTaken, TypeOK, CallerType,
      LifeType
<1>6. ASSUME NEW c \in Callers, DrainSnapshot(c) PROVE LifeInv'
  BY <1>6 DEF DrainSnapshot, LifeInv, Quiescent, Swapped, SnapshotTaken, TypeOK,
      CallerType, LifeType
<1>7. ASSUME NEW c \in Callers, DrainSwept(c) PROVE LifeInv'
  BY <1>7 DEF DrainSwept, LifeInv, Quiescent, Swapped, SnapshotTaken, TypeOK, CallerType,
      LifeType
<1>8. ASSUME NEW c \in Callers, DrainCheck(c) PROVE LifeInv'
  BY <1>8 DEF DrainCheck, LifeInv, Quiescent, Swapped, SnapshotTaken, TypeOK, CallerType,
      LifeType
<1>9. ASSUME NEW c \in Callers, CloseStart(c) PROVE LifeInv'
  BY <1>9 DEF CloseStart, LifeInv, Quiescent, Swapped, SnapshotTaken, TypeOK, CallerType,
      LifeType
<1>10. ASSUME NEW c \in Callers, CloseSwap(c) PROVE LifeInv'
  BY <1>10 DEF CloseSwap, LifeInv, Quiescent, Swapped, SnapshotTaken, TypeOK, CallerType,
      LifeType
<1>11. ASSUME NEW c \in Callers, CloseSnapshot(c) PROVE LifeInv'
  BY <1>11 DEF CloseSnapshot, LifeInv, Quiescent, Swapped, SnapshotTaken, TypeOK,
      CallerType, LifeType
<1>12. ASSUME NEW c \in Callers, CloseAwaited(c) PROVE LifeInv'
  BY <1>12 DEF CloseAwaited, LifeInv, Quiescent, Swapped, SnapshotTaken, TypeOK,
      CallerType, LifeType
<1>13. ASSUME NEW c \in Callers, CloseFinish(c) PROVE LifeInv'
  BY <1>13 DEF CloseFinish, LifeInv, Quiescent, Swapped, SnapshotTaken, TypeOK, CallerType,
      LifeType
<1>14. ASSUME NEW c \in Callers, CloseJoin(c) PROVE LifeInv'
  BY <1>14 DEF CloseJoin, LifeInv, Quiescent, Swapped, SnapshotTaken, TypeOK, CallerType,
      LifeType
<1>15. ASSUME NEW c \in Callers, NEW i \in Ids, DrainSweep(c, i) PROVE LifeInv'
  BY <1>15 DEF DrainSweep, LifeInv, Quiescent, Swapped, SnapshotTaken, TypeOK, CallerType,
      LifeType
<1>16. ASSUME NEW c \in Callers, NEW i \in Ids, CloseSweep(c, i) PROVE LifeInv'
  BY <1>16 DEF CloseSweep, LifeInv, Quiescent, Swapped, SnapshotTaken, TypeOK, CallerType,
      LifeType
<1>17. ASSUME NEW c \in Callers, Wake(c) PROVE LifeInv'
  BY <1>17 DEF Wake, LifeInv, Quiescent, Swapped, SnapshotTaken, TypeOK, CallerType,
      LifeType
<1>18. ASSUME NEW c \in Callers, Timeout(c) PROVE LifeInv'
  BY <1>18 DEF Timeout, LifeInv, Quiescent, Swapped, SnapshotTaken, TypeOK, CallerType,
      LifeType
<1>19. ASSUME NEW i \in Ids, Owner(i) \/ ResourceClosed(i) PROVE LifeInv'
  BY <1>19, <1>2, OwnerFrame DEF ResourceClosed
<1>20. CASE Subscriber
  BY <1>20, <1>2, SubscriberFrame
<1>21. CASE UNCHANGED vars
  BY <1>21, <1>2 DEF vars
<1> QED BY <1>1, <1>2, <1>3, <1>4, <1>5, <1>6, <1>7, <1>8, <1>9, <1>10, <1>11, <1>12,
    <1>13, <1>14, <1>15, <1>16, <1>17, <1>18, <1>19, <1>20, <1>21 DEF Next, Call

\* The sweeps: what is bound or open is in what a sweep has still to do.
LEMMA SweepStep ==
    ASSUME TypeOK, OwnersInv, CloseInv, LifeInv, SweepInv, [Next]_vars
    PROVE  SweepInv'
<1> USE DEF lifeVars, dispatchVars, closeVars, releaseVars, callerVars, barrierVars
<1>1. ASSUME mu = 0, NEW j \in Ids
      PROVE  /\ closeFn'[j] => closeFn[j]
             /\ closeDone'[j] = "open" => closeFn[j] \/ closeDone[j] = "open"
  BY <1>1, ClosesOnlyAdvance
<1>2. ASSUME UNCHANGED <<lifeVars, callerVars>> PROVE SweepInv'
  BY <1>1, <1>2 DEF SweepInv, LifeInv, NothingOpen, SnapshotTaken
<1>3. \A j \in Ids : closeFn[j] \/ closeDone[j] = "open" => j \in scopes
  BY DEF CloseInv, OwnersInv, ScopePCs, TypeOK, CloseType
<1>4. Quiescent => NothingOpen
  BY <1>3 DEF Quiescent, NothingOpen, TypeOK, CloseType
<1>5. ASSUME NEW c \in Callers, WaitPendingStart(c) PROVE SweepInv'
  BY <1>5, <1>1 DEF WaitPendingStart, SweepInv, LifeInv, NothingOpen, SnapshotTaken,
      TypeOK, CallerType, CloseType
<1>6. ASSUME NEW c \in Callers, WaitPendingCheck(c) PROVE SweepInv'
  BY <1>6, <1>1 DEF WaitPendingCheck, SweepInv, LifeInv, NothingOpen, SnapshotTaken,
      TypeOK, CallerType, CloseType
<1>7. ASSUME NEW c \in Callers, DrainSwap(c) PROVE SweepInv'
  BY <1>7, <1>1 DEF DrainSwap, SweepInv, LifeInv, NothingOpen, SnapshotTaken, TypeOK,
      CallerType, CloseType
<1>8. ASSUME NEW c \in Callers, DrainSnapshot(c) PROVE SweepInv'
  BY <1>8, <1>1, <1>3 DEF DrainSnapshot, SweepInv, LifeInv, NothingOpen, SnapshotTaken,
      TypeOK, CallerType, CloseType
<1>9. ASSUME NEW c \in Callers, DrainSwept(c) PROVE SweepInv'
  BY <1>9, <1>1 DEF DrainSwept, SweepInv, LifeInv, NothingOpen, SnapshotTaken, TypeOK,
      CallerType, CloseType
<1>10. ASSUME NEW c \in Callers, DrainCheck(c) PROVE SweepInv'
  BY <1>10, <1>1 DEF DrainCheck, SweepInv, LifeInv, NothingOpen, SnapshotTaken, TypeOK,
      CallerType, CloseType
<1>11. ASSUME NEW c \in Callers, CloseStart(c) PROVE SweepInv'
  BY <1>11, <1>1, <1>4 DEF CloseStart, SweepInv, LifeInv, NothingOpen, SnapshotTaken,
      TypeOK, CallerType, CloseType
<1>12. ASSUME NEW c \in Callers, CloseSwap(c) PROVE SweepInv'
  BY <1>12, <1>1 DEF CloseSwap, SweepInv, LifeInv, NothingOpen, SnapshotTaken, TypeOK,
      CallerType, CloseType
<1>13. ASSUME NEW c \in Callers, CloseSnapshot(c) PROVE SweepInv'
  BY <1>13, <1>1, <1>3 DEF CloseSnapshot, SweepInv, LifeInv, NothingOpen, SnapshotTaken,
      TypeOK, CallerType, CloseType
<1>14. ASSUME NEW c \in Callers, CloseAwaited(c) PROVE SweepInv'
  BY <1>14, <1>1 DEF CloseAwaited, SweepInv, LifeInv, NothingOpen, SnapshotTaken, TypeOK,
      CallerType, CloseType, boundResourceClosed
<1>15. ASSUME NEW c \in Callers, CloseFinish(c) PROVE SweepInv'
  BY <1>15, <1>1 DEF CloseFinish, SweepInv, LifeInv, NothingOpen, SnapshotTaken, TypeOK,
      CallerType, CloseType
<1>16. ASSUME NEW c \in Callers, CloseJoin(c) PROVE SweepInv'
  BY <1>16, <1>1 DEF CloseJoin, SweepInv, LifeInv, NothingOpen, SnapshotTaken, TypeOK,
      CallerType, CloseType
<1>17. ASSUME NEW c \in Callers, NEW i \in Ids, DrainSweep(c, i) PROVE SweepInv'
  <2>1. mu = 0
    BY <1>17 DEF DrainSweep, LifeInv, SnapshotTaken
  <2>2. ~closeFn'[i]
    BY <1>17 DEF DrainSweep, startBoundResourceClose, CloseInv, TypeOK, CloseType
  <2> QED
    BY <1>17, <1>1, <2>1, <2>2 DEF DrainSweep, SweepInv, LifeInv, NothingOpen,
        SnapshotTaken, TypeOK, CallerType, CloseType
<1>18. ASSUME NEW c \in Callers, NEW i \in Ids, CloseSweep(c, i) PROVE SweepInv'
  <2>1. mu = 0
    BY <1>18 DEF CloseSweep, LifeInv, SnapshotTaken
  <2>2. ~closeFn'[i]
    BY <1>18 DEF CloseSweep, startBoundResourceClose, CloseInv, TypeOK, CloseType
  <2> QED
    BY <1>18, <1>1, <2>1, <2>2 DEF CloseSweep, SweepInv, LifeInv, NothingOpen,
        SnapshotTaken, TypeOK, CallerType, CloseType
<1>19. ASSUME NEW c \in Callers, Wake(c) PROVE SweepInv'
  BY <1>19, <1>1 DEF Wake, SweepInv, LifeInv, NothingOpen, SnapshotTaken, TypeOK,
      CallerType, CloseType
<1>20. ASSUME NEW c \in Callers, Timeout(c) PROVE SweepInv'
  BY <1>20, <1>1 DEF Timeout, SweepInv, LifeInv, NothingOpen, SnapshotTaken, TypeOK,
      CallerType, CloseType
<1>21. ASSUME NEW i \in Ids, Owner(i) \/ ResourceClosed(i) PROVE SweepInv'
  BY <1>21, <1>2, OwnerFrame DEF ResourceClosed
<1>22. CASE Subscriber
  BY <1>22, <1>2, SubscriberFrame
<1>23. CASE UNCHANGED vars
  BY <1>23, <1>2 DEF vars
<1> QED BY <1>1, <1>2, <1>3, <1>4, <1>5, <1>6, <1>7, <1>8, <1>9, <1>10, <1>11, <1>12,
    <1>13, <1>14, <1>15, <1>16, <1>17, <1>18, <1>19, <1>20, <1>21, <1>22, <1>23 DEF Next,
    Call

\* A published barrier covers what began before it, and a snapshot hides nothing.
LEMMA BarrierStep == ASSUME TypeOK, OwnersInv, BarrierAll, [Next]_vars PROVE BarrierAll'
<1> USE MaxDispatchAssumption, MaxBarrierAssumption DEF lifeVars, dispatchVars, closeVars,
        releaseVars, callerVars, barrierVars
<1>1. ASSUME NEW i \in Ids, BeginCheck(i) PROVE BarrierAll'
  BY <1>1 DEF BeginCheck, BarrierAll, BarrierInv, BarrierCoversPending,
      FreezeNamesUnreleased, OwnersInv, LockedPCs, ScopePCs, TypeOK, DispatchType,
      BarrierType, OwnerPCs
<1>2. ASSUME NEW i \in Ids, BeginReserve(i) PROVE BarrierAll'
  BY <1>2 DEF BeginReserve, BarrierAll, BarrierInv, BarrierCoversPending,
      FreezeNamesUnreleased, OwnersInv, LockedPCs, ScopePCs, TypeOK, DispatchType,
      BarrierType, OwnerPCs
<1>3. ASSUME NEW i \in Ids, PendingEnd(i) PROVE BarrierAll'
  BY <1>3 DEF PendingEnd, signalLocked, BarrierAll, BarrierInv, BarrierCoversPending,
      FreezeNamesUnreleased, OwnersInv, LockedPCs, ScopePCs, TypeOK, DispatchType,
      BarrierType, OwnerPCs
<1>4. ASSUME NEW i \in Ids, InstallRefused(i) PROVE BarrierAll'
  BY <1>4 DEF InstallRefused, signalLocked, BarrierAll, BarrierInv, BarrierCoversPending,
      FreezeNamesUnreleased, OwnersInv, LockedPCs, ScopePCs, TypeOK, DispatchType,
      BarrierType, OwnerPCs
<1>5. ASSUME NEW i \in Ids, InstallCheck(i) PROVE BarrierAll'
  BY <1>5 DEF InstallCheck, BarrierAll, BarrierInv, BarrierCoversPending,
      FreezeNamesUnreleased, OwnersInv, LockedPCs, ScopePCs, TypeOK, DispatchType,
      BarrierType, OwnerPCs
<1>6. ASSUME NEW i \in Ids, NEW g \in Groups \cup {Unaccounted}, InstallCommit(i, g)
      PROVE  BarrierAll'
  BY <1>6 DEF InstallCommit, signalLocked, BarrierAll, BarrierInv, BarrierCoversPending,
      FreezeNamesUnreleased, OwnersInv, LockedPCs, ScopePCs, TypeOK, DispatchType,
      BarrierType, OwnerPCs
<1>7. ASSUME NEW i \in Ids, BindCheck(i) PROVE BarrierAll'
  BY <1>7 DEF BindCheck, BarrierAll, BarrierInv, BarrierCoversPending,
      FreezeNamesUnreleased, OwnersInv, LockedPCs, ScopePCs, TypeOK, DispatchType,
      BarrierType, OwnerPCs
<1>8. ASSUME NEW i \in Ids, BindCommit(i) PROVE BarrierAll'
  BY <1>8 DEF BindCommit, BarrierAll, BarrierInv, BarrierCoversPending,
      FreezeNamesUnreleased, OwnersInv, LockedPCs, ScopePCs, TypeOK, DispatchType,
      BarrierType, OwnerPCs
<1>9. ASSUME NEW i \in Ids, EndDeactivate(i) PROVE BarrierAll'
  BY <1>9 DEF EndDeactivate, BarrierAll, BarrierInv, BarrierCoversPending,
      FreezeNamesUnreleased, OwnersInv, LockedPCs, ScopePCs, TypeOK, DispatchType,
      BarrierType, OwnerPCs
<1>10. ASSUME NEW i \in Ids, EndStartClose(i) PROVE BarrierAll'
  BY <1>10 DEF EndStartClose, startBoundResourceClose, BarrierAll, BarrierInv,
      BarrierCoversPending, FreezeNamesUnreleased, OwnersInv, LockedPCs, ScopePCs, TypeOK,
      DispatchType, BarrierType, OwnerPCs
<1>11. ASSUME NEW i \in Ids, EndMark(i) PROVE BarrierAll'
  BY <1>11 DEF EndMark, BarrierAll, BarrierInv, BarrierCoversPending,
      FreezeNamesUnreleased, OwnersInv, LockedPCs, ScopePCs, TypeOK, DispatchType,
      BarrierType, OwnerPCs
<1>12. ASSUME NEW i \in Ids, EndDeliver(i) PROVE BarrierAll'
  BY <1>12 DEF EndDeliver, BarrierAll, BarrierInv, BarrierCoversPending,
      FreezeNamesUnreleased, OwnersInv, LockedPCs, ScopePCs, TypeOK, DispatchType,
      BarrierType, OwnerPCs
<1>13. ASSUME NEW i \in Ids, EndDelete(i) PROVE BarrierAll'
  BY <1>13 DEF EndDelete, signalLocked, BarrierAll, BarrierInv, BarrierCoversPending,
      FreezeNamesUnreleased, OwnersInv, LockedPCs, ScopePCs, TypeOK, DispatchType,
      BarrierType, OwnerPCs
<1>14. ASSUME NEW i \in Ids, ResourceClosed(i) PROVE BarrierAll'
  BY <1>14 DEF ResourceClosed, BarrierAll, BarrierInv, BarrierCoversPending,
     FreezeNamesUnreleased
<1>15. ASSUME NEW c \in Callers, Call(c) PROVE BarrierAll'
  BY <1>15, CallFrame DEF BarrierAll, BarrierInv, BarrierCoversPending, FreezeNamesUnreleased
<1>16. ASSUME NEW s \in Sinks \cup {NoSink}, SetReleaseSink(s) PROVE BarrierAll'
  BY <1>16 DEF SetReleaseSink, BarrierAll, BarrierInv, BarrierCoversPending,
      FreezeNamesUnreleased, OwnersInv, LockedPCs, ScopePCs, TypeOK, DispatchType,
      BarrierType, OwnerPCs
<1>17. ASSUME NEW r \in replay, ReplayRelease(r) PROVE BarrierAll'
  BY <1>17 DEF ReplayRelease, BarrierAll, BarrierInv, BarrierCoversPending,
      FreezeNamesUnreleased, OwnersInv, LockedPCs, ScopePCs, TypeOK, DispatchType,
      BarrierType, OwnerPCs
<1>18. ASSUME NEW b \in 1..MaxBarrier, ObserveBarrier(b) PROVE BarrierAll'
  BY <1>18 DEF ObserveBarrier, BarrierAll, BarrierInv, BarrierCoversPending,
      FreezeNamesUnreleased, OwnersInv, LockedPCs, ScopePCs, TypeOK, DispatchType,
      BarrierType, OwnerPCs
<1>19. ASSUME FreezeInFlight PROVE BarrierAll'
  BY <1>19 DEF FreezeInFlight, BarrierAll, BarrierInv, BarrierCoversPending,
      FreezeNamesUnreleased, OwnersInv, LockedPCs, ScopePCs, TypeOK, DispatchType,
      BarrierType, OwnerPCs
<1>20. CASE UNCHANGED vars
  BY <1>20 DEF vars, BarrierAll, BarrierInv, BarrierCoversPending, FreezeNamesUnreleased
<1> QED
  BY <1>1, <1>2, <1>3, <1>4, <1>5, <1>6, <1>7, <1>8, <1>9, <1>10, <1>11, <1>12, <1>13,
      <1>14, <1>15, <1>16, <1>17, <1>18, <1>19, <1>20 DEF Next, Owner, Subscriber

\* No release falls between the old sink and the new one.
LEMMA SinkStep == ASSUME TypeOK, OwnersInv, SinkHearsLatest, [Next]_vars PROVE SinkHearsLatest'
<1> USE MaxDispatchAssumption, MaxBarrierAssumption DEF lifeVars, dispatchVars, closeVars,
        releaseVars, callerVars, barrierVars
<1>1. ASSUME NEW i \in Ids, BeginCheck(i) PROVE SinkHearsLatest'
  <2>1. pc[i] = "unborn"
    BY <1>1 DEF BeginCheck, OwnersInv, LockedPCs, TypeOK, DispatchType
  <2> QED
    BY <1>1, <2>1 DEF BeginCheck, SinkHearsLatest, SinkHears, TypeOK, DispatchType, ReleaseType
<1>2. ASSUME NEW i \in Ids, BeginReserve(i) PROVE SinkHearsLatest'
  BY <1>2 DEF BeginReserve, SinkHearsLatest, SinkHears, TypeOK, DispatchType, ReleaseType
<1>3. ASSUME NEW i \in Ids, PendingEnd(i) PROVE SinkHearsLatest'
  BY <1>3 DEF PendingEnd, signalLocked, SinkHearsLatest, SinkHears, TypeOK, DispatchType,
      ReleaseType
<1>4. ASSUME NEW i \in Ids, InstallRefused(i) PROVE SinkHearsLatest'
  BY <1>4 DEF InstallRefused, signalLocked, SinkHearsLatest, SinkHears, TypeOK,
      DispatchType, ReleaseType
<1>5. ASSUME NEW i \in Ids, InstallCheck(i) PROVE SinkHearsLatest'
  BY <1>5 DEF InstallCheck, SinkHearsLatest, SinkHears, TypeOK, DispatchType, ReleaseType
<1>6. ASSUME NEW i \in Ids, NEW g \in Groups \cup {Unaccounted}, InstallCommit(i, g)
      PROVE  SinkHearsLatest'
  BY <1>6 DEF InstallCommit, signalLocked, SinkHearsLatest, SinkHears, TypeOK,
      DispatchType, ReleaseType
<1>7. ASSUME NEW i \in Ids, BindCheck(i) PROVE SinkHearsLatest'
  BY <1>7 DEF BindCheck, SinkHearsLatest, SinkHears, TypeOK, DispatchType, ReleaseType
<1>8. ASSUME NEW i \in Ids, BindCommit(i) PROVE SinkHearsLatest'
  BY <1>8 DEF BindCommit, SinkHearsLatest, SinkHears, TypeOK, DispatchType, ReleaseType
<1>9. ASSUME NEW i \in Ids, EndDeactivate(i) PROVE SinkHearsLatest'
  BY <1>9 DEF EndDeactivate, SinkHearsLatest, SinkHears, TypeOK, DispatchType, ReleaseType
<1>10. ASSUME NEW i \in Ids, EndStartClose(i) PROVE SinkHearsLatest'
  BY <1>10 DEF EndStartClose, startBoundResourceClose, SinkHearsLatest, SinkHears, TypeOK,
      DispatchType, ReleaseType
<1>11. ASSUME NEW i \in Ids, EndMark(i) PROVE SinkHearsLatest'
  <2> SUFFICES ASSUME NEW g \in Groups, sink' # NoSink, releaseSeq'[g] > 0 PROVE SinkHears(g)'
    BY DEF SinkHearsLatest
  <2>1. CASE group[i] = g
    <3>1. releaseSeq'[g] = releaseSeq[g] + 1 /\ call'[i] = <<sink, releaseSeq[g] + 1>>
      BY <1>11, <2>1, UnaccountedAssumption DEF EndMark, TypeOK, ReleaseType, DispatchType
    <3>2. pc'[i] = "marked" /\ group'[i] = g /\ sink' = sink
      BY <1>11, <2>1 DEF EndMark, TypeOK, DispatchType
    <3> QED
      BY <3>1, <3>2 DEF SinkHears
  <2>2. CASE group[i] # g
    <3>1. releaseSeq'[g] = releaseSeq[g] /\ \A j \in Ids \ {i} : call'[j] = call[j] /\ pc'[j] = pc[j]
      BY <1>11, <2>2 DEF EndMark, TypeOK, ReleaseType, DispatchType
    <3>2. UNCHANGED <<sink, told, replay, group>>
      BY <1>11 DEF EndMark
    <3>3. SinkHears(g)
      BY <3>1, <3>2 DEF SinkHearsLatest
    <3> QED
      BY <1>11, <3>1, <3>2, <3>3 DEF SinkHears, EndMark
  <2> QED
    BY <2>1, <2>2
<1>12. ASSUME NEW i \in Ids, EndDeliver(i) PROVE SinkHearsLatest'
  <2> SUFFICES ASSUME NEW g \in Groups, sink' # NoSink, releaseSeq'[g] > 0 PROVE SinkHears(g)'
    BY DEF SinkHearsLatest
  <2>1. UNCHANGED <<sink, releaseSeq, replay, group, call>>
        /\ \A j \in Ids \ {i} : pc'[j] = pc[j]
    BY <1>12 DEF EndDeliver, TypeOK, DispatchType
  <2>2. SinkHears(g)
    BY <2>1 DEF SinkHearsLatest
  <2>3. told \subseteq told'
    BY <1>12 DEF EndDeliver
  <2>4. CASE group[i] = g /\ call[i] = <<sink, releaseSeq[g]>>
    <3>1. <<sink, g, releaseSeq[g]>> \in told'
      BY <1>12, <2>1, <2>4 DEF EndDeliver
    <3> QED
      BY <3>1, <2>1 DEF SinkHears
  <2>5. CASE ~(group[i] = g /\ call[i] = <<sink, releaseSeq[g]>>)
    BY <2>1, <2>2, <2>3, <2>5 DEF SinkHears
  <2> QED
    BY <2>4, <2>5
<1>13. ASSUME NEW i \in Ids, EndDelete(i) PROVE SinkHearsLatest'
  BY <1>13 DEF EndDelete, signalLocked, SinkHearsLatest, SinkHears, TypeOK, DispatchType,
      ReleaseType
<1>14. ASSUME NEW i \in Ids, ResourceClosed(i) PROVE SinkHearsLatest'
  BY <1>14 DEF ResourceClosed, SinkHearsLatest, SinkHears
<1>15. ASSUME NEW c \in Callers, Call(c) PROVE SinkHearsLatest'
  BY <1>15, CallFrame DEF SinkHearsLatest, SinkHears
<1>16. ASSUME NEW s \in Sinks \cup {NoSink}, SetReleaseSink(s) PROVE SinkHearsLatest'
  BY <1>16 DEF SetReleaseSink, SinkHearsLatest, SinkHears, TypeOK, DispatchType,
      ReleaseType
<1>17. ASSUME NEW r \in replay, ReplayRelease(r) PROVE SinkHearsLatest'
  <2> SUFFICES ASSUME NEW g \in Groups, sink' # NoSink, releaseSeq'[g] > 0 PROVE SinkHears(g)'
    BY DEF SinkHearsLatest
  <2>1. UNCHANGED <<sink, releaseSeq, pc, group, call>>
    BY <1>17 DEF ReplayRelease
  <2>2. SinkHears(g)
    BY <2>1 DEF SinkHearsLatest
  <2>3. told \subseteq told' /\ replay' = replay \ {r} /\ <<sink, r[1], r[2]>> \in told'
    BY <1>17 DEF ReplayRelease
  <2>4. CASE r = <<g, releaseSeq[g]>>
    BY <2>1, <2>3, <2>4 DEF SinkHears
  <2>5. CASE r # <<g, releaseSeq[g]>>
    BY <2>1, <2>2, <2>3, <2>5 DEF SinkHears
  <2> QED
    BY <2>4, <2>5
<1>18. ASSUME NEW b \in 1..MaxBarrier, ObserveBarrier(b) PROVE SinkHearsLatest'
  BY <1>18 DEF ObserveBarrier, SinkHearsLatest, SinkHears, TypeOK, DispatchType,
      ReleaseType
<1>19. ASSUME FreezeInFlight PROVE SinkHearsLatest'
  BY <1>19 DEF FreezeInFlight, SinkHearsLatest, SinkHears, TypeOK, DispatchType,
      ReleaseType
<1>20. CASE UNCHANGED vars
  BY <1>20 DEF vars, SinkHearsLatest, SinkHears
<1> QED
  BY <1>1, <1>2, <1>3, <1>4, <1>5, <1>6, <1>7, <1>8, <1>9, <1>10, <1>11, <1>12, <1>13,
      <1>14, <1>15, <1>16, <1>17, <1>18, <1>19, <1>20 DEF Next, Owner, Subscriber

\* A step that gives no scope a sequence changes no count.
LEMMA CountFrame ==
    ASSUME SequenceCountsReleases, UNCHANGED releaseSeq,
           \A g \in Groups : Released(g)' = Released(g)
    PROVE  SequenceCountsReleases'
  BY DEF SequenceCountsReleases

\* Exactly one sequence number for each ended accounted scope.
LEMMA CountStep ==
    ASSUME TypeOK, OwnersInv, SequenceCountsReleases, [Next]_vars
    PROVE  SequenceCountsReleases'
<1> USE MaxDispatchAssumption, MaxBarrierAssumption DEF lifeVars, dispatchVars, closeVars,
        releaseVars, callerVars, barrierVars
<1>1. ASSUME NEW i \in Ids, BeginCheck(i) PROVE SequenceCountsReleases'
  <2>1. pc[i] = "unborn"
    BY <1>1 DEF BeginCheck, OwnersInv, LockedPCs, TypeOK, DispatchType
  <2>2. UNCHANGED releaseSeq /\ \A h \in Groups : Released(h)' = Released(h)
    BY <1>1, <2>1 DEF BeginCheck, Released, ReleasedPCs, TypeOK, DispatchType
  <2> QED
    BY <2>2, CountFrame
<1>2. ASSUME NEW i \in Ids, BeginReserve(i) PROVE SequenceCountsReleases'
  <2>1. UNCHANGED releaseSeq /\ \A h \in Groups : Released(h)' = Released(h)
    BY <1>2 DEF BeginReserve, Released, ReleasedPCs, TypeOK, DispatchType
  <2> QED
    BY <2>1, CountFrame
<1>3. ASSUME NEW i \in Ids, PendingEnd(i) PROVE SequenceCountsReleases'
  <2>1. UNCHANGED releaseSeq /\ \A h \in Groups : Released(h)' = Released(h)
    BY <1>3 DEF PendingEnd, Released, ReleasedPCs, TypeOK, DispatchType
  <2> QED
    BY <2>1, CountFrame
<1>4. ASSUME NEW i \in Ids, InstallRefused(i) PROVE SequenceCountsReleases'
  <2>1. UNCHANGED releaseSeq /\ \A h \in Groups : Released(h)' = Released(h)
    BY <1>4 DEF InstallRefused, Released, ReleasedPCs, TypeOK, DispatchType
  <2> QED
    BY <2>1, CountFrame
<1>5. ASSUME NEW i \in Ids, InstallCheck(i) PROVE SequenceCountsReleases'
  <2>1. UNCHANGED releaseSeq /\ \A h \in Groups : Released(h)' = Released(h)
    BY <1>5 DEF InstallCheck, Released, ReleasedPCs, TypeOK, DispatchType
  <2> QED
    BY <2>1, CountFrame
<1>6. ASSUME NEW i \in Ids, NEW g \in Groups \cup {Unaccounted}, InstallCommit(i, g)
      PROVE  SequenceCountsReleases'
  <2>1. UNCHANGED releaseSeq /\ \A h \in Groups : Released(h)' = Released(h)
    BY <1>6 DEF InstallCommit, Released, ReleasedPCs, TypeOK, DispatchType
  <2> QED
    BY <2>1, CountFrame
<1>7. ASSUME NEW i \in Ids, BindCheck(i) PROVE SequenceCountsReleases'
  <2>1. UNCHANGED releaseSeq /\ \A h \in Groups : Released(h)' = Released(h)
    BY <1>7 DEF BindCheck, Released, ReleasedPCs, TypeOK, DispatchType
  <2> QED
    BY <2>1, CountFrame
<1>8. ASSUME NEW i \in Ids, BindCommit(i) PROVE SequenceCountsReleases'
  <2>1. UNCHANGED releaseSeq /\ \A h \in Groups : Released(h)' = Released(h)
    BY <1>8 DEF BindCommit, Released, ReleasedPCs, TypeOK, DispatchType
  <2> QED
    BY <2>1, CountFrame
<1>9. ASSUME NEW i \in Ids, EndDeactivate(i) PROVE SequenceCountsReleases'
  <2>1. UNCHANGED releaseSeq /\ \A h \in Groups : Released(h)' = Released(h)
    BY <1>9 DEF EndDeactivate, Released, ReleasedPCs, TypeOK, DispatchType
  <2> QED
    BY <2>1, CountFrame
<1>10. ASSUME NEW i \in Ids, EndStartClose(i) PROVE SequenceCountsReleases'
  <2>1. UNCHANGED releaseSeq /\ \A h \in Groups : Released(h)' = Released(h)
    BY <1>10 DEF EndStartClose, Released, ReleasedPCs, TypeOK, DispatchType
  <2> QED
    BY <2>1, CountFrame
<1>11. ASSUME NEW i \in Ids, EndMark(i) PROVE SequenceCountsReleases'
  <2>1. UNCHANGED group /\ pc' = [pc EXCEPT ![i] = "marked"] /\ pc[i] = "closing"
    BY <1>11 DEF EndMark
  <2> SUFFICES ASSUME NEW g \in Groups PROVE releaseSeq'[g] = Cardinality(Released(g)')
    BY DEF SequenceCountsReleases
  <2>2. CASE group[i] = g
    <3>1. Released(g)' = Released(g) \cup {i} /\ i \notin Released(g)
      BY <2>1, <2>2 DEF Released, ReleasedPCs, TypeOK, DispatchType
    <3>2. IsFiniteSet(Released(g))
      <4>1. IsFiniteSet(Ids)
        BY FS_Interval
      <4> QED
        BY <4>1, FS_Subset DEF Released
    <3>3. releaseSeq'[g] = releaseSeq[g] + 1
      BY <1>11, <2>2, UnaccountedAssumption DEF EndMark, TypeOK, ReleaseType
    <3> QED
      BY <3>1, <3>2, <3>3, FS_AddElement DEF SequenceCountsReleases
  <2>3. CASE group[i] # g
    <3>1. Released(g)' = Released(g)
      BY <2>1, <2>3 DEF Released, ReleasedPCs, TypeOK, DispatchType
    <3>2. releaseSeq'[g] = releaseSeq[g]
      BY <1>11, <2>3 DEF EndMark, TypeOK, ReleaseType
    <3> QED
      BY <3>1, <3>2 DEF SequenceCountsReleases
  <2> QED
    BY <2>2, <2>3
<1>12. ASSUME NEW i \in Ids, EndDeliver(i) PROVE SequenceCountsReleases'
  <2>1. UNCHANGED releaseSeq /\ \A h \in Groups : Released(h)' = Released(h)
    BY <1>12 DEF EndDeliver, Released, ReleasedPCs, TypeOK, DispatchType
  <2> QED
    BY <2>1, CountFrame
<1>13. ASSUME NEW i \in Ids, EndDelete(i) PROVE SequenceCountsReleases'
  <2>1. UNCHANGED releaseSeq /\ \A h \in Groups : Released(h)' = Released(h)
    BY <1>13 DEF EndDelete, Released, ReleasedPCs, TypeOK, DispatchType
  <2> QED
    BY <2>1, CountFrame
<1>14. ASSUME NEW i \in Ids, ResourceClosed(i) PROVE SequenceCountsReleases'
  BY <1>14 , CountFrame DEF ResourceClosed, Released
<1>15. ASSUME NEW c \in Callers, Call(c) PROVE SequenceCountsReleases'
  BY <1>15, CallFrame, CountFrame DEF Released
<1>16. ASSUME NEW s \in Sinks \cup {NoSink}, SetReleaseSink(s) PROVE SequenceCountsReleases'
  BY <1>16, CountFrame DEF SetReleaseSink, Released
<1>17. ASSUME NEW r \in replay, ReplayRelease(r) PROVE SequenceCountsReleases'
  BY <1>17, CountFrame DEF ReplayRelease, Released
<1>18. ASSUME NEW b \in 1..MaxBarrier, ObserveBarrier(b) PROVE SequenceCountsReleases'
  BY <1>18, CountFrame DEF ObserveBarrier, Released
<1>19. ASSUME FreezeInFlight PROVE SequenceCountsReleases'
  BY <1>19, CountFrame DEF FreezeInFlight, Released
<1>20. CASE UNCHANGED vars
  BY <1>20 DEF vars, SequenceCountsReleases, Released
<1> QED
  BY <1>1, <1>2, <1>3, <1>4, <1>5, <1>6, <1>7, <1>8, <1>9, <1>10, <1>11, <1>12, <1>13,
      <1>14, <1>15, <1>16, <1>17, <1>18, <1>19, <1>20 DEF Next, Owner, Subscriber

\* All parts of the invariant hold initially ...
LEMMA IndInit == Init => IndInv
<1> SUFFICES ASSUME Init PROVE IndInv
  OBVIOUS
<1>1. TypeOK
  BY TypeInit
<1>2. OwnersInv
  BY DEF Init, OwnersInv, LockedPCs, ScopePCs
<1>3. CloseInv
  BY DEF Init, CloseInv
<1>4. LifeInv /\ SweepInv
  BY DEF Init, LifeInv, SweepInv, Swapped, SnapshotTaken
<1>5. BarrierAll
  BY DEF Init, BarrierAll, BarrierInv, BarrierCoversPending, FreezeNamesUnreleased
<1>6. SinkHearsLatest
  BY DEF Init, SinkHearsLatest
<1>7. SequenceCountsReleases
  <2>1. \A g \in Groups : Released(g) = {} /\ releaseSeq[g] = 0
    BY DEF Init, Released, ReleasedPCs
  <2> QED
    BY <2>1, FS_EmptySet DEF SequenceCountsReleases
<1> QED
  BY <1>1, <1>2, <1>3, <1>4, <1>5, <1>6, <1>7 DEF IndInv

\* ... and are preserved together.
LEMMA IndStep == ASSUME IndInv, [Next]_vars PROVE IndInv'
<1> USE DEF IndInv
<1>1. TypeOK'
  BY TypeStep
<1>2. OwnersInv'
  BY OwnersStep
<1>3. CloseInv'
  BY CloseStep
<1>4. LifeInv'
  BY LifeStep
<1>5. SweepInv'
  BY SweepStep
<1>6. BarrierAll'
  BY BarrierStep
<1>7. SinkHearsLatest'
  BY SinkStep
<1>8. SequenceCountsReleases'
  BY CountStep
<1> QED
  BY <1>1, <1>2, <1>3, <1>4, <1>5, <1>6, <1>7, <1>8

\* The inductive invariant holds in every state.
THEOREM InvariantHolds == Spec => []IndInv
<1>1. IndInv /\ [Next]_vars => IndInv'
  BY IndStep
<1> QED
  BY <1>1, IndInit, PTL DEF Spec

\* Every variable of the registry keeps its type (registry.go, the structs).
THEOREM TypeCorrect == Spec => []TypeOK
<1>1. IndInv => TypeOK
  BY DEF IndInv
<1> QED
  BY <1>1, InvariantHolds, PTL

\* A Drain or Close that has gone through its snapshot has missed no bound
\* resource, although the state word is swapped outside the mutex.
THEOREM SweepCorrect == Spec => []SweepMissesNothing
<1>1. IndInv => SweepMissesNothing
  BY DEF IndInv, SweepInv, SweepMissesNothing, Swept, NothingOpen
<1> QED
  BY <1>1, InvariantHolds, PTL

\* When Drain returns nil the registry is empty, closed, and every resource
\* ever bound has been closed.
THEOREM DrainCorrect == Spec => []DrainedIsQuiescent
<1>1. IndInv => DrainedIsQuiescent
  <2> SUFFICES ASSUME IndInv, NEW c \in Callers, caller[c] = "drain.ok", NEW i \in Ids
               PROVE /\ state = "Closed" /\ pending = {} /\ scopes = {}
                     /\ pc[i] \in {"unborn", "ended", "dropped"}
                     /\ ~closeFn[i] /\ closeDone[i] # "open"
    BY DEF DrainedIsQuiescent, IndInv, LifeInv, Quiescent
  <2>1. state = "Closed" /\ mu = 0 /\ pending = {} /\ scopes = {}
    BY DEF IndInv, LifeInv, Quiescent
  <2>2. pc[i] \in {"unborn", "ended", "dropped"}
    BY <2>1 DEF IndInv, OwnersInv, LockedPCs, ScopePCs, TypeOK, DispatchType, OwnerPCs
  <2> QED
    BY <2>1, <2>2 DEF IndInv, CloseInv
<1> QED
  BY <1>1, InvariantHolds, PTL

\* When Close returns, to its first caller or to one that joined it, every
\* bound resource has been closed.
THEOREM CloseCorrect == Spec => []CloseReturnsClosed
<1>1. IndInv => CloseReturnsClosed
  BY DEF IndInv, SweepInv, CloseReturnsClosed, NothingOpen
<1> QED
  BY <1>1, InvariantHolds, PTL

\* A release is numbered only after the resource of its scope was closed.
THEOREM ReleaseOrder == Spec => []ReleaseFollowsClose
<1>1. IndInv => ReleaseFollowsClose
  BY DEF IndInv, CloseInv, ReleaseFollowsClose, ReleasedPCs
<1> QED
  BY <1>1, InvariantHolds, PTL

\* The cumulative sequence of a group counts its ended accounted executions.
THEOREM SequenceCorrect == Spec => []SequenceCountsReleases
<1>1. IndInv => SequenceCountsReleases
  BY DEF IndInv
<1> QED
  BY <1>1, InvariantHolds, PTL

\* No release is lost when the sink is replaced while scopes end.
THEOREM SinkCorrect == Spec => []SinkHearsLatest
<1>1. IndInv => SinkHearsLatest
  BY DEF IndInv
<1> QED
  BY <1>1, InvariantHolds, PTL

\* A published barrier covers every dispatch that began before it, and the
\* snapshot that carries it names every one of them not yet released.
THEOREM BarrierCorrect == Spec => [](BarrierCoversPending /\ FreezeNamesUnreleased)
<1>1. IndInv => BarrierCoversPending /\ FreezeNamesUnreleased
  BY DEF IndInv, BarrierAll
<1> QED
  BY <1>1, InvariantHolds, PTL

\* Nothing is admitted after the snapshot of a Drain or a Close.
THEOREM NoLateAdmission == Spec => NoAdmissionAfterSnapshot
<1>1. IndInv /\ [Next]_vars =>
      [(\E c \in Callers : caller[c] \in SnapshotTaken)
          => pending' \subseteq pending /\ scopes' \subseteq scopes]_vars
  <2> SUFFICES ASSUME IndInv, [Next]_vars, NEW c \in Callers, caller[c] \in SnapshotTaken
               PROVE pending' \subseteq pending /\ scopes' \subseteq scopes
    OBVIOUS
  <2>1. mu = 0 /\ state # "Accepting"
    BY DEF IndInv, LifeInv, Swapped
  <2> QED
    BY <2>1, ShutStaysShut DEF IndInv
<1> QED
  BY <1>1, InvariantHolds, PTL DEF Spec, NoAdmissionAfterSnapshot

\* All of the registry's safety at once.
THEOREM RegistryCorrect == Spec => []RegistryInv
<1>1. TypeOK /\ CloseReturnsClosed /\ ReleaseFollowsClose /\ SequenceCountsReleases
        /\ SinkHearsLatest /\ FreezeNamesUnreleased
      => RegistryInv
  BY DEF RegistryInv
<1> QED
  BY <1>1, TypeCorrect, CloseCorrect, ReleaseOrder, SequenceCorrect, SinkCorrect,
     BarrierCorrect, PTL

HIDE DEF Ids

(***************************************************************************)
(* HomeLifetime: the inductive invariant, part by part.                    *)
(***************************************************************************)
Installed == ScopePCs \cup {"ended"}

\* The values of the variables HomeLifetime adds.
RequestType ==
    /\ sup \in {"new", "serving", "closing", "settling", "unsafe", "recovered",
                "draining", "flushing", "done", "deferred"}
    /\ lifetime \in Lifetimes /\ bundle \in 0..MaxLifetime
    /\ via \in [Ids -> 0..MaxLifetime]
    /\ rpc \in [Ids -> {"idle", "failed", "issued", "granted", "replied", "lost",
                        "ambiguous", "rejected"}]
    /\ fenced \in [Lifetimes -> BOOLEAN] /\ ambiguous \in [Lifetimes -> BOOLEAN]
    /\ grants \subseteq Ids \X (Groups \cup {Unaccounted})
    /\ recorded \in [Groups -> Nat]

\* What the supervisor's place says of the registry it serves.
SupInv ==
    /\ sup \in {"closing", "settling"} => lifetime < MaxLifetime
    /\ sup \in {"settling", "unsafe"} => fenced[lifetime]
    /\ bundle \in {0, lifetime}
    /\ bundle # 0 => sup = "serving"
    /\ sup \in {"new", "serving", "closing", "settling"} => state = "Accepting"
    /\ sup \in {"recovered", "flushing", "done"} => caller[DrainCall] = "drain.ok"
    /\ sup = "new" => (\A i \in Ids : via[i] = 0) /\ (\A g \in Groups : releaseSeq[g] = 0)
    /\ sup \in {"serving", "closing", "settling", "draining", "flushing"} => sink \in Sinks
    /\ replay = {}

\* How far a request's RPOP is when its token or scope is where it is.
ProgressInv ==
    \A i \in Ids :
        /\ via[i] <= lifetime
        /\ via[i] = 0 => pc[i] = "unborn"
        /\ pc[i] \in {"unborn", "beginning"} => rpc[i] = "idle"
        /\ rpc[i] \in {"issued", "granted"} => pc[i] = "pending"
        /\ rpc[i] = "rejected" => pc[i] = "dropped" /\ state # "Accepting"
        /\ pc[i] = "installing" => rpc[i] = "replied"
        /\ pc[i] \in Installed => rpc[i] \in {"replied", "ambiguous"}
        /\ rpc[i] \in {"lost", "ambiguous"} => ambiguous[via[i]]

\* Home granted a request one group at most, and a scope has that group.
GrantOf(i) ==
    /\ \A g \in Groups \cup {Unaccounted} :
          <<i, g>> \in grants => rpc[i] \in {"granted", "replied", "ambiguous", "rejected"}
    /\ \A g, h \in Groups \cup {Unaccounted} :
          <<i, g>> \in grants /\ <<i, h>> \in grants => g = h
    /\ pc[i] \in Installed => <<i, group[i]>> \in grants
    /\ rpc[i] = "replied" /\ pc[i] = "dropped" => <<i, Unaccounted>> \in grants
    /\ group[i] # Unaccounted => pc[i] \in Installed

GrantInv == \A i \in Ids : GrantOf(i)

\* A request of an earlier lifetime was never sent, or what it was granted was
\* installed or was not accounted.
Settled(i) ==
    \/ rpc[i] \in {"idle", "failed"}
    \/ pc[i] \in Installed
    \/ rpc[i] = "replied" /\ pc[i] = "dropped"

\* The fence keeps a wait for the tokens true: what begins after it is not sent.
Unsent(i) == pc[i] \in {"pending", "installing"} => rpc[i] \in {"idle", "failed"}

WaitedInv ==
    \A l \in 1..(MaxLifetime - 1) : caller[l] = "pending.ok" =>
        /\ fenced[l]
        /\ \A i \in Ids : via[i] = l => Unsent(i)

\* ... and the requests of the lifetimes that were taken over are settled.
PastInv ==
    \A i \in Ids : via[i] # 0 /\ via[i] < lifetime => fenced[via[i]] /\ Settled(i)

FenceInv == WaitedInv /\ PastInv

\* No sink is told, and Home records, no sequence the registry has not reached.
ToldInv ==
    /\ \A t \in told : t[2] \in Groups => t[3] <= releaseSeq[t[2]]
    /\ \A i \in Ids : pc[i] = "marked" /\ group[i] \in Groups
          => call[i][2] <= releaseSeq[group[i]]

RecordInv ==
    /\ \A g \in Groups : recorded[g] <= releaseSeq[g]
    /\ sup = "done" => \A g \in Groups : recorded[g] = releaseSeq[g]

LifetimeInd == /\ RequestType /\ SupInv /\ ProgressInv /\ GrantInv
               /\ FenceInv /\ ToldInv /\ RecordInv

(***************************************************************************)
(* What the registry's actions do, as far as a lifetime is concerned.      *)
(***************************************************************************)
\* A running scope only goes on towards its end.
LEMMA ExecuteFrame ==
    ASSUME TypeOK, NEW i \in Ids, Execute(i)
    PROVE  /\ UNCHANGED <<lifetimeVars, lifeVars, callerVars, sink, replay, group>>
           /\ pc' = [pc EXCEPT ![i] = pc'[i]]
           /\ pc'[i] = pc[i] \/ (pc[i] \in ScopePCs /\ pc'[i] \in Installed)
           /\ pc[i] = "closing" \/ UNCHANGED <<releaseSeq, call>>
<1> USE DEF TypeOK, DispatchType, lifeVars, callerVars, dispatchVars, closeVars, releaseVars,
            ScopePCs, Installed
<1>0. UNCHANGED lifetimeVars
  BY DEF Execute
<1>1. CASE BindCheck(i)
  BY <1>0, <1>1 DEF BindCheck
<1>2. CASE BindCommit(i)
  BY <1>0, <1>2 DEF BindCommit
<1>3. CASE ResourceClosed(i)
  BY <1>0, <1>3 DEF ResourceClosed
<1>4. CASE EndDeactivate(i)
  BY <1>0, <1>4 DEF EndDeactivate
<1>5. CASE EndStartClose(i)
  BY <1>0, <1>5 DEF EndStartClose
<1>6. CASE EndMark(i)
  BY <1>0, <1>6 DEF EndMark
<1>7. CASE EndDeliver(i)
  BY <1>0, <1>7 DEF EndDeliver
<1>8. CASE EndDelete(i)
  BY <1>0, <1>8 DEF EndDelete
<1> QED
  BY <1>1, <1>2, <1>3, <1>4, <1>5, <1>6, <1>7, <1>8 DEF Execute

\* The calls of the supervisor are calls of the registry by a known caller.
LEMMA SupervisorCalling ==
    ASSUME RequestType, SupInv, SettleCall \/ SupervisorDrains
    PROVE  /\ UNCHANGED lifetimeVars
           /\ \E c \in Callers : Call(c)
<1> USE CallersAssumption, MaxLifetimeAssumption
        DEF RequestType, SupInv, Lifetimes, DrainCall, DeferredDrain
<1>1. CASE SettleCall
  <2>1. lifetime \in Callers
    BY <1>1 DEF SettleCall
  <2> QED
    BY <1>1, <2>1 DEF SettleCall, Call
<1>2. ASSUME NEW c \in {DrainCall, DeferredDrain}, DrainBy(c)
      PROVE  UNCHANGED lifetimeVars /\ \E d \in Callers : Call(d)
  <2>1. c \in Callers
    OBVIOUS
  <2> QED
    BY <1>2, <2>1 DEF DrainBy, Call
<1> QED
  BY <1>1, <1>2 DEF SupervisorDrains

\* ... and what they do to the state word and to each other.
LEMMA CallOutcome ==
    ASSUME TypeOK, NEW c \in Callers, Call(c)
    PROVE  /\ \A d \in Callers : d # c => caller'[d] = caller[d]
           /\ caller'[c] = "pending.ok" => pending = {}
           /\ state # "Accepting" => state' # "Accepting"
<1> DEFINE Goal == /\ \A d \in Callers : d # c => caller'[d] = caller[d]
                   /\ caller'[c] = "pending.ok" => pending = {}
                   /\ state # "Accepting" => state' # "Accepting"
<1> USE DEF TypeOK, CallerType, lifeVars, dispatchVars, closeVars, releaseVars
<1>1. CASE WaitPendingStart(c)
  BY <1>1 DEF WaitPendingStart
<1>2. CASE WaitPendingCheck(c)
  BY <1>2 DEF WaitPendingCheck
<1>3. CASE DrainSwap(c)
  BY <1>3 DEF DrainSwap
<1>4. CASE DrainSnapshot(c)
  BY <1>4 DEF DrainSnapshot
<1>5. CASE DrainSwept(c)
  BY <1>5 DEF DrainSwept
<1>6. CASE DrainCheck(c)
  BY <1>6 DEF DrainCheck
<1>7. CASE CloseStart(c)
  BY <1>7 DEF CloseStart
<1>8. CASE CloseSwap(c)
  BY <1>8 DEF CloseSwap
<1>9. CASE CloseSnapshot(c)
  BY <1>9 DEF CloseSnapshot
<1>10. CASE CloseAwaited(c)
  BY <1>10 DEF CloseAwaited
<1>11. CASE CloseFinish(c)
  BY <1>11 DEF CloseFinish
<1>12. CASE CloseJoin(c)
  BY <1>12 DEF CloseJoin
<1>13. ASSUME NEW i \in Ids, DrainSweep(c, i) PROVE Goal
  BY <1>13 DEF DrainSweep
<1>14. ASSUME NEW i \in Ids, CloseSweep(c, i) PROVE Goal
  BY <1>14 DEF CloseSweep
<1>15. CASE Wake(c)
  BY <1>15 DEF Wake
<1>16. CASE Timeout(c)
  BY <1>16 DEF Timeout
<1> QED
  BY <1>1, <1>2, <1>3, <1>4, <1>5, <1>6, <1>7, <1>8, <1>9, <1>10, <1>11, <1>12, <1>13,
     <1>14, <1>15, <1>16 DEF Call

(***************************************************************************)
(* Every step of a lifetime is a step of the registry or leaves it alone.  *)
(***************************************************************************)
LEMMA RegistryStep ==
    ASSUME RequestType, SupInv, [LifetimeNext]_allVars
    PROVE  [Next]_vars
<1>1. ASSUME NEW i \in Ids, Request(i) PROVE [Next]_vars
  <2>1. Begin(i) => Owner(i)
    BY DEF Begin, Owner
  <2>2. EndToken(i) \/ InstallGrant(i) \/ InstallRejected(i) => Owner(i)
    BY DEF EndToken, InstallGrant, InstallRejected, Owner
  <2>3. Execute(i) => Owner(i) \/ ResourceClosed(i)
    BY DEF Execute, Owner
  <2>4. ReadBundle(i) \/ IssueRPop(i) \/ RPopReplied(i) \/ RPopAmbiguous(i)
          \/ AbortInstalled(i) \/ AbortRejected(i) => UNCHANGED vars
    BY DEF ReadBundle, IssueRPop, RPopReplied, RPopAmbiguous, AbortInstalled, AbortRejected
  <2>5. ASSUME NEW g \in Groups \cup {Unaccounted}, HomeGrants(i, g) PROVE UNCHANGED vars
    BY <2>5 DEF HomeGrants
  <2> QED
    BY <1>1, <2>1, <2>2, <2>3, <2>4, <2>5 DEF Request, Next
<1>2. ASSUME NEW g \in Groups, NEW n \in Ids, HomeRecords(g, n) PROVE [Next]_vars
  BY <1>2 DEF HomeRecords
<1>3. CASE Supervisor
  <2>1. ASSUME NEW s \in Sinks \cup {NoSink}, SetReleaseSink(s) PROVE [Next]_vars
    BY <2>1 DEF Next, Subscriber
  <2>2. (\E s \in Sinks : InstallSink(s)) \/ StartAnew \/ GiveUp \/ ShutDown => [Next]_vars
    BY <2>1 DEF InstallSink, StartAnew, GiveUp, ShutDown
  <2>3. SettleCall \/ SupervisorDrains => [Next]_vars
    BY SupervisorCalling DEF Next
  <2>4. Publish \/ LifetimeEnds \/ CloseClient \/ TakeOver \/ Recovered \/ FlushReleases
          => UNCHANGED vars
    BY DEF Publish, LifetimeEnds, CloseClient, TakeOver, Recovered, FlushReleases
  <2> QED
    BY <1>3, <2>2, <2>3, <2>4 DEF Supervisor
<1>4. CASE UNCHANGED allVars
  BY <1>4 DEF allVars
<1> QED
  BY <1>1, <1>2, <1>3, <1>4 DEF LifetimeNext

\* The variables of the lifetime keep their types.
LEMMA RequestTypeStep ==
    ASSUME TypeOK, RequestType, SupInv, [LifetimeNext]_allVars
    PROVE  RequestType'
<1> USE MaxLifetimeAssumption, MaxDispatchAssumption DEF RequestType, Lifetimes, Ids,
        lifetimeVars, supVars, requestVars, clientVars, homeVars, vars, dispatchVars, lifeVars,
        callerVars, releaseVars
<1>1. ASSUME NEW i \in Ids, ReadBundle(i) PROVE RequestType'
  BY <1>1 DEF ReadBundle
<1>2. ASSUME NEW i \in Ids, Begin(i) PROVE RequestType'
  BY <1>2 DEF Begin, BeginCheck, BeginReserve
<1>3. ASSUME NEW i \in Ids, IssueRPop(i) PROVE RequestType'
  BY <1>3 DEF IssueRPop
<1>4. ASSUME NEW i \in Ids, RPopReplied(i) PROVE RequestType'
  BY <1>4 DEF RPopReplied
<1>5. ASSUME NEW i \in Ids, RPopAmbiguous(i) PROVE RequestType'
  BY <1>5 DEF RPopAmbiguous, abortAmbiguousDispatch
<1>6. ASSUME NEW i \in Ids, AbortInstalled(i) PROVE RequestType'
  BY <1>6 DEF AbortInstalled, abortAmbiguousDispatch
<1>7. ASSUME NEW i \in Ids, EndToken(i) PROVE RequestType'
  BY <1>7 DEF EndToken, PendingEnd
<1>8. ASSUME NEW i \in Ids, InstallGrant(i) PROVE RequestType'
  BY <1>8 DEF InstallGrant, InstallCheck, InstallCommit
<1>9. ASSUME NEW i \in Ids, InstallRejected(i) PROVE RequestType'
  BY <1>9 DEF InstallRejected, InstallRefused
<1>10. ASSUME NEW i \in Ids, AbortRejected(i) PROVE RequestType'
  BY <1>10 DEF AbortRejected, abortAmbiguousDispatch
<1>11. ASSUME NEW i \in Ids, Execute(i) PROVE RequestType'
  BY <1>11, ExecuteFrame
<1>12. ASSUME NEW i \in Ids, NEW g \in Groups \cup {Unaccounted}, HomeGrants(i, g)
       PROVE  RequestType'
  BY <1>12 DEF HomeGrants
<1>13. ASSUME NEW g \in Groups, NEW n \in Ids, HomeRecords(g, n) PROVE RequestType'
  BY <1>13 DEF HomeRecords
<1>14. ASSUME NEW s \in Sinks, InstallSink(s) PROVE RequestType'
  BY <1>14 DEF InstallSink, SetReleaseSink, Goto
<1>15. CASE Publish
  BY <1>15 DEF Publish
<1>16. CASE LifetimeEnds
  BY <1>16 DEF LifetimeEnds, detachHomeSubscriberLifetime, Goto
<1>17. CASE CloseClient
  BY <1>17 DEF CloseClient, Goto
<1>18. CASE SettleCall \/ SupervisorDrains
  BY <1>18, SupervisorCalling, CallFrame
<1>19. CASE TakeOver
  BY <1>19 DEF TakeOver, Goto, SupInv
<1>20. CASE StartAnew
  BY <1>20 DEF StartAnew, SetReleaseSink, Goto
<1>21. CASE GiveUp
  BY <1>21 DEF GiveUp, SetReleaseSink, Goto
<1>22. CASE Recovered
  BY <1>22 DEF Recovered, Goto
<1>23. CASE FlushReleases
  BY <1>23 DEF FlushReleases, Goto
<1>24. CASE ShutDown
  BY <1>24 DEF ShutDown, SetReleaseSink, Goto
<1>25. CASE UNCHANGED allVars
  BY <1>25 DEF allVars
<1> QED
  BY <1>1, <1>2, <1>3, <1>4, <1>5, <1>6, <1>7, <1>8, <1>9, <1>10, <1>11, <1>12, <1>13,
     <1>14, <1>15, <1>16, <1>17, <1>18, <1>19, <1>20, <1>21, <1>22, <1>23, <1>24, <1>25
     DEF LifetimeNext, Request, Supervisor

\* The supervisor's place, the state word and the sink stay in step.
LEMMA SupStep ==
    ASSUME TypeOK, OwnersInv, RequestType, SupInv, ProgressInv, [LifetimeNext]_allVars
    PROVE  SupInv'
<1> USE MaxLifetimeAssumption, CallersAssumption, NoSinkAssumption
        DEF RequestType, SupInv, Lifetimes, TypeOK, ReleaseType, lifetimeVars, supVars,
            requestVars, clientVars, homeVars, vars, dispatchVars, lifeVars, callerVars,
            releaseVars
<1>1. ASSUME NEW i \in Ids, ReadBundle(i) PROVE SupInv'
  BY <1>1 DEF ReadBundle
<1>2. ASSUME NEW i \in Ids, Begin(i) PROVE SupInv'
  BY <1>2 DEF Begin, BeginCheck, BeginReserve
<1>3. ASSUME NEW i \in Ids, IssueRPop(i) PROVE SupInv'
  BY <1>3 DEF IssueRPop
<1>4. ASSUME NEW i \in Ids, RPopReplied(i) PROVE SupInv'
  BY <1>4 DEF RPopReplied
<1>5. ASSUME NEW i \in Ids, RPopAmbiguous(i) PROVE SupInv'
  BY <1>5 DEF RPopAmbiguous, abortAmbiguousDispatch
<1>6. ASSUME NEW i \in Ids, AbortInstalled(i) PROVE SupInv'
  BY <1>6 DEF AbortInstalled, abortAmbiguousDispatch
<1>7. ASSUME NEW i \in Ids, EndToken(i) PROVE SupInv'
  BY <1>7 DEF EndToken, PendingEnd
<1>8. ASSUME NEW i \in Ids, InstallGrant(i) PROVE SupInv'
  BY <1>8 DEF InstallGrant, InstallCheck, InstallCommit
<1>9. ASSUME NEW i \in Ids, InstallRejected(i) PROVE SupInv'
  BY <1>9 DEF InstallRejected, InstallRefused
<1>10. ASSUME NEW i \in Ids, AbortRejected(i) PROVE SupInv'
  BY <1>10 DEF AbortRejected, abortAmbiguousDispatch
<1>11. ASSUME NEW i \in Ids, Execute(i) PROVE SupInv'
  <2>1. sup = "new" => pc[i] = "unborn"
    BY DEF ProgressInv
  <2>2. ScopePCs \cap {"unborn"} = {}
    BY DEF ScopePCs
  <2> QED
    BY <1>11, <2>1, ExecuteFrame
<1>12. ASSUME NEW i \in Ids, NEW g \in Groups \cup {Unaccounted}, HomeGrants(i, g) PROVE SupInv'
  BY <1>12 DEF HomeGrants
<1>13. ASSUME NEW g \in Groups, NEW n \in Ids, HomeRecords(g, n) PROVE SupInv'
  BY <1>13 DEF HomeRecords
<1>14. ASSUME NEW s \in Sinks, InstallSink(s) PROVE SupInv'
  BY <1>14 DEF InstallSink, SetReleaseSink, Goto
<1>15. CASE Publish
  BY <1>15 DEF Publish
<1>16. CASE LifetimeEnds
  BY <1>16 DEF LifetimeEnds, detachHomeSubscriberLifetime, Goto
<1>17. CASE CloseClient
  BY <1>17 DEF CloseClient, Goto
<1>18. CASE SettleCall \/ SupervisorDrains
  <2>1. /\ UNCHANGED <<lifetimeVars, dispatchVars, releaseVars>>
        /\ state # "Accepting" => state' # "Accepting"
    BY <1>18, SupervisorCalling, CallFrame, CallOutcome
  <2>2. CASE SettleCall
    <3>1. UNCHANGED state
      BY <2>2 DEF SettleCall, WaitPendingStart, WaitPendingCheck, Wake, Timeout
    <3>2. sup = "settling"
      BY <2>2 DEF SettleCall
    <3> QED
      BY <2>1, <3>1, <3>2
  <2>3. CASE SupervisorDrains
    <3>1. sup \notin {"new", "serving", "closing", "settling", "recovered", "flushing"}
      BY <2>3 DEF SupervisorDrains
    <3>2. sup = "done" => caller'[DrainCall] = caller[DrainCall]
      <4>1. ASSUME sup = "done" PROVE DrainBy(DeferredDrain)
        BY <2>3, <4>1 DEF SupervisorDrains
      <4>2. DrainBy(DeferredDrain) => Call(DeferredDrain)
        BY DEF DrainBy, Call
      <4>3. DrainCall \in Callers /\ DeferredDrain \in Callers /\ DrainCall # DeferredDrain
        BY DEF DrainCall, DeferredDrain
      <4> QED
        BY <4>1, <4>2, <4>3, CallOutcome
    <3> QED
      BY <2>1, <3>1, <3>2
  <2> QED
    BY <1>18, <2>2, <2>3
<1>19. CASE TakeOver
  BY <1>19 DEF TakeOver, Goto
<1>20. CASE StartAnew
  BY <1>20 DEF StartAnew, SetReleaseSink, Goto
<1>21. CASE GiveUp
  BY <1>21 DEF GiveUp, SetReleaseSink, Goto
<1>22. CASE Recovered
  BY <1>22 DEF Recovered, Goto
<1>23. CASE FlushReleases
  BY <1>23 DEF FlushReleases, Goto
<1>24. CASE ShutDown
  BY <1>24 DEF ShutDown, SetReleaseSink, Goto
<1>25. CASE UNCHANGED allVars
  BY <1>25 DEF allVars
<1> QED
  BY <1>1, <1>2, <1>3, <1>4, <1>5, <1>6, <1>7, <1>8, <1>9, <1>10, <1>11, <1>12, <1>13,
     <1>14, <1>15, <1>16, <1>17, <1>18, <1>19, <1>20, <1>21, <1>22, <1>23, <1>24, <1>25
     DEF LifetimeNext, Request, Supervisor

(***************************************************************************)
(* Requests, grants and the fence.                                         *)
(***************************************************************************)
\* A request's RPOP and its token or scope stay in step.
LEMMA ProgressStep ==
    ASSUME TypeOK, OwnersInv, RequestType, SupInv, ProgressInv, [LifetimeNext]_allVars
    PROVE  ProgressInv'
<1> USE MaxLifetimeAssumption, MaxDispatchAssumption
        DEF RequestType, Lifetimes, TypeOK, DispatchType, ScopePCs, Installed,
            lifetimeVars, supVars, requestVars, clientVars, homeVars, vars, dispatchVars,
            lifeVars, callerVars, releaseVars, ProgressInv
<1>1. ASSUME NEW i \in Ids, ReadBundle(i) PROVE ProgressInv'
  BY <1>1 DEF ReadBundle, SupInv
<1>2. ASSUME NEW i \in Ids, Begin(i) PROVE ProgressInv'
  <2>1. UNCHANGED lifetimeVars /\ via[i] # 0
    BY <1>2 DEF Begin
  <2>2. CASE BeginCheck(i)
    <3>1. pc[i] \in {"unborn", "beginning"}
      BY <2>2 DEF BeginCheck, OwnersInv, Ids
    <3> QED
      BY <2>1, <2>2, <3>1 DEF BeginCheck
  <2>3. CASE BeginReserve(i)
    BY <2>1, <2>3 DEF BeginReserve
  <2> QED
    BY <1>2, <2>2, <2>3 DEF Begin
<1>3. ASSUME NEW i \in Ids, IssueRPop(i) PROVE ProgressInv'
  BY <1>3 DEF IssueRPop
<1>4. ASSUME NEW i \in Ids, RPopReplied(i) PROVE ProgressInv'
  BY <1>4 DEF RPopReplied
<1>5. ASSUME NEW i \in Ids, RPopAmbiguous(i) PROVE ProgressInv'
  BY <1>5 DEF RPopAmbiguous, abortAmbiguousDispatch
<1>6. ASSUME NEW i \in Ids, AbortInstalled(i) PROVE ProgressInv'
  BY <1>6 DEF AbortInstalled, abortAmbiguousDispatch
<1>7. ASSUME NEW i \in Ids, EndToken(i) PROVE ProgressInv'
  BY <1>7 DEF EndToken, PendingEnd
<1>8. ASSUME NEW i \in Ids, InstallGrant(i) PROVE ProgressInv'
  <2>1. UNCHANGED lifetimeVars /\ rpc[i] = "replied"
    BY <1>8 DEF InstallGrant
  <2>2. CASE InstallCheck(i)
    BY <2>1, <2>2 DEF InstallCheck
  <2>3. ASSUME NEW g \in Groups \cup {Unaccounted}, InstallCommit(i, g) PROVE ProgressInv'
    BY <2>1, <2>3 DEF InstallCommit
  <2> QED
    BY <1>8, <2>2, <2>3 DEF InstallGrant
<1>9. ASSUME NEW i \in Ids, InstallRejected(i) PROVE ProgressInv'
  BY <1>9 DEF InstallRejected, InstallRefused
<1>10. ASSUME NEW i \in Ids, AbortRejected(i) PROVE ProgressInv'
  BY <1>10 DEF AbortRejected, abortAmbiguousDispatch
<1>11. ASSUME NEW i \in Ids, Execute(i) PROVE ProgressInv'
  BY <1>11, ExecuteFrame
<1>12. ASSUME NEW i \in Ids, NEW g \in Groups \cup {Unaccounted}, HomeGrants(i, g)
       PROVE  ProgressInv'
  BY <1>12 DEF HomeGrants
<1>13. ASSUME NEW g \in Groups, NEW n \in Ids, HomeRecords(g, n) PROVE ProgressInv'
  BY <1>13 DEF HomeRecords
<1>14. ASSUME NEW s \in Sinks, InstallSink(s) PROVE ProgressInv'
  BY <1>14 DEF InstallSink, SetReleaseSink, Goto
<1>15. CASE Publish
  BY <1>15 DEF Publish
<1>16. CASE LifetimeEnds
  BY <1>16 DEF LifetimeEnds, detachHomeSubscriberLifetime, Goto
<1>17. CASE CloseClient
  BY <1>17 DEF CloseClient, Goto
<1>18. CASE SettleCall \/ SupervisorDrains
  BY <1>18, SupervisorCalling, CallFrame, CallOutcome
<1>19. CASE TakeOver
  BY <1>19 DEF TakeOver, Goto
<1>20. CASE StartAnew
  BY <1>20 DEF StartAnew, SetReleaseSink, Goto
<1>21. CASE GiveUp
  BY <1>21 DEF GiveUp, SetReleaseSink, Goto
<1>22. CASE Recovered
  BY <1>22 DEF Recovered, Goto
<1>23. CASE FlushReleases
  BY <1>23 DEF FlushReleases, Goto
<1>24. CASE ShutDown
  BY <1>24 DEF ShutDown, SetReleaseSink, Goto
<1>25. CASE UNCHANGED allVars
  BY <1>25 DEF allVars
<1> QED
  BY <1>1, <1>2, <1>3, <1>4, <1>5, <1>6, <1>7, <1>8, <1>9, <1>10, <1>11, <1>12, <1>13,
     <1>14, <1>15, <1>16, <1>17, <1>18, <1>19, <1>20, <1>21, <1>22, <1>23, <1>24, <1>25
     DEF LifetimeNext, Request, Supervisor

\* What Home granted, the RPOP and the scope's group stay in step.
LEMMA GrantStep ==
    ASSUME TypeOK, OwnersInv, RequestType, SupInv, ProgressInv, GrantInv, [LifetimeNext]_allVars
    PROVE  GrantInv'
<1> USE MaxLifetimeAssumption, MaxDispatchAssumption
        DEF RequestType, Lifetimes, TypeOK, DispatchType, ScopePCs, Installed,
            lifetimeVars, supVars, requestVars, clientVars, homeVars, vars, dispatchVars,
            lifeVars, callerVars, releaseVars, ProgressInv, GrantInv, GrantOf
<1>1. ASSUME NEW i \in Ids, ReadBundle(i) PROVE GrantInv'
  BY <1>1 DEF ReadBundle
<1>2. ASSUME NEW i \in Ids, Begin(i) PROVE GrantInv'
  <2>1. UNCHANGED lifetimeVars /\ via[i] # 0
    BY <1>2 DEF Begin
  <2>2. CASE BeginCheck(i)
    <3>1. pc[i] \in {"unborn", "beginning"}
      BY <2>2 DEF BeginCheck, OwnersInv, Ids
    <3> QED
      BY <2>1, <2>2, <3>1 DEF BeginCheck
  <2>3. CASE BeginReserve(i)
    BY <2>1, <2>3 DEF BeginReserve
  <2> QED
    BY <1>2, <2>2, <2>3 DEF Begin
<1>3. ASSUME NEW i \in Ids, IssueRPop(i) PROVE GrantInv'
  BY <1>3 DEF IssueRPop
<1>4. ASSUME NEW i \in Ids, RPopReplied(i) PROVE GrantInv'
  BY <1>4 DEF RPopReplied
<1>5. ASSUME NEW i \in Ids, RPopAmbiguous(i) PROVE GrantInv'
  BY <1>5 DEF RPopAmbiguous, abortAmbiguousDispatch
<1>6. ASSUME NEW i \in Ids, AbortInstalled(i) PROVE GrantInv'
  BY <1>6 DEF AbortInstalled, abortAmbiguousDispatch
<1>7. ASSUME NEW i \in Ids, EndToken(i) PROVE GrantInv'
  <2>1. UNCHANGED lifetimeVars /\ UNCHANGED group /\ pc' = [pc EXCEPT ![i] = "dropped"]
    BY <1>7 DEF EndToken, PendingEnd
  <2>2. pc[i] = "pending" /\ (rpc[i] = "replied" => <<i, Unaccounted>> \in grants)
    BY <1>7 DEF EndToken, PendingEnd
  <2>3. group[i] = Unaccounted
    BY <2>2
  <2> SUFFICES ASSUME NEW j \in Ids PROVE GrantOf(j)'
    BY DEF GrantInv, GrantOf
  <2>4. CASE j = i
    BY <2>1, <2>2, <2>3, <2>4 DEF GrantOf
  <2>5. CASE j # i
    BY <2>1, <2>5 DEF GrantOf
  <2> QED
    BY <2>4, <2>5
<1>8. ASSUME NEW i \in Ids, InstallGrant(i) PROVE GrantInv'
  <2>1. UNCHANGED lifetimeVars /\ rpc[i] = "replied"
    BY <1>8 DEF InstallGrant
  <2>2. CASE InstallCheck(i)
    BY <2>1, <2>2 DEF InstallCheck
  <2>3. ASSUME NEW g \in Groups \cup {Unaccounted}, <<i, g>> \in grants, InstallCommit(i, g)
        PROVE  GrantInv'
    <3>1. group' = [group EXCEPT ![i] = g] /\ pc' = [pc EXCEPT ![i] = "active"]
      BY <2>3 DEF InstallCommit
    <3> SUFFICES ASSUME NEW j \in Ids PROVE GrantOf(j)'
      BY DEF GrantInv, GrantOf
    <3>2. CASE j = i
      BY <2>1, <2>3, <3>1, <3>2 DEF GrantOf
    <3>3. CASE j # i
      BY <2>1, <3>1, <3>3 DEF GrantOf
    <3> QED
      BY <3>2, <3>3
  <2> QED
    BY <1>8, <2>2, <2>3 DEF InstallGrant
<1>9. ASSUME NEW i \in Ids, InstallRejected(i) PROVE GrantInv'
  BY <1>9 DEF InstallRejected, InstallRefused
<1>10. ASSUME NEW i \in Ids, AbortRejected(i) PROVE GrantInv'
  BY <1>10 DEF AbortRejected, abortAmbiguousDispatch
<1>11. ASSUME NEW i \in Ids, Execute(i) PROVE GrantInv'
  BY <1>11, ExecuteFrame
<1>12. ASSUME NEW i \in Ids, NEW g \in Groups \cup {Unaccounted}, HomeGrants(i, g)
       PROVE  GrantInv'
  <2>1. /\ UNCHANGED <<pc, group>>
        /\ grants' = grants \cup {<<i, g>>}
        /\ rpc[i] \in {"issued", "lost"}
        /\ rpc'[i] \in {"granted", "ambiguous"}
        /\ \A j \in Ids : j # i => rpc'[j] = rpc[j]
    BY <1>12 DEF HomeGrants
  <2>2. \A h \in Groups \cup {Unaccounted} : <<i, h>> \notin grants
    BY <2>1
  <2>3. pc[i] \notin Installed
    BY <2>1
  <2> SUFFICES ASSUME NEW j \in Ids PROVE GrantOf(j)'
    BY DEF GrantInv, GrantOf
  <2>4. CASE j = i
    BY <2>1, <2>2, <2>3, <2>4 DEF GrantOf
  <2>5. CASE j # i
    BY <2>1, <2>5 DEF GrantOf
  <2> QED
    BY <2>4, <2>5
<1>13. ASSUME NEW g \in Groups, NEW n \in Ids, HomeRecords(g, n) PROVE GrantInv'
  BY <1>13 DEF HomeRecords
<1>14. ASSUME NEW s \in Sinks, InstallSink(s) PROVE GrantInv'
  BY <1>14 DEF InstallSink, SetReleaseSink, Goto
<1>15. CASE Publish
  BY <1>15 DEF Publish
<1>16. CASE LifetimeEnds
  BY <1>16 DEF LifetimeEnds, detachHomeSubscriberLifetime, Goto
<1>17. CASE CloseClient
  BY <1>17 DEF CloseClient, Goto
<1>18. CASE SettleCall \/ SupervisorDrains
  BY <1>18, SupervisorCalling, CallFrame
<1>19. CASE TakeOver
  BY <1>19 DEF TakeOver, Goto
<1>20. CASE StartAnew
  BY <1>20 DEF StartAnew, SetReleaseSink, Goto
<1>21. CASE GiveUp
  BY <1>21 DEF GiveUp, SetReleaseSink, Goto
<1>22. CASE Recovered
  BY <1>22 DEF Recovered, Goto
<1>23. CASE FlushReleases
  BY <1>23 DEF FlushReleases, Goto
<1>24. CASE ShutDown
  BY <1>24 DEF ShutDown, SetReleaseSink, Goto
<1>25. CASE UNCHANGED allVars
  BY <1>25 DEF allVars
<1> QED
  BY <1>1, <1>2, <1>3, <1>4, <1>5, <1>6, <1>7, <1>8, <1>9, <1>10, <1>11, <1>12, <1>13,
     <1>14, <1>15, <1>16, <1>17, <1>18, <1>19, <1>20, <1>21, <1>22, <1>23, <1>24, <1>25
     DEF LifetimeNext, Request, Supervisor

\* A step of one request keeps the fence's promises if that request keeps its own.
LEMMA FenceKept ==
    ASSUME RequestType, WaitedInv, PastInv, NEW i \in Ids,
           UNCHANGED <<via, lifetime, caller>>,
           \A l \in Lifetimes : fenced[l] => fenced'[l],
           \A j \in Ids : j # i => pc'[j] = pc[j] /\ rpc'[j] = rpc[j],
           via[i] # 0 /\ fenced[via[i]] =>
               (Unsent(i) => Unsent(i)') /\ (Settled(i) => Settled(i)')
    PROVE  WaitedInv' /\ PastInv'
<1> USE MaxLifetimeAssumption DEF RequestType, Lifetimes
<1>1. ASSUME NEW j \in Ids, via[j] # 0, fenced[via[j]]
      PROVE  (Unsent(j) => Unsent(j)') /\ (Settled(j) => Settled(j)')
  BY <1>1 DEF Unsent, Settled
<1>2. WaitedInv'
  BY <1>1 DEF WaitedInv
<1>3. PastInv'
  BY <1>1 DEF PastInv
<1> QED
  BY <1>2, <1>3

\* The fence is up before the tokens are waited for, and stays.
LEMMA FenceStep ==
    ASSUME TypeOK, OwnersInv, RequestType, SupInv, ProgressInv, WaitedInv, PastInv, [LifetimeNext]_allVars
    PROVE  (WaitedInv /\ PastInv)'
<1> USE MaxLifetimeAssumption, MaxDispatchAssumption, CallersAssumption
        DEF RequestType, Lifetimes, TypeOK, DispatchType, ScopePCs, Installed,
            lifetimeVars, supVars, requestVars, clientVars, homeVars, vars, dispatchVars,
            lifeVars, callerVars, releaseVars
<1>1. ASSUME NEW i \in Ids, ReadBundle(i) PROVE (WaitedInv /\ PastInv)'
  BY <1>1 DEF ReadBundle, ProgressInv, WaitedInv, PastInv, Unsent, Settled, SupInv
<1>2. ASSUME NEW i \in Ids, Begin(i) PROVE (WaitedInv /\ PastInv)'
  <2>1. /\ UNCHANGED <<via, rpc, fenced, lifetime, caller>>
        /\ \A j \in Ids : j # i => pc'[j] = pc[j]
    BY <1>2 DEF Begin, BeginCheck, BeginReserve
  <2>2. pc[i] \in {"unborn", "beginning"}
    BY <1>2 DEF Begin, BeginCheck, BeginReserve, OwnersInv, Ids
  <2>3. rpc[i] = "idle"
    BY <2>2 DEF ProgressInv
  <2> QED
    BY <2>1, <2>3, FenceKept DEF Unsent, Settled
<1>3. ASSUME NEW i \in Ids, IssueRPop(i) PROVE (WaitedInv /\ PastInv)'
  <2>1. /\ UNCHANGED <<via, lifetime, caller>>
        /\ \A l \in Lifetimes : fenced[l] => fenced'[l]
        /\ \A j \in Ids : j # i => pc'[j] = pc[j] /\ rpc'[j] = rpc[j]
    BY <1>3 DEF IssueRPop
  <2>2. via[i] # 0 /\ fenced[via[i]] =>
          (Unsent(i) => Unsent(i)') /\ (Settled(i) => Settled(i)')
    BY <1>3 DEF IssueRPop, ProgressInv, Unsent, Settled
  <2> QED
    BY <2>1, <2>2, FenceKept
<1>4. ASSUME NEW i \in Ids, RPopReplied(i) PROVE (WaitedInv /\ PastInv)'
  <2>1. /\ UNCHANGED <<via, lifetime, caller>>
        /\ \A l \in Lifetimes : fenced[l] => fenced'[l]
        /\ \A j \in Ids : j # i => pc'[j] = pc[j] /\ rpc'[j] = rpc[j]
    BY <1>4 DEF RPopReplied
  <2>2. via[i] # 0 /\ fenced[via[i]] =>
          (Unsent(i) => Unsent(i)') /\ (Settled(i) => Settled(i)')
    BY <1>4 DEF RPopReplied, ProgressInv, Unsent, Settled
  <2> QED
    BY <2>1, <2>2, FenceKept
<1>5. ASSUME NEW i \in Ids, RPopAmbiguous(i) PROVE (WaitedInv /\ PastInv)'
  <2>1. /\ UNCHANGED <<via, lifetime, caller>>
        /\ \A l \in Lifetimes : fenced[l] => fenced'[l]
        /\ \A j \in Ids : j # i => pc'[j] = pc[j] /\ rpc'[j] = rpc[j]
    BY <1>5 DEF RPopAmbiguous, abortAmbiguousDispatch
  <2>2. via[i] # 0 /\ fenced[via[i]] =>
          (Unsent(i) => Unsent(i)') /\ (Settled(i) => Settled(i)')
    BY <1>5 DEF RPopAmbiguous, abortAmbiguousDispatch, ProgressInv, Unsent, Settled
  <2> QED
    BY <2>1, <2>2, FenceKept
<1>6. ASSUME NEW i \in Ids, AbortInstalled(i) PROVE (WaitedInv /\ PastInv)'
  <2>1. /\ UNCHANGED <<via, lifetime, caller>>
        /\ \A l \in Lifetimes : fenced[l] => fenced'[l]
        /\ \A j \in Ids : j # i => pc'[j] = pc[j] /\ rpc'[j] = rpc[j]
    BY <1>6 DEF AbortInstalled, abortAmbiguousDispatch
  <2>2. via[i] # 0 /\ fenced[via[i]] =>
          (Unsent(i) => Unsent(i)') /\ (Settled(i) => Settled(i)')
    BY <1>6 DEF AbortInstalled, abortAmbiguousDispatch, ProgressInv, Unsent, Settled
  <2> QED
    BY <2>1, <2>2, FenceKept
<1>7. ASSUME NEW i \in Ids, EndToken(i) PROVE (WaitedInv /\ PastInv)'
  <2>1. /\ UNCHANGED <<via, lifetime, caller>>
        /\ \A l \in Lifetimes : fenced[l] => fenced'[l]
        /\ \A j \in Ids : j # i => pc'[j] = pc[j] /\ rpc'[j] = rpc[j]
    BY <1>7 DEF EndToken, PendingEnd
  <2>2. via[i] # 0 /\ fenced[via[i]] =>
          (Unsent(i) => Unsent(i)') /\ (Settled(i) => Settled(i)')
    BY <1>7 DEF EndToken, PendingEnd, ProgressInv, Unsent, Settled
  <2> QED
    BY <2>1, <2>2, FenceKept
<1>8. ASSUME NEW i \in Ids, InstallGrant(i) PROVE (WaitedInv /\ PastInv)'
  <2>1. /\ UNCHANGED <<via, lifetime, caller>>
        /\ \A l \in Lifetimes : fenced[l] => fenced'[l]
        /\ \A j \in Ids : j # i => pc'[j] = pc[j] /\ rpc'[j] = rpc[j]
    BY <1>8 DEF InstallGrant, InstallCheck, InstallCommit
  <2>2. via[i] # 0 /\ fenced[via[i]] =>
          (Unsent(i) => Unsent(i)') /\ (Settled(i) => Settled(i)')
    BY <1>8 DEF InstallGrant, InstallCheck, InstallCommit, ProgressInv, Unsent, Settled
  <2> QED
    BY <2>1, <2>2, FenceKept
<1>9. ASSUME NEW i \in Ids, InstallRejected(i) PROVE (WaitedInv /\ PastInv)'
  <2>1. /\ UNCHANGED <<via, lifetime, caller>>
        /\ \A l \in Lifetimes : fenced[l] => fenced'[l]
        /\ \A j \in Ids : j # i => pc'[j] = pc[j] /\ rpc'[j] = rpc[j]
    BY <1>9 DEF InstallRejected, InstallRefused
  <2>2. via[i] # 0 /\ fenced[via[i]] =>
          (Unsent(i) => Unsent(i)') /\ (Settled(i) => Settled(i)')
    BY <1>9 DEF InstallRejected, InstallRefused, ProgressInv, Unsent, Settled
  <2> QED
    BY <2>1, <2>2, FenceKept
<1>10. ASSUME NEW i \in Ids, AbortRejected(i) PROVE (WaitedInv /\ PastInv)'
  <2>1. /\ UNCHANGED <<via, lifetime, caller>>
        /\ \A l \in Lifetimes : fenced[l] => fenced'[l]
        /\ \A j \in Ids : j # i => pc'[j] = pc[j] /\ rpc'[j] = rpc[j]
    BY <1>10 DEF AbortRejected, abortAmbiguousDispatch
  <2>2. via[i] # 0 /\ fenced[via[i]] =>
          (Unsent(i) => Unsent(i)') /\ (Settled(i) => Settled(i)')
    BY <1>10 DEF AbortRejected, abortAmbiguousDispatch, ProgressInv, Unsent, Settled
  <2> QED
    BY <2>1, <2>2, FenceKept
<1>11. ASSUME NEW i \in Ids, Execute(i) PROVE (WaitedInv /\ PastInv)'
  <2>1. /\ UNCHANGED <<via, lifetime, caller>>
        /\ \A l \in Lifetimes : fenced[l] => fenced'[l]
        /\ \A j \in Ids : j # i => pc'[j] = pc[j] /\ rpc'[j] = rpc[j]
    BY <1>11, ExecuteFrame
  <2>2. via[i] # 0 /\ fenced[via[i]] =>
          (Unsent(i) => Unsent(i)') /\ (Settled(i) => Settled(i)')
    BY <1>11, ExecuteFrame DEF ProgressInv, Unsent, Settled
  <2> QED
    BY <2>1, <2>2, FenceKept
<1>12. ASSUME NEW i \in Ids, NEW g \in Groups \cup {Unaccounted}, HomeGrants(i, g)
       PROVE  (WaitedInv /\ PastInv)'
  <2>1. /\ UNCHANGED <<via, lifetime, caller>>
        /\ \A l \in Lifetimes : fenced[l] => fenced'[l]
        /\ \A j \in Ids : j # i => pc'[j] = pc[j] /\ rpc'[j] = rpc[j]
    BY <1>12 DEF HomeGrants
  <2>2. via[i] # 0 /\ fenced[via[i]] =>
          (Unsent(i) => Unsent(i)') /\ (Settled(i) => Settled(i)')
    BY <1>12 DEF HomeGrants, ProgressInv, Unsent, Settled
  <2> QED
    BY <2>1, <2>2, FenceKept
<1>13. ASSUME NEW g \in Groups, NEW n \in Ids, HomeRecords(g, n) PROVE (WaitedInv /\ PastInv)'
  BY <1>13 DEF HomeRecords, ProgressInv, WaitedInv, PastInv, Unsent, Settled, SupInv
<1>14. ASSUME NEW s \in Sinks, InstallSink(s) PROVE (WaitedInv /\ PastInv)'
  BY <1>14 DEF InstallSink, SetReleaseSink, Goto, ProgressInv, WaitedInv, PastInv,
     Unsent, Settled, SupInv
<1>15. CASE Publish
  BY <1>15 DEF Publish, ProgressInv, WaitedInv, PastInv, Unsent, Settled, SupInv
<1>16. CASE LifetimeEnds
  BY <1>16 DEF LifetimeEnds, detachHomeSubscriberLifetime, Goto, ProgressInv, WaitedInv,
     PastInv, Unsent, Settled, SupInv
<1>17. CASE CloseClient
  BY <1>17 DEF CloseClient, Goto, ProgressInv, WaitedInv, PastInv, Unsent, Settled, SupInv
<1>18. CASE SettleCall \/ SupervisorDrains
  <2>1. UNCHANGED <<via, rpc, fenced, ambiguous, sup, lifetime, pc, pending>>
    BY <1>18, SupervisorCalling, CallFrame
  <2>2. ASSUME NEW l \in 1..(MaxLifetime - 1), caller'[l] = "pending.ok", caller[l] # "pending.ok"
        PROVE  sup = "settling" /\ l = lifetime /\ pending = {}
    <3>1. l \in Callers /\ l # DrainCall /\ l # DeferredDrain
      BY DEF DrainCall, DeferredDrain
    <3>2. ASSUME NEW c \in Callers, Call(c) PROVE c = l /\ pending = {}
      BY <2>2, <3>1, <3>2, CallOutcome
    <3>3. DrainCall \in Callers /\ DeferredDrain \in Callers
      BY DEF DrainCall, DeferredDrain
    <3>4. ~SupervisorDrains
      BY <3>1, <3>2, <3>3 DEF SupervisorDrains, DrainBy, Call
    <3>5. SettleCall
      BY <1>18, <3>4
    <3>6. sup = "settling" /\ lifetime \in Callers
      BY <3>5 DEF SettleCall, SupInv, DrainCall, DeferredDrain
    <3>7. Call(lifetime)
      BY <3>5, <3>6 DEF SettleCall, Call
    <3> QED
      BY <3>2, <3>6, <3>7
  <2>3. pending = {} => \A i \in Ids : pc[i] \notin {"pending", "installing"}
    BY DEF OwnersInv
  <2>4. WaitedInv'
    BY <2>1, <2>2, <2>3 DEF WaitedInv, Unsent, SupInv
  <2>5. PastInv'
    BY <2>1 DEF PastInv, Settled
  <2> QED
    BY <2>4, <2>5
<1>19. CASE TakeOver
  <2>1. /\ lifetime' = lifetime + 1 /\ lifetime \in 1..(MaxLifetime - 1)
        /\ UNCHANGED <<pc, via, rpc, fenced, caller>>
        /\ caller[lifetime] = "pending.ok" /\ ~ambiguous[lifetime] /\ state = "Accepting"
    BY <1>19 DEF TakeOver, SupInv
  <2>2. WaitedInv'
    BY <2>1 DEF WaitedInv, Unsent
  <2>3. ASSUME NEW i \in Ids, via[i] = lifetime PROVE fenced[lifetime] /\ Settled(i)
    <3>1. fenced[lifetime] /\ Unsent(i)
      BY <2>1, <2>3 DEF WaitedInv
    <3>2. rpc[i] \notin {"lost", "ambiguous", "rejected"}
      BY <2>1, <2>3 DEF ProgressInv
    <3>3. rpc[i] \in {"issued", "granted"} => pc[i] = "pending"
      BY DEF ProgressInv
    <3>4. rpc[i] = "replied" => pc[i] \notin {"unborn", "beginning"}
      BY DEF ProgressInv
    <3> QED
      BY <3>1, <3>2, <3>3, <3>4 DEF Unsent, Settled, OwnerPCs
  <2>4. PastInv'
    <3> SUFFICES ASSUME NEW i \in Ids, via[i] # 0, via[i] < lifetime + 1
                 PROVE  fenced[via[i]] /\ Settled(i)
      BY <2>1 DEF PastInv, Settled
    <3> QED
      BY <2>3 DEF PastInv
  <2> QED
    BY <2>2, <2>4
<1>20. CASE StartAnew
  BY <1>20 DEF StartAnew, SetReleaseSink, Goto, ProgressInv, WaitedInv, PastInv, Unsent,
     Settled, SupInv
<1>21. CASE GiveUp
  BY <1>21 DEF GiveUp, SetReleaseSink, Goto, ProgressInv, WaitedInv, PastInv, Unsent,
     Settled, SupInv
<1>22. CASE Recovered
  BY <1>22 DEF Recovered, Goto, ProgressInv, WaitedInv, PastInv, Unsent, Settled, SupInv
<1>23. CASE FlushReleases
  BY <1>23 DEF FlushReleases, Goto, ProgressInv, WaitedInv, PastInv, Unsent, Settled, SupInv
<1>24. CASE ShutDown
  BY <1>24 DEF ShutDown, SetReleaseSink, Goto, ProgressInv, WaitedInv, PastInv, Unsent,
     Settled, SupInv
<1>25. CASE UNCHANGED allVars
  BY <1>25 DEF allVars, WaitedInv, PastInv, Unsent, Settled
<1> QED
  BY <1>1, <1>2, <1>3, <1>4, <1>5, <1>6, <1>7, <1>8, <1>9, <1>10, <1>11, <1>12, <1>13,
     <1>14, <1>15, <1>16, <1>17, <1>18, <1>19, <1>20, <1>21, <1>22, <1>23, <1>24, <1>25
     DEF LifetimeNext, Request, Supervisor

\* What a sink was told was counted before.
LEMMA ToldStep ==
    ASSUME TypeOK, RequestType, SupInv, ToldInv, [LifetimeNext]_allVars
    PROVE  ToldInv'
<1> USE MaxLifetimeAssumption, MaxDispatchAssumption
        DEF RequestType, TypeOK, DispatchType, ReleaseType, ToldInv,
            lifetimeVars, supVars, requestVars, clientVars, homeVars, vars, dispatchVars,
            lifeVars, callerVars, releaseVars
<1>1. ASSUME NEW i \in Ids, ReadBundle(i) PROVE ToldInv'
  BY <1>1 DEF ReadBundle
<1>2. ASSUME NEW i \in Ids, Begin(i) PROVE ToldInv'
  BY <1>2 DEF Begin, BeginCheck, BeginReserve
<1>3. ASSUME NEW i \in Ids, IssueRPop(i) PROVE ToldInv'
  BY <1>3 DEF IssueRPop
<1>4. ASSUME NEW i \in Ids, RPopReplied(i) PROVE ToldInv'
  BY <1>4 DEF RPopReplied
<1>5. ASSUME NEW i \in Ids, RPopAmbiguous(i) PROVE ToldInv'
  BY <1>5 DEF RPopAmbiguous, abortAmbiguousDispatch
<1>6. ASSUME NEW i \in Ids, AbortInstalled(i) PROVE ToldInv'
  BY <1>6 DEF AbortInstalled, abortAmbiguousDispatch
<1>7. ASSUME NEW i \in Ids, EndToken(i) PROVE ToldInv'
  BY <1>7 DEF EndToken, PendingEnd
<1>8. ASSUME NEW i \in Ids, InstallGrant(i) PROVE ToldInv'
  BY <1>8 DEF InstallGrant, InstallCheck, InstallCommit
<1>9. ASSUME NEW i \in Ids, InstallRejected(i) PROVE ToldInv'
  BY <1>9 DEF InstallRejected, InstallRefused
<1>10. ASSUME NEW i \in Ids, AbortRejected(i) PROVE ToldInv'
  BY <1>10 DEF AbortRejected, abortAmbiguousDispatch
<1>11. ASSUME NEW i \in Ids, Execute(i) PROVE ToldInv'
  <2>1. CASE EndMark(i)
    <3>1. UNCHANGED <<told, group>> /\ pc' = [pc EXCEPT ![i] = "marked"]
      BY <2>1 DEF EndMark
    <3>2. CASE group[i] = Unaccounted
      BY <2>1, <3>1, <3>2, UnaccountedAssumption DEF EndMark
    <3>3. CASE group[i] # Unaccounted
      <4> DEFINE n == releaseSeq[group[i]] + 1
      <4>1. group[i] \in Groups /\ n \in Nat /\ n >= releaseSeq[group[i]]
        BY <3>3
      <4>2. /\ releaseSeq' = [releaseSeq EXCEPT ![group[i]] = n]
            /\ call' = [call EXCEPT ![i] = <<sink, n>>]
        BY <2>1, <3>3 DEF EndMark
      <4> HIDE DEF n
      <4>3. \A g \in Groups : releaseSeq[g] <= releaseSeq'[g] /\ releaseSeq'[g] \in Nat
        BY <4>1, <4>2
      <4>4. \A t \in told : t[2] \in Groups => t[3] <= releaseSeq'[t[2]]
        <5> SUFFICES ASSUME NEW t \in told, t[2] \in Groups PROVE t[3] <= releaseSeq'[t[2]]
          OBVIOUS
        <5>1. t[3] \in Nat /\ releaseSeq[t[2]] \in Nat
          OBVIOUS
        <5> QED
          BY <4>3, <5>1
      <4>5. ASSUME NEW j \in Ids, pc'[j] = "marked", group[j] \in Groups
            PROVE  call'[j][2] <= releaseSeq'[group[j]]
        <5>1. CASE j = i
          BY <4>1, <4>2, <5>1
        <5>2. CASE j # i
          <6>1. pc[j] = "marked" /\ call'[j] = call[j] /\ call[j][2] \in Nat
            BY <3>1, <4>2, <4>5, <5>2
          <6> QED
            BY <4>3, <4>5, <6>1
        <5> QED
          BY <5>1, <5>2
      <4> QED
        BY <3>1, <4>4, <4>5
    <3> QED
      BY <3>2, <3>3
  <2>2. CASE EndDeliver(i)
    <3>1. UNCHANGED <<releaseSeq, call, group>> /\ pc[i] = "marked"
          /\ pc' = [pc EXCEPT ![i] = "delivered"]
      BY <2>2 DEF EndDeliver
    <3>2. told' \subseteq told \cup {<<call[i][1], group[i], call[i][2]>>}
      BY <2>2 DEF EndDeliver
    <3> QED
      BY <3>1, <3>2
  <2>3. ASSUME ~EndMark(i), ~EndDeliver(i) PROVE ToldInv'
    <3>1. UNCHANGED <<releaseSeq, call, group, told>>
      BY <1>11, <2>3 DEF Execute, BindCheck, BindCommit, ResourceClosed, EndDeactivate,
         EndStartClose, EndDelete
    <3>2. \A j \in Ids : pc'[j] = "marked" => pc[j] = "marked"
      BY <1>11, <2>3 DEF Execute, BindCheck, BindCommit, ResourceClosed, EndDeactivate,
         EndStartClose, EndDelete
    <3> QED
      BY <3>1, <3>2
  <2> QED
    BY <2>1, <2>2, <2>3
<1>12. ASSUME NEW i \in Ids, NEW g \in Groups \cup {Unaccounted}, HomeGrants(i, g) PROVE ToldInv'
  BY <1>12 DEF HomeGrants
<1>13. ASSUME NEW g \in Groups, NEW n \in Ids, HomeRecords(g, n) PROVE ToldInv'
  BY <1>13 DEF HomeRecords
<1>14. ASSUME NEW s \in Sinks, InstallSink(s) PROVE ToldInv'
  BY <1>14 DEF InstallSink, SetReleaseSink, Goto
<1>15. CASE Publish
  BY <1>15 DEF Publish
<1>16. CASE LifetimeEnds
  BY <1>16 DEF LifetimeEnds, detachHomeSubscriberLifetime, Goto
<1>17. CASE CloseClient
  BY <1>17 DEF CloseClient, Goto
<1>18. CASE SettleCall \/ SupervisorDrains
  BY <1>18, SupervisorCalling, CallFrame
<1>19. CASE TakeOver
  BY <1>19 DEF TakeOver, Goto
<1>20. CASE StartAnew
  BY <1>20 DEF StartAnew, SetReleaseSink, Goto
<1>21. CASE GiveUp
  BY <1>21 DEF GiveUp, SetReleaseSink, Goto
<1>22. CASE Recovered
  BY <1>22 DEF Recovered, Goto
<1>23. CASE FlushReleases
  BY <1>23 DEF FlushReleases, Goto
<1>24. CASE ShutDown
  BY <1>24 DEF ShutDown, SetReleaseSink, Goto
<1>25. CASE UNCHANGED allVars
  BY <1>25 DEF allVars
<1> QED
  BY <1>1, <1>2, <1>3, <1>4, <1>5, <1>6, <1>7, <1>8, <1>9, <1>10, <1>11, <1>12, <1>13,
     <1>14, <1>15, <1>16, <1>17, <1>18, <1>19, <1>20, <1>21, <1>22, <1>23, <1>24, <1>25
     DEF LifetimeNext, Request, Supervisor

\* A call of Drain that returned nil left nothing running.
LEMMA DrainedQuiet ==
    ASSUME IndInv, caller[DrainCall] = "drain.ok"
    PROVE  \A i \in Ids : pc[i] \in {"unborn", "ended", "dropped"}
<1>1. DrainCall \in Callers
  BY CallersAssumption, MaxLifetimeAssumption DEF DrainCall, DeferredDrain
<1>2. mu = 0 /\ pending = {} /\ scopes = {}
  BY <1>1 DEF IndInv, LifeInv, Quiescent
<1> QED
  BY <1>2 DEF IndInv, OwnersInv, LockedPCs, ScopePCs, TypeOK, DispatchType, OwnerPCs, Ids

\* A sequence never exceeds the dispatches there are.
LEMMA SequenceBound ==
    ASSUME IndInv, NEW g \in Groups
    PROVE  releaseSeq[g] \in 0..MaxDispatch
<1>1. IsFiniteSet(Ids) /\ Cardinality(Ids) = MaxDispatch
  BY MaxDispatchAssumption, FS_Interval DEF Ids
<1>2. Cardinality(Released(g)) <= MaxDispatch /\ Cardinality(Released(g)) \in Nat
  BY <1>1, FS_Subset, FS_CardinalityType DEF Released
<1> QED
  BY <1>2 DEF IndInv, SequenceCountsReleases

\* The end of a scope never counts a sequence down.
LEMMA SequencesGrow ==
    ASSUME TypeOK, NEW i \in Ids, Execute(i)
    PROVE  \A g \in Groups : releaseSeq[g] <= releaseSeq'[g]
<1> USE DEF TypeOK, DispatchType, ReleaseType, releaseVars
<1>1. CASE EndMark(i)
  BY <1>1 DEF EndMark
<1>2. ASSUME ~EndMark(i) PROVE UNCHANGED releaseSeq
  BY <1>2 DEF Execute, BindCheck, BindCommit, ResourceClosed, EndDeactivate, EndStartClose,
     EndDeliver, EndDelete
<1> QED
  BY <1>1, <1>2

\* Home records no more than was counted, and all of it at a clean shutdown.
LEMMA RecordStep ==
    ASSUME IndInv, RequestType, SupInv, ToldInv, RecordInv, [LifetimeNext]_allVars
    PROVE  RecordInv'
<1> USE MaxLifetimeAssumption, MaxDispatchAssumption
        DEF RequestType, IndInv, TypeOK, DispatchType, ReleaseType, RecordInv,
            lifetimeVars, supVars, requestVars, clientVars, homeVars, vars, dispatchVars,
            lifeVars, callerVars, releaseVars
<1>0. [Next]_vars
  BY RegistryStep
<1>1. ASSUME NEW i \in Ids, ReadBundle(i) PROVE RecordInv'
  BY <1>1 DEF ReadBundle
<1>2. ASSUME NEW i \in Ids, Begin(i) PROVE RecordInv'
  BY <1>2 DEF Begin, BeginCheck, BeginReserve
<1>3. ASSUME NEW i \in Ids, IssueRPop(i) PROVE RecordInv'
  BY <1>3 DEF IssueRPop
<1>4. ASSUME NEW i \in Ids, RPopReplied(i) PROVE RecordInv'
  BY <1>4 DEF RPopReplied
<1>5. ASSUME NEW i \in Ids, RPopAmbiguous(i) PROVE RecordInv'
  BY <1>5 DEF RPopAmbiguous, abortAmbiguousDispatch
<1>6. ASSUME NEW i \in Ids, AbortInstalled(i) PROVE RecordInv'
  BY <1>6 DEF AbortInstalled, abortAmbiguousDispatch
<1>7. ASSUME NEW i \in Ids, EndToken(i) PROVE RecordInv'
  BY <1>7 DEF EndToken, PendingEnd
<1>8. ASSUME NEW i \in Ids, InstallGrant(i) PROVE RecordInv'
  BY <1>8 DEF InstallGrant, InstallCheck, InstallCommit
<1>9. ASSUME NEW i \in Ids, InstallRejected(i) PROVE RecordInv'
  BY <1>9 DEF InstallRejected, InstallRefused
<1>10. ASSUME NEW i \in Ids, AbortRejected(i) PROVE RecordInv'
  BY <1>10 DEF AbortRejected, abortAmbiguousDispatch
<1>11. ASSUME NEW i \in Ids, Execute(i) PROVE RecordInv'
  <2>1. UNCHANGED <<sup, recorded>> /\ (pc[i] = "closing" \/ UNCHANGED releaseSeq)
    BY <1>11, ExecuteFrame
  <2>2. \A g \in Groups : releaseSeq[g] <= releaseSeq'[g]
    BY <1>11, SequencesGrow
  <2>3. \A g \in Groups : releaseSeq'[g] \in Nat
    BY <1>11, RegistryStep, TypeStep, <1>0
  <2>4. ASSUME sup = "done" PROVE pc[i] # "closing"
    BY <2>4, DrainedQuiet DEF SupInv
  <2> QED
    BY <2>1, <2>2, <2>3, <2>4
<1>12. ASSUME NEW i \in Ids, NEW g \in Groups \cup {Unaccounted}, HomeGrants(i, g)
       PROVE  RecordInv'
  BY <1>12 DEF HomeGrants
<1>13. ASSUME NEW g \in Groups, NEW n \in Ids, HomeRecords(g, n) PROVE RecordInv'
  <2>1. /\ recorded' = [recorded EXCEPT ![g] = n] /\ UNCHANGED <<sup, releaseSeq>>
        /\ n > recorded[g]
    BY <1>13 DEF HomeRecords
  <2>2. n \in Nat
    BY DEF Ids
  <2>3. n <= releaseSeq[g]
    BY <1>13 DEF HomeRecords, ToldInv
  <2>4. sup # "done"
    BY <2>1, <2>2, <2>3
  <2> QED
    BY <2>1, <2>2, <2>3, <2>4
<1>14. ASSUME NEW s \in Sinks, InstallSink(s) PROVE RecordInv'
  BY <1>14 DEF InstallSink, SetReleaseSink, Goto
<1>15. CASE Publish
  BY <1>15 DEF Publish
<1>16. CASE LifetimeEnds
  BY <1>16 DEF LifetimeEnds, detachHomeSubscriberLifetime, Goto
<1>17. CASE CloseClient
  BY <1>17 DEF CloseClient, Goto
<1>18. CASE SettleCall \/ SupervisorDrains
  BY <1>18, SupervisorCalling, CallFrame
<1>19. CASE TakeOver
  BY <1>19 DEF TakeOver, Goto
<1>20. CASE StartAnew
  BY <1>20 DEF StartAnew, SetReleaseSink, Goto
<1>21. CASE GiveUp
  BY <1>21 DEF GiveUp, SetReleaseSink, Goto
<1>22. CASE Recovered
  BY <1>22 DEF Recovered, Goto
<1>23. CASE FlushReleases
  BY <1>23 DEF FlushReleases, Goto
<1>24. CASE ShutDown
  <2>1. /\ UNCHANGED <<recorded, releaseSeq>>
        /\ \A s \in Sinks, g \in Groups, n \in Ids : <<s, g, n>> \in told => recorded[g] >= n
        /\ sup = "flushing" /\ caller[DrainCall] = "drain.ok" /\ sink \in Sinks /\ replay = {}
    BY <1>24 DEF ShutDown, SetReleaseSink, SupInv
  <2>2. ASSUME NEW g \in Groups PROVE recorded[g] >= releaseSeq[g]
    <3>1. CASE releaseSeq[g] = 0
      BY <3>1
    <3>2. CASE releaseSeq[g] # 0
      <4>1. SinkHears(g)
        BY <2>1, <3>2, NoSinkAssumption DEF SinkHearsLatest
      <4>2. <<sink, g, releaseSeq[g]>> \in told
        BY <2>1, <4>1, DrainedQuiet DEF SinkHears
      <4>3. releaseSeq[g] \in 0..MaxDispatch
        BY SequenceBound
      <4>4. releaseSeq[g] \in Ids
        BY <3>2, <4>3 DEF Ids
      <4> QED
        BY <2>1, <4>2, <4>4
    <3> QED
      BY <3>1, <3>2
  <2>3. ASSUME NEW g \in Groups PROVE recorded[g] = releaseSeq[g]
    <3>1. recorded[g] \in Nat /\ releaseSeq[g] \in Nat /\ recorded[g] <= releaseSeq[g]
      OBVIOUS
    <3> QED
      BY <2>2, <3>1
  <2> QED
    BY <2>1, <2>3
<1>25. CASE UNCHANGED allVars
  BY <1>25 DEF allVars
<1> QED
  BY <1>1, <1>2, <1>3, <1>4, <1>5, <1>6, <1>7, <1>8, <1>9, <1>10, <1>11, <1>12, <1>13,
     <1>14, <1>15, <1>16, <1>17, <1>18, <1>19, <1>20, <1>21, <1>22, <1>23, <1>24, <1>25
     DEF LifetimeNext, Request, Supervisor

(***************************************************************************)
(* The inductive invariant and what follows from it.                       *)
(***************************************************************************)
\* Both invariants hold when the service starts.
LEMMA LifetimeIndInit == LifetimeInit => IndInv /\ LifetimeInd
<1> SUFFICES ASSUME LifetimeInit PROVE IndInv /\ LifetimeInd
  OBVIOUS
<1> USE MaxLifetimeAssumption DEF LifetimeInit, Lifetimes
<1>1. IndInv
  BY IndInit
<1>2. RequestType
  BY DEF RequestType
<1>3. SupInv
  BY DEF SupInv, Init
<1>4. ProgressInv /\ GrantInv
  BY DEF ProgressInv, GrantInv, GrantOf, Init, Installed, ScopePCs
<1>5. FenceInv
  BY CallersAssumption DEF FenceInv, WaitedInv, PastInv, Init, DrainCall, DeferredDrain
<1>6. ToldInv /\ RecordInv
  BY DEF ToldInv, RecordInv, Init
<1> QED
  BY <1>1, <1>2, <1>3, <1>4, <1>5, <1>6 DEF LifetimeInd

\* Every step of the service preserves them together: the registry's part rests
\* on the refinement, the rest on the lemmas above.
LEMMA LifetimeIndStep ==
    ASSUME IndInv, LifetimeInd, [LifetimeNext]_allVars
    PROVE  IndInv' /\ LifetimeInd'
<1> USE DEF LifetimeInd
<1>1. IndInv'
  BY RegistryStep, IndStep
<1>2. TypeOK /\ OwnersInv
  BY DEF IndInv
<1>3. RequestType'
  BY <1>2, RequestTypeStep
<1>4. SupInv'
  BY <1>2, SupStep
<1>5. ProgressInv'
  BY <1>2, ProgressStep
<1>6. GrantInv'
  BY <1>2, GrantStep
<1>7. FenceInv'
  BY <1>2, FenceStep DEF FenceInv
<1>8. ToldInv'
  BY <1>2, ToldStep
<1>9. RecordInv'
  BY RecordStep
<1> QED
  BY <1>1, <1>3, <1>4, <1>5, <1>6, <1>7, <1>8, <1>9

\* The invariant of the registry and that of the lifetime hold together.
THEOREM LifetimeInvariant == LifetimeSpec => [](IndInv /\ LifetimeInd)
<1>1. IndInv /\ LifetimeInd /\ [LifetimeNext]_allVars => (IndInv /\ LifetimeInd)'
  BY LifetimeIndStep
<1> QED
  BY <1>1, LifetimeIndInit, PTL DEF LifetimeSpec

\* Under the supervisor, the requests and Home, the registry does nothing but
\* what ExecutionRegistry allows: what is proved of the registry holds of every
\* lifetime (service_home.go calls it through its exported methods only).
THEOREM LifetimeImplementsRegistry == LifetimeSpec => Spec
<1>1. LifetimeInit => Init
  BY DEF LifetimeInit
<1>2. IndInv /\ LifetimeInd /\ [LifetimeNext]_allVars => [Next]_vars
  BY RegistryStep DEF LifetimeInd
<1> QED
  BY <1>1, <1>2, LifetimeInvariant, PTL DEF LifetimeSpec, Spec

\* Every variable keeps its type, the registry's and the lifetime's.
THEOREM LifetimeTypeCorrect == LifetimeSpec => []LifetimeTypeOK
<1>1. IndInv /\ LifetimeInd => LifetimeTypeOK
  BY DEF IndInv, LifetimeInd, RequestType, LifetimeTypeOK
<1> QED
  BY <1>1, LifetimeInvariant, PTL

\* A membership is taken over only when every slot Home granted to an earlier
\* lifetime belongs to a scope of the registry.
THEOREM TakeoverCorrect == LifetimeSpec => []TakeoverKnowsGrants
<1>1. IndInv /\ LifetimeInd => TakeoverKnowsGrants
  <2> SUFFICES ASSUME IndInv, LifetimeInd, NEW i \in Ids, NEW g \in Groups,
                      <<i, g>> \in grants, via[i] < lifetime
               PROVE  group[i] = g /\ pc[i] \in Installed
    BY DEF TakeoverKnowsGrants, Installed
  <2> USE DEF LifetimeInd
  <2>1. rpc[i] \in {"granted", "replied", "ambiguous", "rejected"}
    BY DEF GrantInv, GrantOf
  <2>2. via[i] # 0
    BY <2>1 DEF ProgressInv
  <2>3. Settled(i)
    BY <2>2 DEF FenceInv, PastInv
  <2>4. ~(rpc[i] = "replied" /\ pc[i] = "dropped")
    BY UnaccountedAssumption DEF GrantInv, GrantOf
  <2>5. pc[i] \in Installed
    BY <2>1, <2>3, <2>4 DEF Settled
  <2>6. group[i] \in Groups \cup {Unaccounted}
    BY DEF IndInv, TypeOK, DispatchType
  <2> QED
    BY <2>5, <2>6 DEF GrantInv, GrantOf
<1> QED
  BY <1>1, LifetimeInvariant, PTL

\* Home never counts fewer executions in a group than are running.
THEOREM NoUnderCount == LifetimeSpec => []HomeNeverUnderCounts
<1>1. IndInv /\ LifetimeInd => HomeNeverUnderCounts
  <2> SUFFICES ASSUME IndInv, LifetimeInd, NEW g \in Groups
               PROVE  recorded[g] <= Cardinality({i \in Released(g) : <<i, g>> \in grants})
    BY DEF HomeNeverUnderCounts
  <2>1. \A i \in Released(g) : <<i, g>> \in grants
    BY DEF LifetimeInd, GrantInv, GrantOf, Released, ReleasedPCs, Installed, ScopePCs
  <2>2. {i \in Released(g) : <<i, g>> \in grants} = Released(g)
    BY <2>1
  <2>3. recorded[g] <= releaseSeq[g]
    BY DEF LifetimeInd, RecordInv
  <2> QED
    BY <2>2, <2>3 DEF IndInv, SequenceCountsReleases
<1> QED
  BY <1>1, LifetimeInvariant, PTL

\* A new registry starts when nothing of the old one runs or is on the wire.
THEOREM RecoveryCorrect == LifetimeSpec => []RecoveredIsQuiet
<1>1. IndInv /\ LifetimeInd => RecoveredIsQuiet
  <2> SUFFICES ASSUME IndInv, LifetimeInd, sup = "recovered", NEW i \in Ids
               PROVE  /\ pc[i] \in {"unborn", "ended", "dropped"}
                      /\ rpc[i] \notin {"issued", "granted"}
    BY DEF RecoveredIsQuiet
  <2>1. pc[i] \in {"unborn", "ended", "dropped"}
    BY DrainedQuiet DEF LifetimeInd, SupInv
  <2> QED
    BY <2>1 DEF LifetimeInd, ProgressInv
<1> QED
  BY <1>1, LifetimeInvariant, PTL

\* A shutdown that drained and flushed has given every installed slot back.
THEOREM ShutdownCorrect == LifetimeSpec => []CleanShutdownFreesAll
<1>1. IndInv /\ LifetimeInd => CleanShutdownFreesAll
  <2> SUFFICES ASSUME IndInv, LifetimeInd, sup = "done"
               PROVE  /\ \A i \in Ids : pc[i] \in {"unborn", "ended", "dropped"}
                      /\ \A g \in Groups :
                            recorded[g] = Cardinality({i \in Ids : group[i] = g})
    BY DEF CleanShutdownFreesAll
  <2>1. \A i \in Ids : pc[i] \in {"unborn", "ended", "dropped"}
    BY DrainedQuiet DEF LifetimeInd, SupInv
  <2>2. ASSUME NEW g \in Groups PROVE recorded[g] = Cardinality({i \in Ids : group[i] = g})
    <3>1. \A i \in Ids : group[i] = g => pc[i] = "ended"
      BY <2>1, UnaccountedAssumption DEF LifetimeInd, GrantInv, GrantOf, Installed, ScopePCs
    <3>2. {i \in Ids : group[i] = g} = Released(g)
      BY <3>1 DEF Released, ReleasedPCs
    <3>3. recorded[g] = releaseSeq[g]
      BY DEF LifetimeInd, RecordInv
    <3> QED
      BY <3>2, <3>3 DEF IndInv, SequenceCountsReleases
  <2> QED
    BY <2>1, <2>2
<1> QED
  BY <1>1, LifetimeInvariant, PTL

\* The types, Home's count and the quiet start of a new membership, at once.
THEOREM LifetimeCorrect == LifetimeSpec => []LifetimeInv
<1>1. LifetimeTypeOK /\ HomeNeverUnderCounts /\ RecoveredIsQuiet => LifetimeInv
  BY DEF LifetimeInv
<1> QED
  BY <1>1, LifetimeTypeCorrect, NoUnderCount, RecoveryCorrect, PTL
=============================================================================
