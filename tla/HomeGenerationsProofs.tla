----------------------- MODULE HomeGenerationsProofs -----------------------
(***************************************************************************)
(* Machine-checked proofs about HomeGenerations, for any number of starts, *)
(* lifetimes and configurations: generations do not overlap, what is over  *)
(* is published nowhere, a replaced generation commits nothing, and after  *)
(* a failed drain no client starts.                                        *)
(***************************************************************************)
EXTENDS HomeGenerations, FiniteSetTheorems, TLAPS

(***************************************************************************)
(* The inductive invariant.                                                *)
(***************************************************************************)
\* The callers: one at a time between its lock and its return; it goes on from
\* its wait only when the supervisor it found is through, and a start has a
\* number left to give.
CallType ==
    /\ lifecycleMu \in Callers \cup {"free"}
    /\ call \in [Callers -> {"idle", "cancel", "wait", "take", "drain", "go", "returned"}]
    /\ generation \in 0..(MaxGeneration + 1) /\ supervisor \in 0..generation
    /\ done \subseteq 1..generation

Busy == {"cancel", "wait", "take", "drain", "go"}

CallInv ==
    /\ \A a \in Callers : call[a] \in Busy => lifecycleMu = a
    /\ \A a \in Callers : call[a] \in {"cancel", "wait"} => supervisor # 0
    /\ \A a \in Callers : call[a] \in {"take", "drain", "go"} => supervisor \in done \cup {0}
    /\ call["start"] \in Busy => generation < MaxGeneration
    /\ call["stop"] \in {"idle", "cancel", "wait", "take"} => generation <= MaxGeneration
    /\ call["stop"] # "go"

\* The supervisors: only the last one is not through, and its worker and its
\* publisher end before it goes on from a lifetime.
SupType ==
    /\ sup \in [Generations -> {"off", "new", "run", "enqueue", "join", "detach", "clear",
                                "settle", "drain", "deferred", "exit"}]
    /\ worker \in [Generations -> {"ready", "dequeue", "asleep", "stage", "commit", "check",
                                   "store", "runtime", "gave up", "finalize", "publish",
                                   "publishers", "ended"}]
    /\ publisher \in [Generations -> {"none", "running", "done"}]
    /\ life \in [Generations -> 0..MaxLifetime]

Lifetime == {"run", "enqueue", "join"}
Attached == Lifetime \cup {"detach"}
Exposed == Attached \cup {"clear"}

SupInv ==
    \A g \in Generations :
        /\ sup[g] # "off" => g = supervisor /\ g \notin done
        /\ worker[g] # "ended" \/ publisher[g] = "running" => sup[g] \in Lifetime
        /\ sup[g] \in Exposed => life[g] # 0

\* What is published: the client of the supervisor's lifetime or nothing, until
\* the lifetime is detached and cleared.
PubType ==
    /\ {held, homeClient, bundle, logClient, dispatch, current, config}
           \subseteq Clients \cup {None}
    /\ took \in [Generations -> Clients \cup {None}]
    /\ homeCancel \in Generations \cup {0}

PubInv ==
    /\ bundle = homeClient
    /\ \A c \in {homeClient, logClient} : c # None =>
        \E g \in Generations : c = client(g) /\ sup[g] \in Attached
    /\ \A c \in {dispatch, current} : c # None =>
        \E g \in Generations : c = client(g) /\ sup[g] \in Exposed
    /\ \A g \in Generations : dispatch = client(g) =>
        /\ sup[g] \in Attached => homeClient = client(g)
        /\ sup[g] = "clear" => took[g] = client(g)

\* The configurations: what is queued was received.
WorkType ==
    /\ queued \in [Generations -> 0..MaxConfig] /\ received \in [Generations -> 0..MaxConfig]
    /\ \A g \in Generations : queued[g] <= received[g]
    /\ ended \subseteq Clients

\* The commit lock is held by the worker that checks and stores, which keeps
\* its generation from being replaced.
CommitInv ==
    /\ commitMu \in {"free", "worker"}
    /\ (commitMu = "worker") = (\E g \in Generations : worker[g] \in {"check", "store"})
    /\ cancelled \subseteq Generations /\ replaced \subseteq cancelled
    /\ \A g \in Generations : worker[g] = "store" => g \notin replaced

FailedInv == failed => parentDone

GenerationsInd ==
    /\ CallType /\ CallInv /\ SupType /\ SupInv /\ PubType /\ PubInv
    /\ WorkType /\ CommitInv /\ FailedInv

(***************************************************************************)
(* The callers.                                                            *)
(***************************************************************************)
\* What moves a caller, the generation or the supervisors that are through.
LEMMA CallFrame ==
    ASSUME [Next]_vars
    PROVE  \/ (\E a \in Callers : CallLock(a)) \/ (\E a \in Callers : CallCancel(a))
           \/ (\E a \in Callers : CallWait(a)) \/ (\E a \in Callers : CallTake(a))
           \/ (\E a \in Callers, ok \in BOOLEAN : CallDrain(a, ok)) \/ StartGeneration
           \/ (\E g \in Generations : Exit(g))
           \/ UNCHANGED <<lifecycleMu, call, generation, supervisor, done>>
<1> DEFINE Same == UNCHANGED <<lifecycleMu, call, generation, supervisor, done>>
<1> USE DEF callVars, serviceVars, supVars, workVars, workerRest
<1>1. CASE UNCHANGED vars
  BY <1>1 DEF vars
<1>2. ASSUME CancelRun PROVE Same
  BY <1>2 DEF CancelRun
<1>3. ASSUME NEW g \in Generations,
           NewLifetime(g) \/ OnConfig(g) \/ Wake(g) \/ OnReady(g) \/ LifetimeEnds(g)
      PROVE  Same
  BY <1>3 DEF NewLifetime, OnConfig, Wake, OnReady, LifetimeEnds
<1>4. ASSUME NEW g \in Generations,
           Join(g) \/ Detach(g) \/ Clear(g) \/ WorkerReady(g) \/ Dequeue(g)
      PROVE  Same
  BY <1>4 DEF Join, Detach, Clear, WorkerReady, Dequeue
<1>5. ASSUME NEW g \in Generations,
           WorkerWakes(g) \/ CommitLock(g) \/ CommitCheck(g) \/ CommitStore(g) \/ GaveUp(g)
      PROVE  Same
  BY <1>5 DEF WorkerWakes, CommitLock, CommitCheck, CommitStore, GaveUp
<1>6. ASSUME NEW g \in Generations,
           Publish(g) \/ StartPublishers(g) \/ PublisherEnds(g)
      PROVE  Same
  BY <1>6 DEF Publish, StartPublishers, PublisherEnds
<1>7. ASSUME NEW g \in Generations, NEW ok \in BOOLEAN,
           Settle(g, ok) \/ Drain(g, ok) \/ DeferredDrain(g, ok)
      PROVE  Same
  BY <1>7 DEF Settle, Drain, DeferredDrain, Settles
<1>8. ASSUME NEW g \in Generations, NEW ok \in BOOLEAN,
           Stage(g, ok) \/ ApplyRuntime(g, ok) \/ Finalize(g, ok)
      PROVE  Same
  BY <1>8 DEF Stage, ApplyRuntime, Finalize
<1> QED
  BY <1>1, <1>2, <1>3, <1>4, <1>5, <1>6, <1>7, <1>8 DEF Next, Caller, Supervise, Work,
     HomeAnswers

\* The numbers of generations stay within their bounds: a caller that found a
\* number left holds the lock until it has used it.
LEMMA CallTypeStep ==
    ASSUME CallType, CallInv, SupType, SupInv, [Next]_vars
    PROVE  CallType'
<1> USE GenerationsAssumption DEF callVars, serviceVars, supVars, workVars, workerRest
<1>1. ASSUME NEW a \in Callers, CallLock(a) PROVE CallType'
  BY <1>1 DEF CallLock, CallType, CallInv, SupInv, Busy
<1>2. ASSUME NEW a \in Callers, CallCancel(a) PROVE CallType'
  BY <1>2 DEF CallCancel, CallType, CallInv, SupInv, Busy
<1>3. ASSUME NEW a \in Callers, CallWait(a) PROVE CallType'
  BY <1>3 DEF CallWait, CallType, CallInv, SupInv, Busy
<1>4. ASSUME NEW a \in Callers, CallTake(a) PROVE CallType'
  BY <1>4 DEF CallTake, CallType, CallInv, SupInv, Busy
<1>5. ASSUME NEW a \in Callers, NEW ok \in BOOLEAN, CallDrain(a, ok) PROVE CallType'
  BY <1>5 DEF CallDrain, CallType, CallInv, SupInv, Busy
<1>6. ASSUME StartGeneration PROVE CallType'
  <2>1. /\ generation < MaxGeneration /\ "start" \in Callers
        /\ generation \in Nat /\ supervisor \in 0..generation
    BY <1>6 DEF StartGeneration, CallInv, CallType, Busy, Callers
  <2>2. /\ generation' \in 0..(MaxGeneration + 1) /\ supervisor' \in 0..generation'
        /\ generation <= generation' /\ generation' \in Nat
    BY <1>6, <2>1 DEF StartGeneration
  <2>3. done' \subseteq 1..generation'
    BY <1>6, <2>1, <2>2 DEF StartGeneration, CallType
  <2>4. /\ lifecycleMu' \in Callers \cup {"free"}
        /\ call' \in [Callers -> {"idle", "cancel", "wait", "take", "drain", "go", "returned"}]
    BY <1>6 DEF StartGeneration, CallType
  <2> QED
    BY <2>2, <2>3, <2>4 DEF CallType
<1>7. ASSUME NEW g \in Generations, Exit(g) PROVE CallType'
  <2>1. g \in 1..generation
    BY <1>7 DEF Exit, SupInv, CallType, Generations
  <2> QED
    BY <1>7, <2>1 DEF Exit, CallType
<1>8. CASE UNCHANGED <<lifecycleMu, call, generation, supervisor, done>>
  BY <1>8 DEF CallType, CallInv, SupInv, Busy
<1> QED
  BY <1>1, <1>2, <1>3, <1>4, <1>5, <1>6, <1>7, <1>8, CallFrame

\* A caller goes on from its wait only when the supervisor is through, and no
\* other starts one meanwhile.
LEMMA CallStep ==
    ASSUME CallType, CallInv, SupType, SupInv, [Next]_vars
    PROVE  CallInv'
<1> USE GenerationsAssumption DEF callVars, serviceVars, supVars, workVars, workerRest
<1>1. ASSUME NEW a \in Callers, CallLock(a) PROVE CallInv'
  <2>1. \A b \in Callers : call[b] \notin Busy
    BY <1>1 DEF CallLock, CallInv, Callers
  <2>2. /\ lifecycleMu' = a /\ call[a] = "idle"
        /\ a = "start" => generation < MaxGeneration
        /\ call' = [call EXCEPT ![a] = IF supervisor = 0 THEN "take" ELSE "cancel"]
        /\ UNCHANGED <<generation, supervisor, done>>
    BY <1>1 DEF CallLock
  <2>3. \A b \in Callers : call'[b] \in Busy => lifecycleMu' = b
    BY <2>1, <2>2 DEF CallType
  <2>4. \A b \in Callers : call'[b] \in {"cancel", "wait"} => supervisor' # 0
    BY <2>1, <2>2 DEF CallType, Busy
  <2>5. \A b \in Callers : call'[b] \in {"take", "drain", "go"} => supervisor' \in done' \cup {0}
    BY <2>1, <2>2 DEF CallType, Busy
  <2>6. /\ call'["start"] \in Busy => generation' < MaxGeneration
        /\ call'["stop"] \in {"idle", "cancel", "wait", "take"} => generation' <= MaxGeneration
        /\ call'["stop"] # "go"
    BY <2>1, <2>2 DEF CallType, CallInv, Callers, Busy
  <2> QED
    BY <2>3, <2>4, <2>5, <2>6 DEF CallInv
<1>2. ASSUME NEW a \in Callers, CallCancel(a) PROVE CallInv'
  BY <1>2 DEF CallCancel, CallType, CallInv, SupInv, Busy
<1>3. ASSUME NEW a \in Callers, CallWait(a) PROVE CallInv'
  BY <1>3 DEF CallWait, CallType, CallInv, SupInv, Busy
<1>4. ASSUME NEW a \in Callers, CallTake(a) PROVE CallInv'
  <2>1. /\ lifecycleMu = a /\ supervisor \in done \cup {0}
        /\ a = "stop" => generation <= MaxGeneration
        /\ \A b \in Callers \ {a} : call[b] \notin Busy
    BY <1>4 DEF CallTake, CallInv, Busy
  <2>2. /\ lifecycleMu' = a /\ call[a] = "take" /\ call' = [call EXCEPT ![a] = "drain"]
        /\ generation' = IF a = "stop" THEN generation + 1 ELSE generation
        /\ UNCHANGED <<supervisor, done>>
    BY <1>4, <2>1 DEF CallTake
  <2>3. \A b \in Callers : call'[b] \in Busy => b = a /\ lifecycleMu' = b
    BY <2>1, <2>2 DEF CallType
  <2>4. \A b \in Callers : /\ call'[b] \in {"cancel", "wait"} => supervisor' # 0
                           /\ call'[b] \in {"take", "drain", "go"} =>
                                  supervisor' \in done' \cup {0}
    BY <2>1, <2>2, <2>3 DEF CallType, Busy
  <2>5. call'["start"] \in Busy => generation' < MaxGeneration
    BY <1>4, <2>2, <2>3 DEF CallInv, Callers, Busy
  <2>6. CASE a = "stop"
    BY <2>2, <2>3, <2>4, <2>5, <2>6 DEF CallType, CallInv, Callers
  <2>7. CASE a = "start"
    BY <2>2, <2>3, <2>4, <2>5, <2>7 DEF CallType, CallInv, Callers
  <2> QED
    BY <2>6, <2>7 DEF Callers
<1>5. ASSUME NEW a \in Callers, NEW ok \in BOOLEAN, CallDrain(a, ok) PROVE CallInv'
  BY <1>5 DEF CallDrain, CallType, CallInv, SupInv, Busy
<1>6. ASSUME StartGeneration PROVE CallInv'
  <2>1. /\ call["start"] = "go" /\ call["stop"] \notin Busy /\ "start" \in Callers
        /\ "stop" \in Callers /\ generation < MaxGeneration
    BY <1>6 DEF StartGeneration, CallInv, Busy, Callers
  <2>2. /\ call' = [call EXCEPT !["start"] = "idle"]
        /\ generation' = generation \/ generation' = generation + 1
    BY <1>6 DEF StartGeneration
  <2>3. \A b \in Callers : call'[b] \notin Busy
    BY <2>1, <2>2 DEF CallType, Callers, Busy
  <2>4. generation' <= MaxGeneration
    BY <2>1, <2>2 DEF CallType
  <2> QED
    BY <2>3, <2>4 DEF CallInv, Busy, Callers
<1>7. ASSUME NEW g \in Generations, Exit(g) PROVE CallInv'
  BY <1>7 DEF Exit, CallType, CallInv, SupInv, Busy
<1>8. CASE UNCHANGED <<lifecycleMu, call, generation, supervisor, done>>
  BY <1>8 DEF CallType, CallInv, SupInv, Busy
<1> QED
  BY <1>1, <1>2, <1>3, <1>4, <1>5, <1>6, <1>7, <1>8, CallFrame

(***************************************************************************)
(* The supervisors and their workers.                                      *)
(***************************************************************************)
\* What moves a supervisor, its worker or its publisher.
LEMMA SupFrame ==
    ASSUME [Next]_vars
    PROVE  \/ StartGeneration \/ (\E g \in Generations : NewLifetime(g))
           \/ (\E g \in Generations : OnConfig(g)) \/ (\E g \in Generations : Wake(g))
           \/ (\E g \in Generations : OnReady(g))
           \/ (\E g \in Generations : LifetimeEnds(g))
           \/ (\E g \in Generations : Join(g)) \/ (\E g \in Generations : Detach(g))
           \/ (\E g \in Generations : Clear(g))
           \/ (\E g \in Generations, ok \in BOOLEAN : Settle(g, ok))
           \/ (\E g \in Generations, ok \in BOOLEAN : Drain(g, ok))
           \/ (\E g \in Generations, ok \in BOOLEAN : DeferredDrain(g, ok))
           \/ (\E g \in Generations : Exit(g)) \/ (\E g \in Generations : WorkerReady(g))
           \/ (\E g \in Generations : Dequeue(g))
           \/ (\E g \in Generations : WorkerWakes(g))
           \/ (\E g \in Generations, ok \in BOOLEAN : Stage(g, ok))
           \/ (\E g \in Generations : CommitLock(g))
           \/ (\E g \in Generations : CommitCheck(g))
           \/ (\E g \in Generations : CommitStore(g))
           \/ (\E g \in Generations, ok \in BOOLEAN : ApplyRuntime(g, ok))
           \/ (\E g \in Generations : GaveUp(g))
           \/ (\E g \in Generations, ok \in BOOLEAN : Finalize(g, ok))
           \/ (\E g \in Generations : Publish(g))
           \/ (\E g \in Generations : StartPublishers(g))
           \/ (\E g \in Generations : PublisherEnds(g))
           \/ UNCHANGED <<sup, worker, publisher, life, supervisor, done>>
<1> DEFINE Same == UNCHANGED <<sup, worker, publisher, life, supervisor, done>>
<1> USE DEF callVars, serviceVars, supVars, workVars, workerRest
<1>1. CASE UNCHANGED vars
  BY <1>1 DEF vars
<1>2. ASSUME NEW a \in Callers,
           CallLock(a) \/ CallCancel(a) \/ CallWait(a) \/ CallTake(a)
      PROVE  Same
  BY <1>2 DEF CallLock, CallCancel, CallWait, CallTake
<1>3. ASSUME NEW a \in Callers, NEW ok \in BOOLEAN,
           CallDrain(a, ok)
      PROVE  Same
  BY <1>3 DEF CallDrain, Settles
<1>4. ASSUME CancelRun PROVE Same
  BY <1>4 DEF CancelRun
<1> QED
  BY <1>1, <1>2, <1>3, <1>4 DEF Next, Caller, Supervise, Work, HomeAnswers

\* What the supervisors and the workers are at.
LEMMA SupTypeStep ==
    ASSUME CallType, CallInv, SupType, [Next]_vars
    PROVE  SupType'
<1> USE GenerationsAssumption DEF callVars, serviceVars, supVars, workVars, workerRest
<1>1. ASSUME StartGeneration PROVE SupType'
  <2>1. generation + 1 \in Generations
    BY <1>1 DEF StartGeneration, CallInv, CallType, Busy, Callers, Generations
  <2> QED
    BY <1>1, <2>1 DEF StartGeneration, SupType
<1>2. ASSUME NEW g \in Generations, NewLifetime(g) PROVE SupType'
  <2>1. /\ sup[g] = "new" /\ life[g] \in 0..MaxLifetime
        /\ UNCHANGED <<supervisor, done>>
        /\ \/ /\ sup' = [sup EXCEPT ![g] = "deferred"]
              /\ UNCHANGED <<life, worker, publisher>>
           \/ /\ life[g] < MaxLifetime /\ life' = [life EXCEPT ![g] = life[g] + 1]
              /\ sup' = [sup EXCEPT ![g] = "run"]
              /\ worker' = [worker EXCEPT ![g] = "ready"]
              /\ publisher' = [publisher EXCEPT ![g] = "none"]
    BY <1>2 DEF NewLifetime, SupType
  <2>2. CASE sup' = [sup EXCEPT ![g] = "deferred"] /\ UNCHANGED <<life, worker, publisher>>
    BY <2>2 DEF SupType
  <2>3. CASE /\ life[g] < MaxLifetime /\ life' = [life EXCEPT ![g] = life[g] + 1]
             /\ sup' = [sup EXCEPT ![g] = "run"]
             /\ worker' = [worker EXCEPT ![g] = "ready"]
             /\ publisher' = [publisher EXCEPT ![g] = "none"]
    <3>1. life[g] + 1 \in 0..MaxLifetime
      BY <2>1, <2>3
    <3>2. life' \in [Generations -> 0..MaxLifetime]
      BY <2>3, <3>1 DEF SupType
    <3> QED
      BY <2>3, <3>2 DEF SupType
  <2> QED
    BY <2>1, <2>2, <2>3
<1>3. ASSUME NEW g \in Generations, OnConfig(g) PROVE SupType'
  BY <1>3 DEF OnConfig, SupType
<1>4. ASSUME NEW g \in Generations, Wake(g) PROVE SupType'
  BY <1>4 DEF Wake, SupType
<1>5. ASSUME NEW g \in Generations, OnReady(g) PROVE SupType'
  BY <1>5 DEF OnReady, SupType
<1>6. ASSUME NEW g \in Generations, LifetimeEnds(g) PROVE SupType'
  BY <1>6 DEF LifetimeEnds, SupType
<1>7. ASSUME NEW g \in Generations, Join(g) PROVE SupType'
  BY <1>7 DEF Join, SupType
<1>8. ASSUME NEW g \in Generations, Detach(g) PROVE SupType'
  BY <1>8 DEF Detach, SupType
<1>9. ASSUME NEW g \in Generations, Clear(g) PROVE SupType'
  BY <1>9 DEF Clear, SupType
<1>10. ASSUME NEW g \in Generations, NEW ok \in BOOLEAN, Settle(g, ok) PROVE SupType'
  BY <1>10 DEF Settle, SupType
<1>11. ASSUME NEW g \in Generations, NEW ok \in BOOLEAN, Drain(g, ok) PROVE SupType'
  BY <1>11 DEF Drain, SupType
<1>12. ASSUME NEW g \in Generations, NEW ok \in BOOLEAN, DeferredDrain(g, ok) PROVE SupType'
  BY <1>12 DEF DeferredDrain, SupType
<1>13. ASSUME NEW g \in Generations, Exit(g) PROVE SupType'
  BY <1>13 DEF Exit, SupType
<1>14. ASSUME NEW g \in Generations, WorkerReady(g) PROVE SupType'
  BY <1>14 DEF WorkerReady, SupType
<1>15. ASSUME NEW g \in Generations, Dequeue(g) PROVE SupType'
  BY <1>15 DEF Dequeue, SupType
<1>16. ASSUME NEW g \in Generations, WorkerWakes(g) PROVE SupType'
  BY <1>16 DEF WorkerWakes, SupType
<1>17. ASSUME NEW g \in Generations, NEW ok \in BOOLEAN, Stage(g, ok) PROVE SupType'
  BY <1>17 DEF Stage, SupType
<1>18. ASSUME NEW g \in Generations, CommitLock(g) PROVE SupType'
  BY <1>18 DEF CommitLock, SupType
<1>19. ASSUME NEW g \in Generations, CommitCheck(g) PROVE SupType'
  BY <1>19 DEF CommitCheck, SupType
<1>20. ASSUME NEW g \in Generations, CommitStore(g) PROVE SupType'
  BY <1>20 DEF CommitStore, SupType
<1>21. ASSUME NEW g \in Generations, NEW ok \in BOOLEAN, ApplyRuntime(g, ok) PROVE SupType'
  BY <1>21 DEF ApplyRuntime, SupType
<1>22. ASSUME NEW g \in Generations, GaveUp(g) PROVE SupType'
  BY <1>22 DEF GaveUp, SupType
<1>23. ASSUME NEW g \in Generations, NEW ok \in BOOLEAN, Finalize(g, ok) PROVE SupType'
  BY <1>23 DEF Finalize, SupType
<1>24. ASSUME NEW g \in Generations, Publish(g) PROVE SupType'
  BY <1>24 DEF Publish, SupType
<1>25. ASSUME NEW g \in Generations, StartPublishers(g) PROVE SupType'
  BY <1>25 DEF StartPublishers, SupType
<1>26. ASSUME NEW g \in Generations, PublisherEnds(g) PROVE SupType'
  BY <1>26 DEF PublisherEnds, SupType
<1>27. CASE UNCHANGED <<sup, worker, publisher, life, supervisor, done>>
  BY <1>27 DEF SupType
<1> QED
  BY <1>1, <1>2, <1>3, <1>4, <1>5, <1>6, <1>7, <1>8, <1>9, <1>10, <1>11, <1>12, <1>13, <1>14,
     <1>15, <1>16, <1>17, <1>18, <1>19, <1>20, <1>21, <1>22, <1>23, <1>24, <1>25, <1>26,
     <1>27, SupFrame

\* A supervisor starts when the one before it is through, and it goes on from a
\* lifetime when the worker and the publisher of the lifetime have ended.
LEMMA SupStep ==
    ASSUME CallType, CallInv, SupType, SupInv, [Next]_vars
    PROVE  SupInv'
<1> USE GenerationsAssumption DEF callVars, serviceVars, supVars, workVars, workerRest
<1>1. ASSUME StartGeneration PROVE SupInv'
  <2>1. /\ call["start"] = "go" /\ "start" \in Callers /\ generation \in Nat
        /\ supervisor \in done \cup {0} /\ generation + 1 \notin done
        /\ generation < MaxGeneration
    BY <1>1 DEF StartGeneration, CallInv, CallType, Busy, Callers
  <2>2. generation + 1 \in Generations /\ 0 \notin Generations
    BY <2>1 DEF Generations
  <2>3. ASSUME NEW h \in Generations
        PROVE  sup[h] = "off" /\ worker[h] = "ended" /\ publisher[h] # "running"
    BY <2>1, <2>2, <2>3 DEF SupInv, Lifetime
  <2>4. /\ UNCHANGED <<worker, publisher, life, done>>
        /\ \/ UNCHANGED sup
           \/ supervisor' = generation + 1 /\ sup' = [sup EXCEPT ![generation + 1] = "new"]
    BY <1>1 DEF StartGeneration
  <2>5. ASSUME NEW h \in Generations
        PROVE  /\ sup'[h] # "off" => h = supervisor' /\ h \notin done'
               /\ worker'[h] = "ended" /\ publisher'[h] # "running" /\ sup'[h] \notin Exposed
    BY <2>1, <2>2, <2>3, <2>4, <2>5 DEF SupType, Exposed, Attached, Lifetime
  <2> QED
    BY <2>5 DEF SupInv
<1>2. ASSUME NEW g \in Generations, NewLifetime(g) PROVE SupInv'
  <2>1. /\ sup[g] = "new" /\ life[g] \in 0..MaxLifetime
        /\ UNCHANGED <<supervisor, done>>
        /\ \/ /\ sup' = [sup EXCEPT ![g] = "deferred"]
              /\ UNCHANGED <<life, worker, publisher>>
           \/ /\ life[g] < MaxLifetime /\ life' = [life EXCEPT ![g] = life[g] + 1]
              /\ sup' = [sup EXCEPT ![g] = "run"]
              /\ worker' = [worker EXCEPT ![g] = "ready"]
              /\ publisher' = [publisher EXCEPT ![g] = "none"]
    BY <1>2 DEF NewLifetime, SupType
  <2>2. \A h \in Generations \ {g} : /\ sup'[h] = sup[h] /\ worker'[h] = worker[h]
                                   /\ publisher'[h] = publisher[h] /\ life'[h] = life[h]
    BY <2>1 DEF SupType
  <2>3. \/ sup'[g] = "run" /\ life'[g] = life[g] + 1
        \/ sup'[g] = "deferred" /\ worker'[g] = worker[g] /\ publisher'[g] = publisher[g]
    BY <2>1 DEF SupType
  <2>4. life'[g] = life[g] + 1 => life'[g] # 0
    BY <2>1
  <2> QED
    BY <2>1, <2>2, <2>3, <2>4 DEF SupInv, Lifetime, Attached, Exposed
<1>3. ASSUME NEW g \in Generations, OnConfig(g) PROVE SupInv'
  BY <1>3 DEF OnConfig, SupType, SupInv, Lifetime, Attached, Exposed
<1>4. ASSUME NEW g \in Generations, Wake(g) PROVE SupInv'
  BY <1>4 DEF Wake, SupType, SupInv, Lifetime, Attached, Exposed
<1>5. ASSUME NEW g \in Generations, OnReady(g) PROVE SupInv'
  BY <1>5 DEF OnReady, SupType, SupInv, Lifetime, Attached, Exposed
<1>6. ASSUME NEW g \in Generations, LifetimeEnds(g) PROVE SupInv'
  BY <1>6 DEF LifetimeEnds, SupType, SupInv, Lifetime, Attached, Exposed
<1>7. ASSUME NEW g \in Generations, Join(g) PROVE SupInv'
  BY <1>7 DEF Join, SupType, SupInv, Lifetime, Attached, Exposed
<1>8. ASSUME NEW g \in Generations, Detach(g) PROVE SupInv'
  BY <1>8 DEF Detach, SupType, SupInv, Lifetime, Attached, Exposed
<1>9. ASSUME NEW g \in Generations, Clear(g) PROVE SupInv'
  BY <1>9 DEF Clear, SupType, SupInv, Lifetime, Attached, Exposed
<1>10. ASSUME NEW g \in Generations, NEW ok \in BOOLEAN, Settle(g, ok) PROVE SupInv'
  BY <1>10 DEF Settle, SupType, SupInv, Lifetime, Attached, Exposed
<1>11. ASSUME NEW g \in Generations, NEW ok \in BOOLEAN, Drain(g, ok) PROVE SupInv'
  BY <1>11 DEF Drain, SupType, SupInv, Lifetime, Attached, Exposed
<1>12. ASSUME NEW g \in Generations, NEW ok \in BOOLEAN, DeferredDrain(g, ok) PROVE SupInv'
  BY <1>12 DEF DeferredDrain, SupType, SupInv, Lifetime, Attached, Exposed
<1>13. ASSUME NEW g \in Generations, Exit(g) PROVE SupInv'
  BY <1>13 DEF Exit, SupType, SupInv, Lifetime, Attached, Exposed
<1>14. ASSUME NEW g \in Generations, WorkerReady(g) PROVE SupInv'
  BY <1>14 DEF WorkerReady, SupType, SupInv, Lifetime, Attached, Exposed
<1>15. ASSUME NEW g \in Generations, Dequeue(g) PROVE SupInv'
  BY <1>15 DEF Dequeue, SupType, SupInv, Lifetime, Attached, Exposed
<1>16. ASSUME NEW g \in Generations, WorkerWakes(g) PROVE SupInv'
  BY <1>16 DEF WorkerWakes, SupType, SupInv, Lifetime, Attached, Exposed
<1>17. ASSUME NEW g \in Generations, NEW ok \in BOOLEAN, Stage(g, ok) PROVE SupInv'
  BY <1>17 DEF Stage, SupType, SupInv, Lifetime, Attached, Exposed
<1>18. ASSUME NEW g \in Generations, CommitLock(g) PROVE SupInv'
  BY <1>18 DEF CommitLock, SupType, SupInv, Lifetime, Attached, Exposed
<1>19. ASSUME NEW g \in Generations, CommitCheck(g) PROVE SupInv'
  BY <1>19 DEF CommitCheck, SupType, SupInv, Lifetime, Attached, Exposed
<1>20. ASSUME NEW g \in Generations, CommitStore(g) PROVE SupInv'
  BY <1>20 DEF CommitStore, SupType, SupInv, Lifetime, Attached, Exposed
<1>21. ASSUME NEW g \in Generations, NEW ok \in BOOLEAN, ApplyRuntime(g, ok) PROVE SupInv'
  BY <1>21 DEF ApplyRuntime, SupType, SupInv, Lifetime, Attached, Exposed
<1>22. ASSUME NEW g \in Generations, GaveUp(g) PROVE SupInv'
  BY <1>22 DEF GaveUp, SupType, SupInv, Lifetime, Attached, Exposed
<1>23. ASSUME NEW g \in Generations, NEW ok \in BOOLEAN, Finalize(g, ok) PROVE SupInv'
  BY <1>23 DEF Finalize, SupType, SupInv, Lifetime, Attached, Exposed
<1>24. ASSUME NEW g \in Generations, Publish(g) PROVE SupInv'
  BY <1>24 DEF Publish, SupType, SupInv, Lifetime, Attached, Exposed
<1>25. ASSUME NEW g \in Generations, StartPublishers(g) PROVE SupInv'
  BY <1>25 DEF StartPublishers, SupType, SupInv, Lifetime, Attached, Exposed
<1>26. ASSUME NEW g \in Generations, PublisherEnds(g) PROVE SupInv'
  BY <1>26 DEF PublisherEnds, SupType, SupInv, Lifetime, Attached, Exposed
<1>27. CASE UNCHANGED <<sup, worker, publisher, life, supervisor, done>>
  BY <1>27 DEF SupType, SupInv, Lifetime, Attached, Exposed
<1> QED
  BY <1>1, <1>2, <1>3, <1>4, <1>5, <1>6, <1>7, <1>8, <1>9, <1>10, <1>11, <1>12, <1>13, <1>14,
     <1>15, <1>16, <1>17, <1>18, <1>19, <1>20, <1>21, <1>22, <1>23, <1>24, <1>25, <1>26,
     <1>27, SupFrame

(***************************************************************************)
(* The configurations and the failures.                                    *)
(***************************************************************************)
\* The client of a lifetime has a number.
LEMMA ClientOf ==
    ASSUME SupType, SupInv, NEW g \in Generations, sup[g] \in Exposed
    PROVE  client(g) \in Clients
<1>1. life[g] # 0
  BY DEF SupInv
<1>2. life[g] \in 0..MaxLifetime
  BY DEF SupType
<1>3. life[g] \in 1..MaxLifetime
  BY <1>1, <1>2, GenerationsAssumption
<1> QED
  BY <1>3 DEF client, Clients

\* What moves a worker, the commit lock or the generations that are cancelled.
LEMMA CommitFrame ==
    ASSUME [Next]_vars
    PROVE  \/ (\E a \in Callers : CallCancel(a)) \/ (\E a \in Callers : CallTake(a))
           \/ (\E g \in Generations : NewLifetime(g))
           \/ (\E g \in Generations : WorkerReady(g))
           \/ (\E g \in Generations : Dequeue(g))
           \/ (\E g \in Generations : WorkerWakes(g))
           \/ (\E g \in Generations, ok \in BOOLEAN : Stage(g, ok))
           \/ (\E g \in Generations : CommitLock(g))
           \/ (\E g \in Generations : CommitCheck(g))
           \/ (\E g \in Generations : CommitStore(g))
           \/ (\E g \in Generations, ok \in BOOLEAN : ApplyRuntime(g, ok))
           \/ (\E g \in Generations : GaveUp(g))
           \/ (\E g \in Generations, ok \in BOOLEAN : Finalize(g, ok))
           \/ (\E g \in Generations : Publish(g))
           \/ (\E g \in Generations : StartPublishers(g))
           \/ UNCHANGED <<commitMu, worker, cancelled, replaced>>
<1> DEFINE Same == UNCHANGED <<commitMu, worker, cancelled, replaced>>
<1> USE DEF callVars, serviceVars, supVars, workVars, workerRest
<1>1. CASE UNCHANGED vars
  BY <1>1 DEF vars
<1>2. ASSUME NEW a \in Callers,
           CallLock(a) \/ CallWait(a)
      PROVE  Same
  BY <1>2 DEF CallLock, CallWait
<1>3. ASSUME NEW a \in Callers, NEW ok \in BOOLEAN,
           CallDrain(a, ok)
      PROVE  Same
  BY <1>3 DEF CallDrain, Settles
<1>4. ASSUME StartGeneration \/ CancelRun PROVE Same
  BY <1>4 DEF StartGeneration, CancelRun
<1>5. ASSUME NEW g \in Generations,
           OnConfig(g) \/ Wake(g) \/ OnReady(g) \/ LifetimeEnds(g) \/ Join(g)
      PROVE  Same
  BY <1>5 DEF OnConfig, Wake, OnReady, LifetimeEnds, Join
<1>6. ASSUME NEW g \in Generations,
           Detach(g) \/ Clear(g) \/ Exit(g) \/ PublisherEnds(g)
      PROVE  Same
  BY <1>6 DEF Detach, Clear, Exit, PublisherEnds
<1>7. ASSUME NEW g \in Generations, NEW ok \in BOOLEAN,
           Settle(g, ok) \/ Drain(g, ok) \/ DeferredDrain(g, ok)
      PROVE  Same
  BY <1>7 DEF Settle, Drain, DeferredDrain, Settles
<1> QED
  BY <1>1, <1>2, <1>3, <1>4, <1>5, <1>6, <1>7 DEF Next, Caller, Supervise, Work, HomeAnswers

\* A step of the worker outside of the commit.
LEMMA CommitKept ==
    ASSUME CommitInv, NEW g \in Generations, worker[g] \notin {"check", "store"},
           worker'[g] \notin {"check", "store"},
           \A h \in Generations \ {g} : worker'[h] = worker[h],
           UNCHANGED <<commitMu, cancelled, replaced>>
    PROVE  CommitInv'
<1>1. \A h \in Generations :
         worker'[h] \in {"check", "store"} <=> worker[h] \in {"check", "store"}
  OBVIOUS
<1>2. \A h \in Generations : worker'[h] = "store" => worker[h] = "store"
  OBVIOUS
<1> QED
  BY <1>1, <1>2 DEF CommitInv

\* The check of a commit and the store that follows hold the lock that a caller
\* needs to cancel the generation.
LEMMA CommitStep ==
    ASSUME CallType, CallInv, SupType, SupInv, PubType, CommitInv, [Next]_vars
    PROVE  CommitInv'
<1> USE GenerationsAssumption DEF callVars, serviceVars, supVars, workVars, workerRest
<1>1. ASSUME NEW a \in Callers, CallCancel(a) PROVE CommitInv'
  <2>1. supervisor \in Generations
    BY <1>1 DEF CallCancel, CallInv, CallType, Generations
  <2>2. commitMu = "free" /\ \A g \in Generations : worker[g] # "store"
    BY <1>1 DEF CallCancel, CommitInv
  <2> QED
    BY <1>1, <2>1, <2>2 DEF CallCancel, CommitInv
<1>2. ASSUME NEW a \in Callers, CallTake(a) PROVE CommitInv'
  <2>1. homeCancel \in Generations \cup {0}
    BY DEF PubType
  <2> QED
    BY <1>2, <2>1 DEF CallTake, CommitInv
<1>3. ASSUME NEW g \in Generations, NewLifetime(g) PROVE CommitInv'
  <2>1. /\ worker[g] \notin {"check", "store"} /\ worker'[g] \notin {"check", "store"}
        /\ \A h \in Generations \ {g} : worker'[h] = worker[h]
        /\ UNCHANGED <<commitMu, cancelled, replaced>>
    BY <1>3 DEF NewLifetime, SupType, SupInv, Lifetime
  <2> QED
    BY <2>1, CommitKept
<1>4. ASSUME NEW g \in Generations, WorkerReady(g) PROVE CommitInv'
  <2>1. /\ worker[g] \notin {"check", "store"} /\ worker'[g] \notin {"check", "store"}
        /\ \A h \in Generations \ {g} : worker'[h] = worker[h]
        /\ UNCHANGED <<commitMu, cancelled, replaced>>
    BY <1>4 DEF WorkerReady, SupType
  <2> QED
    BY <2>1, CommitKept
<1>5. ASSUME NEW g \in Generations, Dequeue(g) PROVE CommitInv'
  <2>1. /\ worker[g] \notin {"check", "store"} /\ worker'[g] \notin {"check", "store"}
        /\ \A h \in Generations \ {g} : worker'[h] = worker[h]
        /\ UNCHANGED <<commitMu, cancelled, replaced>>
    BY <1>5 DEF Dequeue, SupType
  <2> QED
    BY <2>1, CommitKept
<1>6. ASSUME NEW g \in Generations, WorkerWakes(g) PROVE CommitInv'
  <2>1. /\ worker[g] \notin {"check", "store"} /\ worker'[g] \notin {"check", "store"}
        /\ \A h \in Generations \ {g} : worker'[h] = worker[h]
        /\ UNCHANGED <<commitMu, cancelled, replaced>>
    BY <1>6 DEF WorkerWakes, SupType
  <2> QED
    BY <2>1, CommitKept
<1>7. ASSUME NEW g \in Generations, NEW ok \in BOOLEAN, Stage(g, ok) PROVE CommitInv'
  <2>1. /\ worker[g] \notin {"check", "store"} /\ worker'[g] \notin {"check", "store"}
        /\ \A h \in Generations \ {g} : worker'[h] = worker[h]
        /\ UNCHANGED <<commitMu, cancelled, replaced>>
    BY <1>7 DEF Stage, SupType
  <2> QED
    BY <2>1, CommitKept
<1>8. ASSUME NEW g \in Generations, CommitLock(g) PROVE CommitInv'
  <2>1. /\ commitMu' = "worker" /\ worker'[g] = "check"
        /\ \A h \in Generations \ {g} : worker'[h] = worker[h]
        /\ UNCHANGED <<cancelled, replaced>>
    BY <1>8 DEF CommitLock, SupType
  <2>2. \A h \in Generations : worker'[h] = "store" => worker[h] = "store"
    BY <2>1
  <2>3. (\E h \in Generations : worker'[h] \in {"check", "store"}) = TRUE
    BY <2>1
  <2> QED
    BY <2>1, <2>2, <2>3 DEF CommitInv
<1>9. ASSUME NEW g \in Generations, CommitCheck(g) PROVE CommitInv'
  <2>1. \A h \in Generations \ {g} : worker[h] = "ended"
    BY <1>9 DEF CommitCheck, SupInv, Lifetime
  <2>2. worker[g] = "check" /\ commitMu = "worker"
    BY <1>9 DEF CommitCheck, CommitInv
  <2>3. /\ \A h \in Generations \ {g} : worker'[h] = "ended"
        /\ UNCHANGED <<cancelled, replaced>>
    BY <1>9, <2>1 DEF CommitCheck, SupType
  <2>4. CASE homeLifetimeActive(g)
    <3>1. g \notin replaced
      BY <2>4 DEF homeLifetimeActive, lifetimeDone, homeCtxDone, CommitInv
    <3>2. worker'[g] = "store" /\ commitMu' = "worker"
      BY <1>9, <2>2, <2>4 DEF CommitCheck, SupType
    <3> QED
      BY <2>3, <3>1, <3>2 DEF CommitInv
  <2>5. CASE ~homeLifetimeActive(g)
    <3>1. worker'[g] = "ended" /\ commitMu' = "free"
      BY <1>9, <2>5 DEF CommitCheck, SupType
    <3> QED
      BY <2>3, <3>1 DEF CommitInv
  <2> QED
    BY <2>4, <2>5
<1>10. ASSUME NEW g \in Generations, CommitStore(g) PROVE CommitInv'
  <2>1. \A h \in Generations \ {g} : worker[h] = "ended"
    BY <1>10 DEF CommitStore, SupInv, Lifetime
  <2>2. /\ \A h \in Generations : worker'[h] \notin {"check", "store"}
        /\ commitMu' = "free" /\ UNCHANGED <<cancelled, replaced>>
    <3>1. /\ worker' = [worker EXCEPT ![g] = "runtime"]
          /\ commitMu' = "free" /\ UNCHANGED <<cancelled, replaced>>
      BY <1>10 DEF CommitStore
    <3> QED
      BY <2>1, <3>1 DEF SupType
  <2> QED
    BY <2>2 DEF CommitInv
<1>11. ASSUME NEW g \in Generations, NEW ok \in BOOLEAN, ApplyRuntime(g, ok) PROVE CommitInv'
  <2>1. /\ worker[g] \notin {"check", "store"} /\ worker'[g] \notin {"check", "store"}
        /\ \A h \in Generations \ {g} : worker'[h] = worker[h]
        /\ UNCHANGED <<commitMu, cancelled, replaced>>
    BY <1>11 DEF ApplyRuntime, SupType
  <2> QED
    BY <2>1, CommitKept
<1>12. ASSUME NEW g \in Generations, GaveUp(g) PROVE CommitInv'
  <2>1. /\ worker[g] \notin {"check", "store"} /\ worker'[g] \notin {"check", "store"}
        /\ \A h \in Generations \ {g} : worker'[h] = worker[h]
        /\ UNCHANGED <<commitMu, cancelled, replaced>>
    BY <1>12 DEF GaveUp, SupType
  <2> QED
    BY <2>1, CommitKept
<1>13. ASSUME NEW g \in Generations, NEW ok \in BOOLEAN, Finalize(g, ok) PROVE CommitInv'
  <2>1. /\ worker[g] \notin {"check", "store"} /\ worker'[g] \notin {"check", "store"}
        /\ \A h \in Generations \ {g} : worker'[h] = worker[h]
        /\ UNCHANGED <<commitMu, cancelled, replaced>>
    BY <1>13 DEF Finalize, SupType
  <2> QED
    BY <2>1, CommitKept
<1>14. ASSUME NEW g \in Generations, Publish(g) PROVE CommitInv'
  <2>1. /\ worker[g] \notin {"check", "store"} /\ worker'[g] \notin {"check", "store"}
        /\ \A h \in Generations \ {g} : worker'[h] = worker[h]
        /\ UNCHANGED <<commitMu, cancelled, replaced>>
    BY <1>14 DEF Publish, SupType
  <2> QED
    BY <2>1, CommitKept
<1>15. ASSUME NEW g \in Generations, StartPublishers(g) PROVE CommitInv'
  <2>1. /\ worker[g] \notin {"check", "store"} /\ worker'[g] \notin {"check", "store"}
        /\ \A h \in Generations \ {g} : worker'[h] = worker[h]
        /\ UNCHANGED <<commitMu, cancelled, replaced>>
    BY <1>15 DEF StartPublishers, SupType
  <2> QED
    BY <2>1, CommitKept
<1>16. CASE UNCHANGED <<commitMu, worker, cancelled, replaced>>
  BY <1>16 DEF SupType, SupInv, CommitInv, Lifetime
<1> QED
  BY <1>1, <1>2, <1>3, <1>4, <1>5, <1>6, <1>7, <1>8, <1>9, <1>10, <1>11, <1>12, <1>13, <1>14,
     <1>15, <1>16, CommitFrame

\* What moves the configurations a lifetime has received, or ends one.
LEMMA WorkFrame ==
    ASSUME [Next]_vars
    PROVE  \/ (\E g \in Generations : NewLifetime(g))
           \/ (\E g \in Generations : OnConfig(g))
           \/ (\E g \in Generations : LifetimeEnds(g))
           \/ (\E g \in Generations : Dequeue(g))
           \/ UNCHANGED <<queued, received, ended>>
<1> DEFINE Same == UNCHANGED <<queued, received, ended>>
<1> USE DEF callVars, serviceVars, supVars, workVars, workerRest
<1>1. CASE UNCHANGED vars
  BY <1>1 DEF vars
<1>2. ASSUME NEW a \in Callers,
           CallLock(a) \/ CallCancel(a) \/ CallWait(a) \/ CallTake(a)
      PROVE  Same
  BY <1>2 DEF CallLock, CallCancel, CallWait, CallTake
<1>3. ASSUME NEW a \in Callers, NEW ok \in BOOLEAN,
           CallDrain(a, ok)
      PROVE  Same
  BY <1>3 DEF CallDrain, Settles
<1>4. ASSUME StartGeneration \/ CancelRun PROVE Same
  BY <1>4 DEF StartGeneration, CancelRun
<1>5. ASSUME NEW g \in Generations,
           Wake(g) \/ OnReady(g) \/ Join(g) \/ Detach(g) \/ Clear(g)
      PROVE  Same
  BY <1>5 DEF Wake, OnReady, Join, Detach, Clear
<1>6. ASSUME NEW g \in Generations,
           Exit(g) \/ WorkerReady(g) \/ WorkerWakes(g) \/ CommitLock(g) \/ CommitCheck(g)
      PROVE  Same
  BY <1>6 DEF Exit, WorkerReady, WorkerWakes, CommitLock, CommitCheck
<1>7. ASSUME NEW g \in Generations,
           CommitStore(g) \/ GaveUp(g) \/ Publish(g) \/ StartPublishers(g) \/ PublisherEnds(g)
      PROVE  Same
  BY <1>7 DEF CommitStore, GaveUp, Publish, StartPublishers, PublisherEnds
<1>8. ASSUME NEW g \in Generations, NEW ok \in BOOLEAN,
           Settle(g, ok) \/ Drain(g, ok) \/ DeferredDrain(g, ok)
      PROVE  Same
  BY <1>8 DEF Settle, Drain, DeferredDrain, Settles
<1>9. ASSUME NEW g \in Generations, NEW ok \in BOOLEAN,
           Stage(g, ok) \/ ApplyRuntime(g, ok) \/ Finalize(g, ok)
      PROVE  Same
  BY <1>9 DEF Stage, ApplyRuntime, Finalize
<1> QED
  BY <1>1, <1>2, <1>3, <1>4, <1>5, <1>6, <1>7, <1>8, <1>9 DEF Next, Caller, Supervise, Work,
     HomeAnswers

\* What is queued was received.
LEMMA WorkStep ==
    ASSUME SupType, SupInv, WorkType, [Next]_vars
    PROVE  WorkType'
<1> USE GenerationsAssumption DEF callVars, serviceVars, supVars, workVars, workerRest
<1>1. ASSUME NEW g \in Generations, NewLifetime(g) PROVE WorkType'
  BY <1>1 DEF NewLifetime, WorkType
<1>2. ASSUME NEW g \in Generations, OnConfig(g) PROVE WorkType'
  BY <1>2 DEF OnConfig, WorkType
<1>3. ASSUME NEW g \in Generations, LifetimeEnds(g) PROVE WorkType'
  <2>1. client(g) \in Clients
    BY <1>3, ClientOf DEF LifetimeEnds, Exposed, Attached, Lifetime
  <2> QED
    BY <1>3, <2>1 DEF LifetimeEnds, WorkType
<1>4. ASSUME NEW g \in Generations, Dequeue(g) PROVE WorkType'
  BY <1>4 DEF Dequeue, WorkType
<1>5. CASE UNCHANGED <<queued, received, ended>>
  BY <1>5 DEF WorkType
<1> QED
  BY <1>1, <1>2, <1>3, <1>4, <1>5, WorkFrame

\* What fails, and what ends the context of Run.
LEMMA FailedFrame ==
    ASSUME [Next]_vars
    PROVE  \/ (\E a \in Callers, ok \in BOOLEAN : CallDrain(a, ok)) \/ CancelRun
           \/ (\E g \in Generations, ok \in BOOLEAN : Settle(g, ok))
           \/ (\E g \in Generations, ok \in BOOLEAN : Drain(g, ok))
           \/ (\E g \in Generations, ok \in BOOLEAN : DeferredDrain(g, ok))
           \/ UNCHANGED <<failed, parentDone>>
<1> DEFINE Same == UNCHANGED <<failed, parentDone>>
<1> USE DEF callVars, serviceVars, supVars, workVars, workerRest
<1>1. CASE UNCHANGED vars
  BY <1>1 DEF vars
<1>2. ASSUME NEW a \in Callers,
           CallLock(a) \/ CallCancel(a) \/ CallWait(a) \/ CallTake(a)
      PROVE  Same
  BY <1>2 DEF CallLock, CallCancel, CallWait, CallTake
<1>3. ASSUME StartGeneration PROVE Same
  BY <1>3 DEF StartGeneration
<1>4. ASSUME NEW g \in Generations,
           NewLifetime(g) \/ OnConfig(g) \/ Wake(g) \/ OnReady(g) \/ LifetimeEnds(g)
      PROVE  Same
  BY <1>4 DEF NewLifetime, OnConfig, Wake, OnReady, LifetimeEnds
<1>5. ASSUME NEW g \in Generations,
           Join(g) \/ Detach(g) \/ Clear(g) \/ Exit(g) \/ WorkerReady(g)
      PROVE  Same
  BY <1>5 DEF Join, Detach, Clear, Exit, WorkerReady
<1>6. ASSUME NEW g \in Generations,
           Dequeue(g) \/ WorkerWakes(g) \/ CommitLock(g) \/ CommitCheck(g) \/ CommitStore(g)
      PROVE  Same
  BY <1>6 DEF Dequeue, WorkerWakes, CommitLock, CommitCheck, CommitStore
<1>7. ASSUME NEW g \in Generations,
           GaveUp(g) \/ Publish(g) \/ StartPublishers(g) \/ PublisherEnds(g)
      PROVE  Same
  BY <1>7 DEF GaveUp, Publish, StartPublishers, PublisherEnds
<1>8. ASSUME NEW g \in Generations, NEW ok \in BOOLEAN,
           Stage(g, ok) \/ ApplyRuntime(g, ok) \/ Finalize(g, ok)
      PROVE  Same
  BY <1>8 DEF Stage, ApplyRuntime, Finalize
<1> QED
  BY <1>1, <1>2, <1>3, <1>4, <1>5, <1>6, <1>7, <1>8 DEF Next, Caller, Supervise, Work,
     HomeAnswers

\* A failure ends the context of Run, for good.
LEMMA FailedStep ==
    ASSUME FailedInv, [Next]_vars
    PROVE  FailedInv'
<1> USE DEF callVars, serviceVars, supVars, workVars, workerRest
<1>1. ASSUME NEW a \in Callers, NEW ok \in BOOLEAN, CallDrain(a, ok) PROVE FailedInv'
  BY <1>1 DEF CallDrain, Settles, FailedInv
<1>2. ASSUME CancelRun PROVE FailedInv'
  BY <1>2 DEF CancelRun, Settles, FailedInv
<1>3. ASSUME NEW g \in Generations, NEW ok \in BOOLEAN, Settle(g, ok) PROVE FailedInv'
  BY <1>3 DEF Settle, Settles, FailedInv
<1>4. ASSUME NEW g \in Generations, NEW ok \in BOOLEAN, Drain(g, ok) PROVE FailedInv'
  BY <1>4 DEF Drain, Settles, FailedInv
<1>5. ASSUME NEW g \in Generations, NEW ok \in BOOLEAN, DeferredDrain(g, ok) PROVE FailedInv'
  BY <1>5 DEF DeferredDrain, Settles, FailedInv
<1>6. CASE UNCHANGED <<failed, parentDone>>
  BY <1>6 DEF Settles, FailedInv
<1> QED
  BY <1>1, <1>2, <1>3, <1>4, <1>5, <1>6, FailedFrame

(***************************************************************************)
(* What is published.                                                      *)
(***************************************************************************)
\* What moves the published clients and what was taken from them.
LEMMA PubTypeFrame ==
    ASSUME [Next]_vars
    PROVE  \/ (\E a \in Callers : CallTake(a))
           \/ (\E a \in Callers, ok \in BOOLEAN : CallDrain(a, ok)) \/ StartGeneration
           \/ (\E g \in Generations : Detach(g)) \/ (\E g \in Generations : Clear(g))
           \/ (\E g \in Generations : Exit(g)) \/ (\E g \in Generations : CommitStore(g))
           \/ (\E g \in Generations : Publish(g))
           \/ UNCHANGED <<held, homeClient, bundle, logClient, dispatch, current, config,
                          took, homeCancel>>
<1> DEFINE Same == UNCHANGED <<held, homeClient, bundle, logClient, dispatch, current, config,
                               took, homeCancel>>
<1> USE DEF callVars, serviceVars, supVars, workVars, workerRest
<1>1. CASE UNCHANGED vars
  BY <1>1 DEF vars
<1>2. ASSUME NEW a \in Callers,
           CallLock(a) \/ CallCancel(a) \/ CallWait(a)
      PROVE  Same
  BY <1>2 DEF CallLock, CallCancel, CallWait
<1>3. ASSUME CancelRun PROVE Same
  BY <1>3 DEF CancelRun
<1>4. ASSUME NEW g \in Generations,
           NewLifetime(g) \/ OnConfig(g) \/ Wake(g) \/ OnReady(g) \/ LifetimeEnds(g)
      PROVE  Same
  BY <1>4 DEF NewLifetime, OnConfig, Wake, OnReady, LifetimeEnds
<1>5. ASSUME NEW g \in Generations,
           Join(g) \/ WorkerReady(g) \/ Dequeue(g) \/ WorkerWakes(g) \/ CommitLock(g)
      PROVE  Same
  BY <1>5 DEF Join, WorkerReady, Dequeue, WorkerWakes, CommitLock
<1>6. ASSUME NEW g \in Generations,
           CommitCheck(g) \/ GaveUp(g) \/ StartPublishers(g) \/ PublisherEnds(g)
      PROVE  Same
  BY <1>6 DEF CommitCheck, GaveUp, StartPublishers, PublisherEnds
<1>7. ASSUME NEW g \in Generations, NEW ok \in BOOLEAN,
           Settle(g, ok) \/ Drain(g, ok) \/ DeferredDrain(g, ok)
      PROVE  Same
  BY <1>7 DEF Settle, Drain, DeferredDrain, Settles
<1>8. ASSUME NEW g \in Generations, NEW ok \in BOOLEAN,
           Stage(g, ok) \/ ApplyRuntime(g, ok) \/ Finalize(g, ok)
      PROVE  Same
  BY <1>8 DEF Stage, ApplyRuntime, Finalize
<1> QED
  BY <1>1, <1>2, <1>3, <1>4, <1>5, <1>6, <1>7, <1>8 DEF Next, Caller, Supervise, Work,
     HomeAnswers

\* Only clients are published.
LEMMA PubTypeStep ==
    ASSUME CallType, CallInv, SupType, SupInv, PubType, [Next]_vars
    PROVE  PubType'
<1> USE GenerationsAssumption DEF callVars, serviceVars, supVars, workVars, workerRest
<1>1. ASSUME NEW a \in Callers, CallTake(a) PROVE PubType'
  BY <1>1 DEF CallTake, without, PubType
<1>2. ASSUME NEW a \in Callers, NEW ok \in BOOLEAN, CallDrain(a, ok) PROVE PubType'
  BY <1>2 DEF CallDrain, without, PubType
<1>3. ASSUME StartGeneration PROVE PubType'
  <2>1. generation + 1 \in Generations
    BY <1>3 DEF StartGeneration, CallInv, CallType, Busy, Callers, Generations
  <2> QED
    BY <1>3, <2>1 DEF StartGeneration, PubType
<1>4. ASSUME NEW g \in Generations, Detach(g) PROVE PubType'
  BY <1>4 DEF Detach, without, PubType
<1>5. ASSUME NEW g \in Generations, Clear(g) PROVE PubType'
  BY <1>5 DEF Clear, without, PubType
<1>6. ASSUME NEW g \in Generations, Exit(g) PROVE PubType'
  BY <1>6 DEF Exit, without, PubType
<1>7. ASSUME NEW g \in Generations, CommitStore(g) PROVE PubType'
  <2>1. client(g) \in Clients
    BY <1>7, ClientOf DEF CommitStore, SupInv, Exposed, Attached, Lifetime
  <2> QED
    BY <1>7, <2>1 DEF CommitStore, PubType
<1>8. ASSUME NEW g \in Generations, Publish(g) PROVE PubType'
  <2>1. client(g) \in Clients
    BY <1>8, ClientOf DEF Publish, SupInv, Exposed, Attached, Lifetime
  <2> QED
    BY <1>8, <2>1 DEF Publish, PubType
<1>9. CASE UNCHANGED <<held, homeClient, bundle, logClient, dispatch, current, config,
                       took, homeCancel>>
  BY <1>9 DEF without, PubType
<1> QED
  BY <1>1, <1>2, <1>3, <1>4, <1>5, <1>6, <1>7, <1>8, <1>9, PubTypeFrame

\* What moves the published clients, or a supervisor.
LEMMA PubFrame ==
    ASSUME [Next]_vars
    PROVE  \/ (\E a \in Callers : CallTake(a))
           \/ (\E a \in Callers, ok \in BOOLEAN : CallDrain(a, ok)) \/ StartGeneration
           \/ (\E g \in Generations : NewLifetime(g))
           \/ (\E g \in Generations : OnConfig(g)) \/ (\E g \in Generations : Wake(g))
           \/ (\E g \in Generations : LifetimeEnds(g))
           \/ (\E g \in Generations : Join(g)) \/ (\E g \in Generations : Detach(g))
           \/ (\E g \in Generations : Clear(g))
           \/ (\E g \in Generations, ok \in BOOLEAN : Settle(g, ok))
           \/ (\E g \in Generations, ok \in BOOLEAN : Drain(g, ok))
           \/ (\E g \in Generations, ok \in BOOLEAN : DeferredDrain(g, ok))
           \/ (\E g \in Generations : Exit(g)) \/ (\E g \in Generations : Publish(g))
           \/ UNCHANGED <<homeClient, bundle, logClient, dispatch, current, took, sup, life>>
<1> DEFINE Same == UNCHANGED <<homeClient, bundle, logClient, dispatch, current, took, sup, life>>
<1> USE DEF callVars, serviceVars, supVars, workVars, workerRest
<1>1. CASE UNCHANGED vars
  BY <1>1 DEF vars
<1>2. ASSUME NEW a \in Callers,
           CallLock(a) \/ CallCancel(a) \/ CallWait(a)
      PROVE  Same
  BY <1>2 DEF CallLock, CallCancel, CallWait
<1>3. ASSUME CancelRun PROVE Same
  BY <1>3 DEF CancelRun
<1>4. ASSUME NEW g \in Generations,
           OnReady(g) \/ WorkerReady(g) \/ Dequeue(g) \/ WorkerWakes(g) \/ CommitLock(g)
      PROVE  Same
  BY <1>4 DEF OnReady, WorkerReady, Dequeue, WorkerWakes, CommitLock
<1>5. ASSUME NEW g \in Generations,
           CommitCheck(g) \/ CommitStore(g) \/ GaveUp(g) \/ StartPublishers(g) \/ PublisherEnds(g)
      PROVE  Same
  BY <1>5 DEF CommitCheck, CommitStore, GaveUp, StartPublishers, PublisherEnds
<1>6. ASSUME NEW g \in Generations, NEW ok \in BOOLEAN,
           Stage(g, ok) \/ ApplyRuntime(g, ok) \/ Finalize(g, ok)
      PROVE  Same
  BY <1>6 DEF Stage, ApplyRuntime, Finalize
<1> QED
  BY <1>1, <1>2, <1>3, <1>4, <1>5, <1>6 DEF Next, Caller, Supervise, Work, HomeAnswers

\* Only one supervisor is not through.
LEMMA OthersOff ==
    ASSUME SupInv, NEW g \in Generations, sup[g] # "off"
    PROVE  \A h \in Generations \ {g} : sup[h] = "off"
BY DEF SupInv

\* Where no lifetime is left to be cleared, nothing is published.
LEMMA Quiet ==
    ASSUME PubInv, \A g \in Generations : sup[g] \notin Exposed
    PROVE  /\ homeClient = None /\ bundle = None /\ logClient = None
           /\ dispatch = None /\ current = None
BY DEF PubInv, Exposed

\* Nothing that is published is the client of a lifetime.
LEMMA QuietAfter ==
    ASSUME homeClient' = None, bundle' = None, logClient' = None, dispatch' = None,
           current' = None
    PROVE  PubInv'
<1>1. \A g \in Generations : <<g, life'[g]>> # None
  BY DEF None, Generations
<1> QED
  BY <1>1 DEF PubInv, client

\* A step within a lifetime that publishes nothing.
LEMMA StillOut ==
    ASSUME PubInv, NEW g \in Generations, sup[g] \in Attached, sup'[g] \in Attached,
           \A h \in Generations \ {g} : sup'[h] = sup[h],
           UNCHANGED <<life, homeClient, bundle, logClient, dispatch, current, took>>
    PROVE  PubInv'
<1>1. \A h \in Generations : /\ sup[h] \in Attached <=> sup'[h] \in Attached
                             /\ sup[h] \in Exposed <=> sup'[h] \in Exposed
                             /\ sup[h] = "clear" <=> sup'[h] = "clear"
  BY DEF Exposed, Attached, Lifetime
<1> QED
  BY <1>1 DEF PubInv, client

\* A client is published by the worker of its lifetime and taken back by the
\* supervisor before it goes on.
LEMMA PubStep ==
    ASSUME CallType, CallInv, SupType, SupInv, PubType, PubInv, [Next]_vars
    PROVE  PubInv'
<1> USE GenerationsAssumption DEF callVars, serviceVars, supVars, workVars, workerRest
<1>1. ASSUME NEW a \in Callers, CallTake(a) PROVE PubInv'
  <2>1. supervisor \in done \cup {0} /\ 0 \notin Generations
    BY <1>1 DEF CallTake, CallInv, Callers, Generations
  <2>2. \A h \in Generations : sup[h] \notin Exposed
    BY <2>1 DEF SupInv, Exposed, Attached, Lifetime
  <2> QED
    BY <1>1, <2>2, Quiet, QuietAfter DEF CallTake
<1>2. ASSUME NEW a \in Callers, NEW ok \in BOOLEAN, CallDrain(a, ok) PROVE PubInv'
  <2>1. supervisor \in done \cup {0} /\ 0 \notin Generations
    BY <1>2 DEF CallDrain, CallInv, Callers, Generations
  <2>2. \A h \in Generations : sup[h] \notin Exposed
    BY <2>1 DEF SupInv, Exposed, Attached, Lifetime
  <2> QED
    BY <1>2, <2>2, Quiet, QuietAfter DEF CallDrain, without
<1>3. ASSUME StartGeneration PROVE PubInv'
  <2>1. supervisor \in done \cup {0} /\ 0 \notin Generations
    BY <1>3 DEF StartGeneration, CallInv, Callers, Generations
  <2>2. \A h \in Generations : sup[h] \notin Exposed
    BY <2>1 DEF SupInv, Exposed, Attached, Lifetime
  <2> QED
    BY <1>3, <2>2, Quiet, QuietAfter DEF StartGeneration
<1>4. ASSUME NEW g \in Generations, NewLifetime(g) PROVE PubInv'
  <2>1. \A h \in Generations : sup[h] \notin Exposed
    BY <1>4, OthersOff DEF NewLifetime, Exposed, Attached, Lifetime
  <2> QED
    BY <1>4, <2>1, Quiet, QuietAfter DEF NewLifetime
<1>5. ASSUME NEW g \in Generations, OnConfig(g) PROVE PubInv'
  <2>1. /\ sup[g] \in Attached /\ sup'[g] \in Attached
        /\ \A h \in Generations \ {g} : sup'[h] = sup[h]
    BY <1>5 DEF OnConfig, SupType, Attached, Lifetime
  <2>2. UNCHANGED <<life, homeClient, bundle, logClient, dispatch, current, took>>
    BY <1>5 DEF OnConfig
  <2> QED
    BY <2>1, <2>2, StillOut
<1>6. ASSUME NEW g \in Generations, Wake(g) PROVE PubInv'
  <2>1. /\ sup[g] \in Attached /\ sup'[g] \in Attached
        /\ \A h \in Generations \ {g} : sup'[h] = sup[h]
    BY <1>6 DEF Wake, SupType, Attached, Lifetime
  <2>2. UNCHANGED <<life, homeClient, bundle, logClient, dispatch, current, took>>
    BY <1>6 DEF Wake
  <2> QED
    BY <2>1, <2>2, StillOut
<1>7. ASSUME NEW g \in Generations, LifetimeEnds(g) PROVE PubInv'
  <2>1. /\ sup[g] \in Attached /\ sup'[g] \in Attached
        /\ \A h \in Generations \ {g} : sup'[h] = sup[h]
    BY <1>7 DEF LifetimeEnds, SupType, Attached, Lifetime
  <2>2. UNCHANGED <<life, homeClient, bundle, logClient, dispatch, current, took>>
    BY <1>7 DEF LifetimeEnds
  <2> QED
    BY <2>1, <2>2, StillOut
<1>8. ASSUME NEW g \in Generations, Join(g) PROVE PubInv'
  <2>1. /\ sup[g] \in Attached /\ sup'[g] \in Attached
        /\ \A h \in Generations \ {g} : sup'[h] = sup[h]
    BY <1>8 DEF Join, SupType, Attached, Lifetime
  <2>2. UNCHANGED <<life, homeClient, bundle, logClient, dispatch, current, took>>
    BY <1>8 DEF Join
  <2> QED
    BY <2>1, <2>2, StillOut
<1>9. ASSUME NEW g \in Generations, Detach(g) PROVE PubInv'
  <2>1. \A h \in Generations \ {g} : sup[h] = "off" /\ sup'[h] = "off"
    BY <1>9, OthersOff DEF Detach, SupType
  <2>2. /\ sup[g] = "detach" /\ sup'[g] = "clear" /\ UNCHANGED <<life, dispatch, current>>
        /\ took'[g] = IF homeClient = client(g) THEN bundle ELSE None
    BY <1>9 DEF Detach, SupType, PubType
  <2>3. \A c \in {homeClient, logClient, dispatch, current} : c \in {None, client(g)}
    BY <2>1 DEF PubInv, Exposed, Attached, Lifetime
  <2>4. homeClient' = None /\ bundle' = None /\ logClient' = None
    BY <1>9, <2>3 DEF Detach, without, PubInv
  <2>5. dispatch = client(g) => took'[g] = client(g)
    BY <2>2 DEF PubInv, Attached
  <2>6. \A h \in Generations : <<h, life[h]>> # None
    BY DEF None, Generations
  <2> QED
    BY <2>1, <2>2, <2>3, <2>4, <2>5, <2>6 DEF PubInv, client, Exposed, Attached, Lifetime
<1>10. ASSUME NEW g \in Generations, Clear(g) PROVE PubInv'
  <2>1. \A h \in Generations \ {g} : sup[h] = "off"
    BY <1>10, OthersOff DEF Clear
  <2>2. \A c \in {homeClient, logClient, dispatch, current} : c \in {None, client(g)}
    BY <2>1 DEF PubInv, Exposed, Attached, Lifetime
  <2>3. homeClient = None /\ bundle = None /\ logClient = None
    BY <1>10, <2>1 DEF Clear, PubInv, Attached, Lifetime
  <2>4. dispatch = client(g) => took[g] = client(g)
    BY <1>10 DEF Clear, PubInv
  <2>5. client(g) # None
    BY DEF client, None, Generations
  <2>6. dispatch' = None /\ current' = None
    BY <1>10, <2>2, <2>4, <2>5 DEF Clear, without
  <2> QED
    BY <1>10, <2>3, <2>6, QuietAfter DEF Clear
<1>11. ASSUME NEW g \in Generations, NEW ok \in BOOLEAN, Settle(g, ok) PROVE PubInv'
  <2>1. \A h \in Generations : sup[h] \notin Exposed
    BY <1>11, OthersOff DEF Settle, Exposed, Attached, Lifetime
  <2> QED
    BY <1>11, <2>1, Quiet, QuietAfter DEF Settle
<1>12. ASSUME NEW g \in Generations, NEW ok \in BOOLEAN, Drain(g, ok) PROVE PubInv'
  <2>1. \A h \in Generations : sup[h] \notin Exposed
    BY <1>12, OthersOff DEF Drain, Exposed, Attached, Lifetime
  <2> QED
    BY <1>12, <2>1, Quiet, QuietAfter DEF Drain
<1>13. ASSUME NEW g \in Generations, NEW ok \in BOOLEAN, DeferredDrain(g, ok) PROVE PubInv'
  <2>1. \A h \in Generations : sup[h] \notin Exposed
    BY <1>13, OthersOff DEF DeferredDrain, Exposed, Attached, Lifetime
  <2> QED
    BY <1>13, <2>1, Quiet, QuietAfter DEF DeferredDrain
<1>14. ASSUME NEW g \in Generations, Exit(g) PROVE PubInv'
  <2>1. \A h \in Generations : sup[h] \notin Exposed
    BY <1>14, OthersOff DEF Exit, Exposed, Attached, Lifetime
  <2> QED
    BY <1>14, <2>1, Quiet, QuietAfter DEF Exit
<1>15. ASSUME NEW g \in Generations, Publish(g) PROVE PubInv'
  <2>1. sup[g] \in Lifetime /\ UNCHANGED <<took, sup, life>>
    BY <1>15 DEF Publish, SupInv
  <2>2. CASE UNCHANGED <<homeClient, bundle, logClient, dispatch, current>>
    BY <2>1, <2>2 DEF PubInv, client
  <2>3. CASE /\ homeClient' = client(g) /\ bundle' = client(g) /\ dispatch' = client(g)
             /\ current' = client(g) /\ logClient' = client(g)
    <3>1. sup[g] \in Attached /\ sup[g] \in Exposed /\ sup[g] # "clear"
      BY <2>1 DEF Exposed, Attached, Lifetime
    <3>2. \A h \in Generations : <<h, life[h]>> = <<g, life[g]>> => h = g
      OBVIOUS
    <3> QED
      BY <2>1, <2>3, <3>1, <3>2 DEF PubInv, client
  <2> QED
    BY <1>15, <2>2, <2>3 DEF Publish
<1>16. CASE UNCHANGED <<homeClient, bundle, logClient, dispatch, current, took, sup, life>>
  BY <1>16 DEF PubInv, client
<1> QED
  BY <1>1, <1>2, <1>3, <1>4, <1>5, <1>6, <1>7, <1>8, <1>9, <1>10, <1>11, <1>12, <1>13, <1>14,
     <1>15, <1>16, PubFrame

(***************************************************************************)
(* The invariant.                                                          *)
(***************************************************************************)
LEMMA GenerationsIndInit ==
    ASSUME Init
    PROVE  GenerationsInd
<1> USE GenerationsAssumption DEF Init
<1>1. CallType /\ CallInv
  BY DEF CallType, CallInv, Callers, Busy
<1>2. SupType /\ SupInv
  BY DEF SupType, SupInv, Lifetime, Attached, Exposed
<1>3. PubType /\ PubInv
  <2>1. PubType
    BY DEF PubType
  <2>2. \A g \in Generations : sup[g] = "off" /\ <<g, life[g]>> # None
    BY DEF None, Generations
  <2> QED
    BY <2>1, <2>2 DEF PubInv, client
<1>4. WorkType
  BY DEF WorkType
<1>5. CommitInv /\ FailedInv
  BY DEF CommitInv, FailedInv
<1> QED
  BY <1>1, <1>2, <1>3, <1>4, <1>5 DEF GenerationsInd

LEMMA GenerationsIndStep ==
    ASSUME GenerationsInd, [Next]_vars
    PROVE  GenerationsInd'
<1> USE DEF GenerationsInd
<1>1. CallType' /\ CallInv'
  BY CallTypeStep, CallStep
<1>2. SupType' /\ SupInv'
  BY SupTypeStep, SupStep
<1>3. PubType' /\ PubInv'
  BY PubTypeStep, PubStep
<1>4. WorkType' /\ CommitInv' /\ FailedInv'
  BY WorkStep, CommitStep, FailedStep
<1> QED
  BY <1>1, <1>2, <1>3, <1>4

\* The invariant of startHomeSubscriber, the supervisors and the workers: who
\* holds homeLifecycleMu, which supervisor is not through, what it has published
\* and what the commit lock protects.
THEOREM GenerationsInvariant == Spec => []GenerationsInd
<1>1. Init => GenerationsInd
  BY GenerationsIndInit
<1>2. GenerationsInd /\ [Next]_vars => GenerationsInd'
  BY GenerationsIndStep
<1> QED
  BY <1>1, <1>2, PTL DEF Spec

(***************************************************************************)
(* What it implies.                                                        *)
(***************************************************************************)
\* Whatever runs belongs to the supervisor that startHomeSubscriber started last.
LEMMA OneOfThem ==
    ASSUME GenerationsInd
    PROVE  OneAtATime
<1> DEFINE running == {g \in Generations : \/ sup[g] # "off" \/ worker[g] # "ended"
                                           \/ publisher[g] = "running"}
<1>1. running \subseteq {supervisor}
  BY DEF GenerationsInd, SupInv, Lifetime
<1>2. IsFiniteSet({supervisor}) /\ Cardinality({supervisor}) = 1
  BY FS_Singleton
<1>3. Cardinality(running) <= Cardinality({supervisor})
  BY <1>1, <1>2, FS_Subset
<1> QED
  BY <1>2, <1>3 DEF OneAtATime

\* What is published is the client of a lifetime that is not yet cleared.
LEMMA Forgotten ==
    ASSUME GenerationsInd
    PROVE  RetiredIsForgotten
<1> SUFFICES ASSUME NEW g \in Generations, g \in done \/ sup[g] \in {"settle", "new"},
                    NEW c \in {homeClient, bundle, dispatch, current, logClient}
             PROVE  c[1] # g
  BY DEF RetiredIsForgotten
<1>1. CASE c = None
  BY <1>1 DEF None, Generations
<1>2. CASE c # None
  <2>1. PICK h \in Generations : c = client(h) /\ sup[h] \in Exposed
    BY <1>2 DEF GenerationsInd, PubInv, Exposed
  <2>2. h \notin done /\ sup[h] \notin {"settle", "new"}
    BY <2>1 DEF GenerationsInd, SupInv, Exposed, Attached, Lifetime
  <2> QED
    BY <2>1, <2>2 DEF client
<1> QED
  BY <1>1, <1>2

LEMMA TypesOfInd ==
    ASSUME GenerationsInd
    PROVE  TypeOK
<1> USE GenerationsAssumption DEF GenerationsInd
<1>1. /\ generation \in 0..(MaxGeneration + 1)
      /\ {homeCancel, supervisor} \subseteq Generations \cup {0}
      /\ done \subseteq Generations
  BY DEF CallType, PubType, Generations
<1>2. /\ lifecycleMu \in Callers \cup {"free"}
      /\ call \in [Callers -> {"idle", "cancel", "wait", "take", "drain", "go", "returned"}]
  BY DEF CallType
<1>3. /\ {held, homeClient, bundle, logClient, dispatch, current, config}
             \subseteq Clients \cup {None}
      /\ took \in [Generations -> Clients \cup {None}]
  BY DEF PubType
<1>4. /\ cancelled \subseteq Generations /\ commitMu \in {"free", "worker"}
      /\ (commitMu = "worker") = (\E g \in Generations : worker[g] \in {"check", "store"})
  BY DEF CommitInv
<1>5. /\ queued \in [Generations -> 0..MaxConfig] /\ received \in [Generations -> 0..MaxConfig]
      /\ ended \subseteq Clients
  BY DEF WorkType
<1> QED
  BY <1>1, <1>2, <1>3, <1>4, <1>5 DEF TypeOK, SupType

\* Generations do not overlap: startHomeSubscriber and Shutdown wait for
\* supervisor.done under homeLifecycleMu.  A supervisor that is through, or
\* between two lifetimes, has left none of its clients in the service, the core
\* manager, the log writer or home.Current.
THEOREM GenerationsCorrect == Spec => []GenerationsInv
<1>1. GenerationsInd => GenerationsInv
  BY OneOfThem, Forgotten, TypesOfInd DEF GenerationsInv
<1> QED
  BY <1>1, GenerationsInvariant, PTL

\* Only commitHomeConfig stores a configuration.
LEMMA ConfigFrame ==
    ASSUME [Next]_vars
    PROVE  \/ (\E g \in Generations : CommitStore(g))
           \/ UNCHANGED <<config>>
<1> DEFINE Same == UNCHANGED <<config>>
<1> USE DEF callVars, serviceVars, supVars, workVars, workerRest
<1>1. CASE UNCHANGED vars
  BY <1>1 DEF vars
<1>2. ASSUME NEW a \in Callers,
           CallLock(a) \/ CallCancel(a) \/ CallWait(a) \/ CallTake(a)
      PROVE  Same
  BY <1>2 DEF CallLock, CallCancel, CallWait, CallTake
<1>3. ASSUME NEW a \in Callers, NEW ok \in BOOLEAN,
           CallDrain(a, ok)
      PROVE  Same
  BY <1>3 DEF CallDrain, Settles
<1>4. ASSUME StartGeneration \/ CancelRun PROVE Same
  BY <1>4 DEF StartGeneration, CancelRun
<1>5. ASSUME NEW g \in Generations,
           NewLifetime(g) \/ OnConfig(g) \/ Wake(g) \/ OnReady(g) \/ LifetimeEnds(g)
      PROVE  Same
  BY <1>5 DEF NewLifetime, OnConfig, Wake, OnReady, LifetimeEnds
<1>6. ASSUME NEW g \in Generations,
           Join(g) \/ Detach(g) \/ Clear(g) \/ Exit(g) \/ WorkerReady(g)
      PROVE  Same
  BY <1>6 DEF Join, Detach, Clear, Exit, WorkerReady
<1>7. ASSUME NEW g \in Generations,
           Dequeue(g) \/ WorkerWakes(g) \/ CommitLock(g) \/ CommitCheck(g) \/ GaveUp(g)
      PROVE  Same
  BY <1>7 DEF Dequeue, WorkerWakes, CommitLock, CommitCheck, GaveUp
<1>8. ASSUME NEW g \in Generations,
           Publish(g) \/ StartPublishers(g) \/ PublisherEnds(g)
      PROVE  Same
  BY <1>8 DEF Publish, StartPublishers, PublisherEnds
<1>9. ASSUME NEW g \in Generations, NEW ok \in BOOLEAN,
           Settle(g, ok) \/ Drain(g, ok) \/ DeferredDrain(g, ok)
      PROVE  Same
  BY <1>9 DEF Settle, Drain, DeferredDrain, Settles
<1>10. ASSUME NEW g \in Generations, NEW ok \in BOOLEAN,
           Stage(g, ok) \/ ApplyRuntime(g, ok) \/ Finalize(g, ok)
      PROVE  Same
  BY <1>10 DEF Stage, ApplyRuntime, Finalize
<1> QED
  BY <1>1, <1>2, <1>3, <1>4, <1>5, <1>6, <1>7, <1>8, <1>9, <1>10 DEF Next, Caller, Supervise,
     Work, HomeAnswers

\* Only the supervisor's loop starts a client.
LEMMA LifeFrame ==
    ASSUME [Next]_vars
    PROVE  \/ (\E g \in Generations : NewLifetime(g))
           \/ UNCHANGED <<life>>
<1> DEFINE Same == UNCHANGED <<life>>
<1> USE DEF callVars, serviceVars, supVars, workVars, workerRest
<1>1. CASE UNCHANGED vars
  BY <1>1 DEF vars
<1>2. ASSUME NEW a \in Callers,
           CallLock(a) \/ CallCancel(a) \/ CallWait(a) \/ CallTake(a)
      PROVE  Same
  BY <1>2 DEF CallLock, CallCancel, CallWait, CallTake
<1>3. ASSUME NEW a \in Callers, NEW ok \in BOOLEAN,
           CallDrain(a, ok)
      PROVE  Same
  BY <1>3 DEF CallDrain, Settles
<1>4. ASSUME StartGeneration \/ CancelRun PROVE Same
  BY <1>4 DEF StartGeneration, CancelRun
<1>5. ASSUME NEW g \in Generations,
           OnConfig(g) \/ Wake(g) \/ OnReady(g) \/ LifetimeEnds(g) \/ Join(g)
      PROVE  Same
  BY <1>5 DEF OnConfig, Wake, OnReady, LifetimeEnds, Join
<1>6. ASSUME NEW g \in Generations,
           Detach(g) \/ Clear(g) \/ Exit(g) \/ WorkerReady(g) \/ Dequeue(g)
      PROVE  Same
  BY <1>6 DEF Detach, Clear, Exit, WorkerReady, Dequeue
<1>7. ASSUME NEW g \in Generations,
           WorkerWakes(g) \/ CommitLock(g) \/ CommitCheck(g) \/ CommitStore(g) \/ GaveUp(g)
      PROVE  Same
  BY <1>7 DEF WorkerWakes, CommitLock, CommitCheck, CommitStore, GaveUp
<1>8. ASSUME NEW g \in Generations,
           Publish(g) \/ StartPublishers(g) \/ PublisherEnds(g)
      PROVE  Same
  BY <1>8 DEF Publish, StartPublishers, PublisherEnds
<1>9. ASSUME NEW g \in Generations, NEW ok \in BOOLEAN,
           Settle(g, ok) \/ Drain(g, ok) \/ DeferredDrain(g, ok)
      PROVE  Same
  BY <1>9 DEF Settle, Drain, DeferredDrain, Settles
<1>10. ASSUME NEW g \in Generations, NEW ok \in BOOLEAN,
           Stage(g, ok) \/ ApplyRuntime(g, ok) \/ Finalize(g, ok)
      PROVE  Same
  BY <1>10 DEF Stage, ApplyRuntime, Finalize
<1> QED
  BY <1>1, <1>2, <1>3, <1>4, <1>5, <1>6, <1>7, <1>8, <1>9, <1>10 DEF Next, Caller, Supervise,
     Work, HomeAnswers

\* A generation that a caller has cancelled commits no configuration any more:
\* commitHomeConfig checks the lifetime and stores under homeConfigCommitMu,
\* which a caller takes to cancel.
THEOREM ReplacedCommitsNothing == Spec => NoCommitAfterReplacement
<1>1. ASSUME GenerationsInd, [Next]_vars
      PROVE  config' # config => config'[1] \notin replaced
  <2>1. ASSUME NEW g \in Generations, CommitStore(g)
        PROVE  config'[1] \notin replaced
    <3>1. config' = client(g) /\ g \notin replaced
      BY <1>1, <2>1 DEF CommitStore, GenerationsInd, CommitInv
    <3> QED
      BY <3>1 DEF client
  <2> QED
    BY <1>1, <2>1, ConfigFrame
<1> QED
  BY <1>1, GenerationsInvariant, PTL DEF Spec, NoCommitAfterReplacement

\* After a drain that failed no client is started: cancelServiceRun ends the
\* context of Run before the supervisor looks at it again.
THEOREM NoClientAfterFailure == Spec => FailedDrainEndsService
<1>1. ASSUME GenerationsInd, [Next]_vars
      PROVE  failed => life' = life
  <2>1. ASSUME NEW g \in Generations, NewLifetime(g), failed
        PROVE  life' = life
    <3>1. homeCtxDone(g)
      BY <1>1, <2>1 DEF GenerationsInd, FailedInv, homeCtxDone
    <3> QED
      BY <2>1, <3>1 DEF NewLifetime
  <2> QED
    BY <1>1, <2>1, LifeFrame
<1> QED
  BY <1>1, GenerationsInvariant, PTL DEF Spec, FailedDrainEndsService
=============================================================================
