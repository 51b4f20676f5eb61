---------------------------- MODULE UsageProofs -----------------------------
(***************************************************************************)
(* Machine-checked proofs about the way of a usage record: UsageManager,   *)
(* UsageQueue and UsageAggregation, for any number of plugins, records,    *)
(* subscribers, forwarders, events, identities, rollups and restarts, and  *)
(* any sizes.  The three share nothing but this module.                    *)
(***************************************************************************)
EXTENDS UsageManager, UsageQueue, UsageAggregation, SequenceTheorems, FiniteSetTheorems,
        WellFoundedInduction, TLAPS

(***************************************************************************)
(* UsageManager: what the plugins of each kind have heard, what they are due *)
(* of the record under way, and what is queued make up what was accepted.  *)
(***************************************************************************)
PluginKinds == {"queue", "keeper"}

\* The list of plugins: the queue plugin, and the keeper's behind it.
Registered(list) ==
    list = <<QueuePlugin>> \/ \E k \in Keepers : list = <<QueuePlugin, k>>

\* What plugins of a kind are still due: the record under way, unless the calls
\* that are left reach none of them, and what is queued.
reaches(list, kind) == \E i \in DOMAIN list : kindOf(list[i]) = kind
due(kind) == IF worker = "taken" \/ reaches(calls, kind) THEN item ELSE <<>>
heardStream(kind) == heard[kind] \o due(kind) \o queue

\* Types; a record is under way between the taking and the last call.
MgrTypes ==
    /\ queue \in Seq(Published) /\ item \in Seq(Published) /\ accepted \in Seq(Published)
    /\ heard \in [PluginKinds -> Seq(Published)]
    /\ pub \in [Published -> {"idle", "queued", "done", "dropped"}]
    /\ worker \in {"none", "check", "asleep", "taken", "dispatch", "exited"}
    /\ stop \in {"idle", "closed", "returned"}
    /\ Len(item) = IF worker \in {"taken", "dispatch"} THEN 1 ELSE 0

\* What dispatch has still to call is an end of such a list.
CallsInv ==
    /\ Registered(plugins)
    /\ calls = <<>> \/ Registered(calls) \/ \E k \in Keepers : calls = <<k>>
    /\ calls # <<>> => worker = "dispatch"

\* The queue plugin hears everything, the keeper everything since its registration.
MgrStreamInv ==
    /\ heardStream("queue") = accepted
    /\ \E before \in Seq(Published) : before \o heardStream("keeper") = accepted
    /\ plugins = <<QueuePlugin>> => heard["keeper"] = <<>> /\ ~reaches(calls, "keeper")

MgrInd == MgrTypes /\ CallsInv /\ MgrStreamInv

\* Sequences of one and of two elements.
LEMMA TwoPlugins ==
    /\ \A a : Len(<<a>>) = 1 /\ <<a>>[1] = a /\ Head(<<a>>) = a /\ Tail(<<a>>) = <<>>
              /\ DOMAIN <<a>> = {1} /\ <<a>> # <<>>
    /\ \A a, b : Len(<<a, b>>) = 2 /\ <<a, b>>[1] = a /\ <<a, b>>[2] = b /\ DOMAIN <<a, b>> = {1, 2}
              /\ Head(<<a, b>>) = a /\ Tail(<<a, b>>) = <<b>> /\ <<a, b>> # <<>>
    /\ DOMAIN <<>> = {}
OBVIOUS

\* Which kinds of plugins a list of calls reaches.
LEMMA Reaching ==
    /\ ~reaches(<<>>, "queue") /\ ~reaches(<<>>, "keeper")
    /\ reaches(<<QueuePlugin>>, "queue") /\ ~reaches(<<QueuePlugin>>, "keeper")
    /\ \A k \in Keepers :
        /\ reaches(<<QueuePlugin, k>>, "queue") /\ reaches(<<QueuePlugin, k>>, "keeper")
        /\ reaches(<<k>>, "keeper") /\ ~reaches(<<k>>, "queue")
<1>1. kindOf(QueuePlugin) = "queue" /\ \A k \in Keepers : kindOf(k) = "keeper"
  BY ManagerAssumption DEF kindOf
<1> QED BY <1>1, TwoPlugins DEF reaches

\* The invariant holds before anything is published.
LEMMA MgrInit == ManagerInit => MgrInd
<1> SUFFICES ASSUME ManagerInit PROVE MgrInd
  OBVIOUS
<1> USE DEF ManagerInit
<1>1. MgrTypes
  BY EmptySeq DEF MgrTypes, PluginKinds
<1>2. CallsInv
  BY DEF CallsInv, Registered
<1>3. due("queue") = <<>> /\ due("keeper") = <<>>
  BY DEF due
<1>4. heardStream("queue") = <<>> /\ heardStream("keeper") = <<>>
  BY <1>3, EmptySeq, ConcatEmptySeq DEF heardStream
<1>5. <<>> \o heardStream("keeper") = <<>>
  BY <1>4, EmptySeq, ConcatEmptySeq
<1>6. MgrStreamInv
  BY <1>4, <1>5, EmptySeq, Reaching DEF MgrStreamInv
<1> QED BY <1>1, <1>2, <1>6 DEF MgrInd

\* The calls that are left are an end of the list that was copied.
LEMMA CallsStep ==
    ASSUME MgrInd, [ManagerNext]_ManagerVars
    PROVE  CallsInv'
<1> USE DEF MgrInd, CallsInv
<1>1. CASE UNCHANGED <<plugins, calls, worker>>
  BY <1>1 DEF Registered
<1>2. CASE \/ Start \/ Take
           \/ (\E r \in Published : Publish(r) \/ Signal(r))
           \/ Broadcast
  <2>1. UNCHANGED <<plugins, calls>>
    BY <1>2 DEF Start, Take, Publish, Signal, Broadcast
  <2>2. calls # <<>> => UNCHANGED worker
    BY <1>2 DEF Start, Take, Publish, Signal, Broadcast
  <2> QED BY <2>1, <2>2 DEF Registered
<1>3. CASE CopyPlugins
  BY <1>3 DEF CopyPlugins, Registered
<1>4. CASE \E done \in BOOLEAN : Invoke(done)
  <2>1. calls # <<>> /\ calls' = Tail(calls) /\ UNCHANGED <<plugins, worker>>
    BY <1>4 DEF Invoke
  <2>2. CASE calls = <<QueuePlugin>> \/ \E k \in Keepers : calls = <<k>>
    BY <2>1, <2>2, TwoPlugins DEF Registered
  <2>3. CASE \E k \in Keepers : calls = <<QueuePlugin, k>>
    BY <2>1, <2>3, TwoPlugins DEF Registered
  <2> QED BY <2>1, <2>2, <2>3 DEF Registered
<1>5. CASE Dispatched
  BY <1>5 DEF Dispatched, Registered
<1>6. CASE \E k \in Keepers : RegisterNamed(k)
  <2> PICK k \in Keepers : RegisterNamed(k)
    BY <1>6
  <2>1. UNCHANGED <<calls, worker>>
    BY DEF RegisterNamed
  <2>2. CASE plugins = <<QueuePlugin>>
    <3>1. ~ \E i \in DOMAIN plugins : plugins[i] \in Keepers
      BY <2>2, TwoPlugins, ManagerAssumption
    <3>2. plugins' = Append(<<QueuePlugin>>, k)
      BY <3>1, <2>2 DEF RegisterNamed
    <3>3. plugins' = <<QueuePlugin, k>>
      <4>1. <<QueuePlugin>> \in Seq(Plugins) /\ <<QueuePlugin, k>> \in Seq(Plugins) /\ k \in Plugins
        BY DEF Plugins
      <4>2. /\ plugins' \in Seq(Plugins) /\ Len(plugins') = 2
            /\ plugins'[1] = QueuePlugin /\ plugins'[2] = k
        BY <4>1, <3>2, TwoPlugins, AppendProperties
      <4>3. \A i \in 1..2 : plugins'[i] = <<QueuePlugin, k>>[i]
        BY <4>2, TwoPlugins
      <4> QED BY <4>1, <4>2, <4>3, TwoPlugins, SeqEqual
    <3> QED BY <3>3, <2>1 DEF Registered
  <2>3. CASE \E j \in Keepers : plugins = <<QueuePlugin, j>>
    <3> PICK j \in Keepers : plugins = <<QueuePlugin, j>>
      BY <2>3
    <3>1. plugins[2] \in Keepers /\ DOMAIN plugins = {1, 2} /\ plugins[1] = QueuePlugin
      BY TwoPlugins
    <3>2. plugins' = [i \in DOMAIN plugins |-> IF plugins[i] \in Keepers THEN k ELSE plugins[i]]
      BY <3>1 DEF RegisterNamed
    <3>3. plugins' = [i \in 1..2 |-> IF i = 2 THEN k ELSE QueuePlugin]
      BY <3>1, <3>2, ManagerAssumption
    <3>4. plugins' \in Seq(Plugins) /\ Len(plugins') = 2
      BY <3>3 DEF Plugins
    <3>5. <<QueuePlugin, k>> \in Seq(Plugins)
      BY DEF Plugins
    <3>6. \A i \in 1..2 : plugins'[i] = <<QueuePlugin, k>>[i]
      BY <3>3, TwoPlugins
    <3>7. plugins' = <<QueuePlugin, k>>
      BY <3>4, <3>5, <3>6, SeqEqual, TwoPlugins
    <3> QED BY <3>7, <2>1 DEF Registered
  <2> QED BY <2>2, <2>3 DEF Registered
<1>7. CASE Stop \/ CloseKeeper
  BY <1>7, <1>1 DEF Stop, CloseKeeper
<1>8. CASE UNCHANGED ManagerVars
  BY <1>8, <1>1 DEF ManagerVars
<1> QED BY <1>2, <1>3, <1>4, <1>5, <1>6, <1>7, <1>8 DEF ManagerNext, Run

\* A step keeps the types, and one record under way at most.
LEMMA MgrTypesStep ==
    ASSUME MgrInd, [ManagerNext]_ManagerVars
    PROVE  MgrTypes'
<1> USE DEF MgrInd, MgrTypes
<1>1. CASE \/ UNCHANGED ManagerVars \/ Start \/ Stop \/ Broadcast \/ CloseKeeper
           \/ CopyPlugins \/ \E k \in Keepers : RegisterNamed(k)
  BY <1>1 DEF ManagerVars, Start, Stop, Broadcast, CloseKeeper, CopyPlugins, RegisterNamed
<1>2. ASSUME NEW r \in Published, Publish(r) PROVE MgrTypes'
  <2>1. Append(queue, r) \in Seq(Published) /\ Append(accepted, r) \in Seq(Published)
    BY AppendProperties
  <2> QED BY <1>2, <2>1 DEF Publish
<1>3. ASSUME NEW r \in Published, Signal(r) PROVE MgrTypes'
  BY <1>3 DEF Signal
<1>4. CASE Take
  <2>1. CASE queue = <<>>
    BY <1>4, <2>1 DEF Take
  <2>2. CASE queue # <<>>
    <3>1. Head(queue) \in Published /\ Tail(queue) \in Seq(Published)
      BY <2>2, HeadTailProperties
    <3>2. <<Head(queue)>> \in Seq(Published) /\ Len(<<Head(queue)>>) = 1
      BY <3>1
    <3> QED BY <1>4, <2>2, <3>1, <3>2 DEF Take
  <2> QED BY <2>1, <2>2
<1>5. CASE \E done \in BOOLEAN : Invoke(done)
  <2>1. PICK kind \in PluginKinds : heard' = [heard EXCEPT ![kind] = @ \o item]
    BY <1>5 DEF Invoke, PluginKinds, kindOf
  <2>2. heard[kind] \o item \in Seq(Published)
    BY ConcatProperties
  <2>3. heard' \in [PluginKinds -> Seq(Published)]
    BY <2>1, <2>2
  <2> QED BY <1>5, <2>3 DEF Invoke
<1>6. CASE Dispatched
  BY <1>6, EmptySeq DEF Dispatched
<1> QED BY <1>1, <1>2, <1>3, <1>4, <1>5, <1>6 DEF ManagerNext, Run

\* What a kind of plugin has heard, is due and is to come are sequences of records.
LEMMA MgrStreamTypes ==
    ASSUME MgrTypes, NEW kind \in PluginKinds
    PROVE  /\ heard[kind] \in Seq(Published) /\ due(kind) \in Seq(Published)
           /\ heard[kind] \o due(kind) \in Seq(Published)
           /\ heardStream(kind) \in Seq(Published)
<1>1. heard[kind] \in Seq(Published) /\ due(kind) \in Seq(Published)
  BY EmptySeq DEF MgrTypes, due
<1>2. heard[kind] \o due(kind) \in Seq(Published)
  BY <1>1, ConcatProperties
<1> QED BY <1>1, <1>2, ConcatProperties DEF MgrTypes, heardStream

\* Publishing appends to the stream of every kind of plugin.
LEMMA MgrPublishStream ==
    ASSUME MgrInd, NEW kind \in PluginKinds, NEW r \in Published, Publish(r), ~closed
    PROVE  accepted' = Append(accepted, r) /\ heardStream(kind)' = Append(heardStream(kind), r)
<1> USE DEF MgrInd
<1>1. /\ queue' = Append(queue, r) /\ accepted' = Append(accepted, r)
      /\ UNCHANGED <<heard, worker, calls, item>>
  BY DEF Publish
<1>2. UNCHANGED <<heard[kind], due(kind)>>
  BY <1>1 DEF due, reaches, kindOf
<1> DEFINE h == heard[kind] \o due(kind)
<1>3. h \in Seq(Published) /\ queue \in Seq(Published) /\ <<r>> \in Seq(Published)
  BY MgrStreamTypes DEF MgrTypes
<1>4. heardStream(kind)' = h \o Append(queue, r)
  BY <1>1, <1>2 DEF heardStream
<1>5. Append(queue, r) = queue \o <<r>> /\ Append(heardStream(kind), r) = heardStream(kind) \o <<r>>
  BY <1>3, AppendIsConcat, MgrStreamTypes
<1>6. heardStream(kind) = h \o queue
  BY DEF heardStream
<1> HIDE DEF h
<1>7. h \o (queue \o <<r>>) = (h \o queue) \o <<r>>
  BY <1>3, ConcatAssociative
<1> QED BY <1>1, <1>4, <1>5, <1>6, <1>7

\* Taking a record from the queue makes it due.
LEMMA TakeStream ==
    ASSUME MgrInd, NEW kind \in PluginKinds, Take
    PROVE  UNCHANGED accepted /\ heardStream(kind)' = heardStream(kind)
<1> USE DEF MgrInd
<1>1. UNCHANGED <<accepted, heard, calls>> /\ worker = "check" /\ calls = <<>>
  BY DEF Take, CallsInv
<1>2. due(kind) = <<>>
  BY <1>1, Reaching DEF due, PluginKinds
<1>3. CASE queue = <<>>
  <2>1. due(kind)' = <<>> /\ queue' = queue
    BY <1>1, <1>3, Reaching DEF due, PluginKinds, Take, reaches, kindOf
  <2> QED BY <1>1, <1>2, <2>1 DEF heardStream
<1>4. CASE queue # <<>>
  <2>1. due(kind)' = <<Head(queue)>> /\ queue' = Tail(queue)
    BY <1>4 DEF Take, due
  <2>2. <<Head(queue)>> \in Seq(Published) /\ Tail(queue) \in Seq(Published)
    BY <1>4, HeadTailProperties DEF MgrTypes
  <2>3. <<Head(queue)>> \o Tail(queue) = queue
    <3> DEFINE s == <<Head(queue)>> \o Tail(queue)
    <3>1. /\ queue \in Seq(Published) /\ Len(queue) \in Nat \ {0} /\ Head(queue) = queue[1]
          /\ Len(Tail(queue)) = Len(queue) - 1
          /\ \A i \in 1 .. Len(Tail(queue)) : Tail(queue)[i] = queue[i + 1]
      BY <1>4, HeadTailProperties, EmptySeq DEF MgrTypes
    <3>2. /\ s \in Seq(Published) /\ Len(s) = 1 + Len(Tail(queue))
          /\ \A i \in 1..(1 + Len(Tail(queue))) :
                s[i] = IF i <= 1 THEN <<Head(queue)>>[i] ELSE Tail(queue)[i - 1]
      BY <2>2, ConcatProperties, TwoPlugins
    <3>3. \A i \in 1..Len(queue) : s[i] = queue[i]
      BY <3>1, <3>2, TwoPlugins
    <3> QED BY <3>1, <3>2, <3>3, SeqEqual
  <2>4. heard[kind] \in Seq(Published)
    BY MgrStreamTypes
  <2>5. heardStream(kind)' = (heard[kind] \o <<Head(queue)>>) \o Tail(queue)
    BY <1>1, <2>1 DEF heardStream
  <2>6. heardStream(kind) = heard[kind] \o queue
    BY <1>2, <2>4, ConcatEmptySeq DEF heardStream
  <2>7. (heard[kind] \o <<Head(queue)>>) \o Tail(queue)
            = heard[kind] \o (<<Head(queue)>> \o Tail(queue))
    BY <2>2, <2>4, ConcatAssociative
  <2> QED BY <1>1, <2>3, <2>5, <2>6, <2>7
<1> QED BY <1>3, <1>4

\* The record is due to those on the copied list only: a keeper that was not
\* registered misses it, and it alone.
LEMMA CopyStream ==
    ASSUME MgrInd, NEW kind \in PluginKinds, CopyPlugins
    PROVE  /\ UNCHANGED <<accepted, heard, plugins>>
           /\ \/ heardStream(kind)' = heardStream(kind)
              \/ /\ kind = "keeper" /\ plugins = <<QueuePlugin>>
                 /\ heardStream(kind) = item \o heardStream(kind)'
<1> USE DEF MgrInd
<1>1. /\ UNCHANGED <<accepted, heard, queue, item, plugins>>
      /\ calls' = plugins /\ worker = "taken" /\ worker' = "dispatch"
  BY DEF CopyPlugins
<1>2. due(kind) = item
  BY <1>1 DEF due
<1>3. reaches(calls, kind)' <=> reaches(plugins, kind)
  BY <1>1 DEF reaches, kindOf
<1>4. due(kind)' = IF reaches(plugins, kind) THEN item ELSE <<>>
  BY <1>1, <1>3 DEF due
<1>5. CASE reaches(plugins, kind)
  BY <1>1, <1>2, <1>4, <1>5 DEF heardStream
<1>6. CASE ~reaches(plugins, kind)
  <2>1. kind = "keeper" /\ plugins = <<QueuePlugin>>
    BY <1>6, Reaching DEF PluginKinds, CallsInv, Registered
  <2>2. heard["keeper"] = <<>> /\ heard["keeper"]' = <<>>
    BY <2>1, <1>1 DEF MgrStreamInv
  <2>3. item \in Seq(Published) /\ queue \in Seq(Published) /\ <<>> \in Seq(Published)
    BY EmptySeq DEF MgrTypes
  <2>4. heardStream(kind) = item \o queue
    BY <1>2, <2>1, <2>2, <2>3, ConcatEmptySeq DEF heardStream
  <2>5. heardStream(kind)' = queue
    BY <1>1, <1>4, <1>6, <2>1, <2>2, <2>3, ConcatEmptySeq DEF heardStream
  <2> QED BY <1>1, <2>1, <2>4, <2>5
<1> QED BY <1>5, <1>6

\* A call moves the record from what is due to what was heard.
LEMMA InvokeStream ==
    ASSUME MgrInd, NEW kind \in PluginKinds, NEW done \in BOOLEAN, Invoke(done)
    PROVE  UNCHANGED <<accepted, plugins>> /\ heardStream(kind)' = heardStream(kind)
<1> USE DEF MgrInd
<1> DEFINE p == kindOf(Head(calls))
<1>1. /\ UNCHANGED <<accepted, queue, item, plugins, worker>>
      /\ calls # <<>> /\ calls' = Tail(calls) /\ worker = "dispatch"
      /\ heard' = [heard EXCEPT ![p] = @ \o item]
  BY DEF Invoke
<1>2. /\ p \in PluginKinds /\ reaches(calls, p) /\ ~reaches(Tail(calls), p)
      /\ \A other \in PluginKinds \ {p} : reaches(Tail(calls), other) <=> reaches(calls, other)
  <2>1. kindOf(QueuePlugin) = "queue" /\ \A k \in Keepers : kindOf(k) = "keeper"
    BY ManagerAssumption DEF kindOf
  <2>2. CASE calls = <<QueuePlugin>>
    BY <2>1, <2>2, TwoPlugins, Reaching DEF PluginKinds
  <2>3. CASE \E k \in Keepers : calls = <<k>>
    <3> PICK k \in Keepers : calls = <<k>>
      BY <2>3
    <3>1. p = "keeper" /\ Tail(calls) = <<>>
      BY <2>1, TwoPlugins
    <3> QED BY <3>1, Reaching DEF PluginKinds
  <2>4. CASE \E k \in Keepers : calls = <<QueuePlugin, k>>
    BY <2>1, <2>4, TwoPlugins, Reaching DEF PluginKinds
  <2> QED BY <1>1, <2>2, <2>3, <2>4 DEF CallsInv, Registered
<1>3. reaches(calls, kind)' <=> reaches(Tail(calls), kind)
  BY <1>1 DEF reaches, kindOf
<1>4. /\ due(kind) = IF reaches(calls, kind) THEN item ELSE <<>>
      /\ due(kind)' = IF reaches(Tail(calls), kind) THEN item ELSE <<>>
  BY <1>1, <1>3 DEF due
<1>5. CASE kind = p
  <2>1. heard'[kind] = heard[kind] \o item
    BY <1>1, <1>5 DEF MgrTypes
  <2>2. due(kind) = item /\ due(kind)' = <<>>
    BY <1>2, <1>4, <1>5
  <2>3. heard[kind] \o item \in Seq(Published)
    BY MgrStreamTypes, ConcatProperties DEF MgrTypes
  <2>4. (heard[kind] \o item) \o <<>> = heard[kind] \o item
    BY <2>3, ConcatEmptySeq
  <2> QED BY <1>1, <2>1, <2>2, <2>4 DEF heardStream
<1>6. CASE kind # p
  <2>1. heard'[kind] = heard[kind]
    BY <1>1, <1>6 DEF MgrTypes
  <2>2. due(kind)' = due(kind)
    BY <1>2, <1>4, <1>6
  <2> QED BY <1>1, <2>1, <2>2 DEF heardStream
<1> QED BY <1>5, <1>6

\* What the remaining actions leave alone.
LEMMA OtherStream ==
    ASSUME MgrInd, NEW kind \in PluginKinds,
           \/ UNCHANGED ManagerVars \/ Start \/ Stop \/ Broadcast \/ CloseKeeper \/ Dispatched
           \/ \E k \in Keepers : RegisterNamed(k)
           \/ \E r \in Published : (Publish(r) /\ closed) \/ Signal(r)
    PROVE  UNCHANGED accepted /\ heardStream(kind)' = heardStream(kind) /\ UNCHANGED <<heard, calls>>
<1> USE DEF MgrInd
<1>1. UNCHANGED <<accepted, queue, heard, calls>>
  BY DEF ManagerVars, Start, Stop, Broadcast, CloseKeeper, RegisterNamed, Publish, Signal,
         Dispatched
<1>2. reaches(calls, kind)' <=> reaches(calls, kind)
  BY <1>1 DEF reaches, kindOf
<1>3. CASE Dispatched
  <2>1. worker = "dispatch" /\ worker' = "check" /\ calls = <<>>
    BY <1>3 DEF Dispatched
  <2>2. due(kind) = <<>> /\ due(kind)' = <<>>
    BY <1>2, <2>1, Reaching DEF due, PluginKinds
  <2> QED BY <1>1, <2>2 DEF heardStream
<1>4. CASE ~Dispatched
  <2>1. UNCHANGED item
    BY <1>4 DEF ManagerVars, Start, Stop, Broadcast, CloseKeeper, RegisterNamed, Publish, Signal
  <2>2. worker' = "taken" <=> worker = "taken"
    BY <1>4 DEF ManagerVars, Start, Stop, Broadcast, CloseKeeper, RegisterNamed, Publish, Signal
  <2>3. due(kind)' = due(kind)
    BY <1>2, <2>1, <2>2 DEF due
  <2> QED BY <1>1, <2>3 DEF heardStream
<1> QED BY <1>3, <1>4

\* A keeper that is not registered is not called and has heard nothing.
LEMMA KeeperLater ==
    ASSUME MgrInd, [ManagerNext]_ManagerVars
    PROVE  (plugins = <<QueuePlugin>> => heard["keeper"] = <<>> /\ ~reaches(calls, "keeper"))'
<1> USE DEF MgrInd
<1> SUFFICES ASSUME plugins' = <<QueuePlugin>>
             PROVE  heard'["keeper"] = <<>> /\ ~reaches(calls', "keeper")
  BY DEF reaches, kindOf
<1>1. plugins = <<QueuePlugin>>
  <2>1. CASE \E k \in Keepers : RegisterNamed(k)
    <3>1. PICK k \in Keepers : RegisterNamed(k)
      BY <2>1
    <3>2. ASSUME NEW j \in Keepers, plugins = <<QueuePlugin, j>> PROVE FALSE
      <4>1. DOMAIN plugins = {1, 2} /\ plugins[2] \in Keepers
        BY <3>2, TwoPlugins
      <4>2. DOMAIN plugins' = {1, 2}
        BY <3>1, <4>1 DEF RegisterNamed
      <4> QED BY <4>2, TwoPlugins
    <3> QED BY <3>2 DEF CallsInv, Registered
  <2>2. CASE ~ \E k \in Keepers : RegisterNamed(k)
    BY <2>2 DEF ManagerNext, Run, ManagerVars, Start, Publish, Signal, Take, CopyPlugins, Invoke,
                Dispatched, Stop, Broadcast, CloseKeeper
  <2> QED BY <2>1, <2>2
<1>2. heard["keeper"] = <<>> /\ ~reaches(calls, "keeper")
  BY <1>1 DEF MgrStreamInv
<1>3. CASE \E done \in BOOLEAN : Invoke(done)
  <2>1. /\ calls # <<>> /\ calls' = Tail(calls)
        /\ heard' = [heard EXCEPT ![kindOf(Head(calls))] = @ \o item]
    BY <1>3 DEF Invoke
  <2>2. calls = <<QueuePlugin>>
    BY <1>2, <2>1, Reaching DEF CallsInv, Registered
  <2>3. kindOf(Head(calls)) = "queue" /\ calls' = <<>>
    BY <2>1, <2>2, TwoPlugins DEF kindOf
  <2> QED BY <1>2, <2>1, <2>3, Reaching DEF MgrTypes, PluginKinds
<1>4. CASE CopyPlugins
  BY <1>1, <1>2, <1>4, Reaching DEF CopyPlugins
<1>5. CASE ~CopyPlugins /\ ~ \E done \in BOOLEAN : Invoke(done)
  <2>1. UNCHANGED <<heard, calls>>
    BY <1>5 DEF ManagerNext, Run, ManagerVars, Start, Publish, Signal, Take, RegisterNamed,
                Dispatched, Stop, Broadcast, CloseKeeper
  <2> QED BY <1>2, <2>1
<1> QED BY <1>3, <1>4, <1>5

\* A step keeps the streams of the plugins.
LEMMA StreamsStep ==
    ASSUME MgrInd, [ManagerNext]_ManagerVars
    PROVE  MgrStreamInv'
<1> USE DEF MgrInd
<1>1. PICK before \in Seq(Published) : before \o heardStream("keeper") = accepted
  BY DEF MgrStreamInv
<1>2. "queue" \in PluginKinds /\ "keeper" \in PluginKinds /\ heardStream("queue") = accepted
  BY DEF MgrStreamInv, PluginKinds
<1>3. heardStream("keeper") \in Seq(Published)
  BY <1>2, MgrStreamTypes
<1> SUFFICES /\ heardStream("queue")' = accepted'
             /\ \E b \in Seq(Published) : b \o heardStream("keeper")' = accepted'
  BY KeeperLater DEF MgrStreamInv
<1>4. CASE \E r \in Published : Publish(r) /\ ~closed
  <2>1. PICK r \in Published : Publish(r) /\ ~closed
    BY <1>4
  <2>2. /\ accepted' = Append(accepted, r)
        /\ heardStream("queue")' = Append(heardStream("queue"), r)
        /\ heardStream("keeper")' = Append(heardStream("keeper"), r)
    BY <1>2, <2>1, MgrPublishStream
  <2>3. /\ <<r>> \in Seq(Published)
        /\ Append(accepted, r) = accepted \o <<r>>
        /\ Append(heardStream("keeper"), r) = heardStream("keeper") \o <<r>>
    BY <1>3, AppendIsConcat DEF MgrTypes
  <2>4. (before \o heardStream("keeper")) \o <<r>> = before \o (heardStream("keeper") \o <<r>>)
    BY <1>3, <2>3, ConcatAssociative
  <2> QED BY <1>1, <1>2, <2>2, <2>3, <2>4
<1>5. CASE CopyPlugins
  <2>1. UNCHANGED accepted /\ heardStream("queue")' = heardStream("queue")
    BY <1>2, <1>5, CopyStream
  <2>2. CASE heardStream("keeper")' = heardStream("keeper")
    BY <1>1, <1>2, <2>1, <2>2
  <2>3. CASE heardStream("keeper") = item \o heardStream("keeper")'
    <3>1. item \in Seq(Published) /\ heardStream("keeper")' \in Seq(Published)
      BY <1>2, MgrStreamTypes, MgrTypesStep DEF MgrTypes, due, heardStream, reaches, kindOf
    <3>2. \A s \in Seq(Published) : (before \o item) \o s = before \o (item \o s)
      BY <3>1, ConcatAssociative, SMTT(30)
    <3>3. (before \o item) \o heardStream("keeper")' = before \o heardStream("keeper")
      BY <2>3, <3>1, <3>2
    <3>4. before \o item \in Seq(Published)
      BY <3>1, ConcatProperties
    <3> QED BY <1>1, <1>2, <2>1, <3>3, <3>4
  <2> QED BY <1>2, <1>5, <2>2, <2>3, CopyStream
<1>6. CASE ~CopyPlugins /\ ~ \E r \in Published : Publish(r) /\ ~closed
  <2>1. UNCHANGED accepted /\ \A kind \in PluginKinds : heardStream(kind)' = heardStream(kind)
    <3> SUFFICES ASSUME NEW kind \in PluginKinds
                 PROVE  UNCHANGED accepted /\ heardStream(kind)' = heardStream(kind)
      BY <1>2
    <3>1. CASE Take
      BY <3>1, TakeStream
    <3>2. CASE \E done \in BOOLEAN : Invoke(done)
      BY <3>2, InvokeStream
    <3>3. CASE ~Take /\ ~ \E done \in BOOLEAN : Invoke(done)
      BY <1>6, <3>3, OtherStream DEF ManagerNext, Run
    <3> QED BY <3>1, <3>2, <3>3
  <2> QED BY <1>1, <1>2, <2>1
<1> QED BY <1>4, <1>5, <1>6

\* HeardInOrder and KeepersHearOnce follow from the two streams.
LEMMA MgrIndImpliesInv == MgrInd => ManagerInv
<1> SUFFICES ASSUME MgrInd PROVE ManagerInv
  OBVIOUS
<1> USE DEF MgrInd
<1>1. ManagerTypeOK
  <2>1. \A s \in Seq(Published) : ToSet(s) \subseteq Published
    BY ElementOfSeq, LenProperties DEF ToSet
  <2>2. \A k \in Keepers :
            ToSet(<<QueuePlugin, k>>) \subseteq Plugins /\ ToSet(<<k>>) \subseteq Plugins
    <3> TAKE k \in Keepers
    <3> DEFINE two == <<QueuePlugin, k>>
               one == <<k>>
    <3>1. /\ DOMAIN two = {1, 2} /\ two[1] = QueuePlugin /\ two[2] = k
          /\ DOMAIN one = {1} /\ one[1] = k
      BY TwoPlugins
    <3> HIDE DEF two, one
    <3>2. ToSet(two) \subseteq Plugins /\ ToSet(one) \subseteq Plugins
      BY <3>1 DEF ToSet, Plugins
    <3> QED BY <3>2 DEF two, one
  <2>3. ToSet(<<QueuePlugin>>) \subseteq Plugins /\ ToSet(<<>>) \subseteq Plugins
    BY TwoPlugins DEF ToSet, Plugins
  <2>4. ToSet(calls) \subseteq Plugins /\ ToSet(plugins) \subseteq Plugins
    BY <2>2, <2>3 DEF CallsInv, Registered
  <2> QED BY <2>1, <2>4 DEF ManagerTypeOK, MgrTypes
<1>2. HeardInOrder
  <2>1. QueuePlugin \in ToSet(calls) <=> reaches(calls, "queue")
    <3>1. CASE calls = <<>>
      BY <3>1, TwoPlugins, Reaching DEF ToSet
    <3>2. CASE calls = <<QueuePlugin>>
      BY <3>2, TwoPlugins, Reaching DEF ToSet
    <3>3. CASE \E k \in Keepers : calls = <<QueuePlugin, k>>
      <4> PICK k \in Keepers : calls = <<QueuePlugin, k>>
        BY <3>3
      <4>1. DOMAIN calls = {1, 2} /\ calls[1] = QueuePlugin /\ reaches(calls, "queue")
        BY TwoPlugins, Reaching
      <4> QED BY <4>1 DEF ToSet
    <3>4. CASE \E k \in Keepers : calls = <<k>>
      <4> PICK k \in Keepers : calls = <<k>>
        BY <3>4
      <4>1. DOMAIN calls = {1} /\ calls[1] = k /\ ~reaches(calls, "queue")
        BY TwoPlugins, Reaching
      <4> QED BY <4>1, ManagerAssumption DEF ToSet
    <3> QED BY <3>1, <3>2, <3>3, <3>4 DEF CallsInv, Registered
  <2> QED BY <2>1 DEF HeardInOrder, MgrStreamInv, heardStream, due
<1>3. KeepersHearOnce
  <2>1. PICK before \in Seq(Published) : before \o heardStream("keeper") = accepted
    BY DEF MgrStreamInv
  <2> DEFINE h == heard["keeper"]
             rest == due("keeper") \o queue
             first == Len(before) + 1
             last == first + Len(h) - 1
  <2>2. h \in Seq(Published) /\ due("keeper") \in Seq(Published) /\ queue \in Seq(Published)
    BY MgrStreamTypes DEF MgrTypes, PluginKinds
  <2>3. rest \in Seq(Published) /\ before \o (h \o rest) = accepted
    <3>1. rest \in Seq(Published)
      BY <2>2, ConcatProperties
    <3> DEFINE d == due("keeper")
    <3> HIDE DEF d
    <3>2. \A s, u, v \in Seq(Published) : (s \o u) \o v = s \o (u \o v)
      BY ConcatAssociative
    <3>3. h \in Seq(Published) /\ d \in Seq(Published) /\ queue \in Seq(Published)
      BY <2>2 DEF d
    <3> HIDE DEF h
    <3>4. (h \o d) \o queue = h \o (d \o queue)
      BY <3>2, <3>3
    <3> QED BY <2>1, <3>1, <3>4 DEF heardStream, h, d
  <2> HIDE DEF h, rest
  <2>4. /\ h \o rest \in Seq(Published) /\ Len(h \o rest) = Len(h) + Len(rest)
        /\ \A i \in 1..(Len(h) + Len(rest)) :
              (h \o rest)[i] = IF i <= Len(h) THEN h[i] ELSE rest[i - Len(h)]
    BY <2>2, <2>3, ConcatProperties
  <2>5. /\ Len(accepted) = Len(before) + (Len(h) + Len(rest))
        /\ \A i \in 1..(Len(before) + (Len(h) + Len(rest))) :
              accepted[i] = IF i <= Len(before) THEN before[i] ELSE (h \o rest)[i - Len(before)]
    BY <2>3, <2>4, ConcatProperties
  <2>6. Len(before) \in Nat /\ Len(h) \in Nat /\ Len(rest) \in Nat
    BY <2>2, <2>3, LenProperties
  <2>7. first \in 1..(Len(accepted) - Len(h) + 1)
    BY <2>5, <2>6
  <2>8. \A i \in 1..Len(h) : accepted[first + i - 1] = h[i]
    <3> TAKE i \in 1..Len(h)
    <3>1. /\ first + i - 1 = Len(before) + i /\ i \in Nat \ {0}
          /\ ~(first + i - 1 <= Len(before)) /\ (first + i - 1) - Len(before) = i
          /\ first + i - 1 \in 1..(Len(before) + (Len(h) + Len(rest)))
          /\ i \in 1..(Len(h) + Len(rest)) /\ i <= Len(h)
      BY <2>6
    <3> HIDE DEF first
    <3>2. accepted[first + i - 1] = (h \o rest)[i]
      BY <2>5, <3>1
    <3> QED BY <2>4, <3>1, <3>2
  <2>9. \A i \in first..last : accepted[i] \in Published
    BY <2>5, <2>6, ElementOfSeq DEF MgrTypes
  <2>10. /\ SubSeq(accepted, first, last) \in Seq(Published)
         /\ Len(SubSeq(accepted, first, last)) = Len(h)
         /\ \A i \in 1..Len(h) : SubSeq(accepted, first, last)[i] = accepted[first + i - 1]
    <3>1. first \in Int /\ last \in Int /\ last - first + 1 = Len(h)
      BY <2>6
    <3> HIDE DEF first, last
    <3>2. /\ SubSeq(accepted, first, last) \in Seq(Published)
          /\ Len(SubSeq(accepted, first, last)) = IF first <= last THEN last - first + 1 ELSE 0
          /\ \A i \in 1..(last - first + 1) : SubSeq(accepted, first, last)[i] = accepted[first + i - 1]
      BY <2>9, <3>1, SubSeqProperties
    <3> QED BY <2>6, <3>1, <3>2
  <2>11. h = SubSeq(accepted, first, last)
    BY <2>2, <2>8, <2>10, SeqEqual
  <2> QED BY <2>7, <2>11 DEF KeepersHearOnce, h
<1> QED BY <1>1, <1>2, <1>3 DEF ManagerInv

\* Every plugin hears what the manager has accepted, once and in its order, a keeper
\* from its registration on (Manager.run, Publish and invokePlugins in usage/manager.go).
THEOREM ManagerCorrect == ManagerSpec => []ManagerInv
<1>1. MgrInd /\ [ManagerNext]_ManagerVars => MgrInd'
  BY MgrTypesStep, CallsStep, StreamsStep DEF MgrInd
<1> QED BY MgrInit, <1>1, MgrIndImpliesInv, PTL DEF ManagerSpec

(***************************************************************************)
(* UsageQueue, the records: each is counted over the places it can be in.  *)
(***************************************************************************)
\* The positions of a record in a sequence.
positions(r, seq) == {i \in DOMAIN seq : seq[i] = r}

\* A record occurs as often as it has positions.
LEMMA PositionsFinite ==
    ASSUME NEW S, NEW seq \in Seq(S), NEW r
    PROVE  /\ IsFiniteSet(positions(r, seq)) /\ occurs(r, seq) = Cardinality(positions(r, seq))
           /\ occurs(r, seq) \in Nat
<1>0. Len(seq) \in Nat /\ DOMAIN seq = 1..Len(seq)
  BY LenProperties
<1>1. IsFiniteSet(1..Len(seq)) /\ positions(r, seq) \in SUBSET (1..Len(seq))
  <2>1. IsFiniteSet(1..Len(seq))
    BY <1>0, FS_Interval
  <2>2. positions(r, seq) \subseteq 1..Len(seq)
    BY <1>0 DEF positions
  <2> QED BY <2>1, <2>2
<1>2. IsFiniteSet(positions(r, seq))
  BY <1>1, FS_Subset
<1> QED BY <1>2, FS_CardinalityType DEF occurs, positions

\* Nothing occurs in an empty list.
LEMMA OccursEmpty == \A r : occurs(r, <<>>) = 0
<1> TAKE r
<1>1. positions(r, <<>>) = {}
  BY EmptySeq, LenProperties DEF positions
<1> QED BY <1>1, FS_EmptySet DEF occurs, positions

\* A list of one holds its record.
LEMMA OccursOne == \A r, x : occurs(r, <<x>>) = IF x = r THEN 1 ELSE 0
<1> TAKE r, x
<1>1. DOMAIN <<x>> = {1} /\ <<x>>[1] = x
  OBVIOUS
<1>2. positions(r, <<x>>) = IF x = r THEN {1} ELSE {}
  BY <1>1 DEF positions
<1> QED BY <1>2, FS_EmptySet, FS_Singleton DEF occurs, positions

\* Occurrences add up over a concatenation.
LEMMA OccursConcat ==
    ASSUME NEW S, NEW s \in Seq(S), NEW t \in Seq(S), NEW r
    PROVE  occurs(r, s \o t) = occurs(r, s) + occurs(r, t)
<1> DEFINE u == s \o t
           moved == {i \in (Len(s) + 1)..(Len(s) + Len(t)) : t[i - Len(s)] = r}
           shift == [i \in positions(r, t) |-> i + Len(s)]
<1>1. Len(s) \in Nat /\ Len(t) \in Nat /\ DOMAIN s = 1..Len(s) /\ DOMAIN t = 1..Len(t)
  BY LenProperties
<1>2. /\ u \in Seq(S) /\ Len(u) = Len(s) + Len(t)
      /\ \A i \in 1..(Len(s) + Len(t)) : u[i] = IF i <= Len(s) THEN s[i] ELSE t[i - Len(s)]
  BY ConcatProperties
<1>3. DOMAIN u = 1..(Len(s) + Len(t))
  BY <1>2, LenProperties
<1> HIDE DEF u
<1>4. positions(r, u) = positions(r, s) \cup moved
  <2>1. \A i : i \in positions(r, u) <=> i \in positions(r, s) \cup moved
    <3> TAKE i
    <3>1. CASE i \in 1..Len(s)
      BY <1>1, <1>2, <1>3, <3>1 DEF positions
    <3>2. CASE i \in (Len(s) + 1)..(Len(s) + Len(t))
      BY <1>1, <1>2, <1>3, <3>2 DEF positions
    <3>3. CASE i \notin 1..Len(s) /\ i \notin (Len(s) + 1)..(Len(s) + Len(t))
      BY <1>1, <1>3, <3>3 DEF positions
    <3> QED BY <3>1, <3>2, <3>3
  <2> QED BY <2>1
<1>5. positions(r, s) \cap moved = {}
  BY <1>1 DEF positions
<1>6. shift \in Bijection(positions(r, t), moved)
  <2>1. shift \in [positions(r, t) -> moved]
    BY <1>1 DEF positions
  <2>2. \A i, j \in positions(r, t) : shift[i] = shift[j] => i = j
    BY <1>1 DEF positions
  <2>3. \A m \in moved : \E i \in positions(r, t) : shift[i] = m
    <3> TAKE m \in moved
    <3>1. m - Len(s) \in positions(r, t) /\ m \in Int
      BY <1>1 DEF positions
    <3>2. shift[m - Len(s)] = m
      BY <1>1, <3>1
    <3> QED BY <3>1, <3>2
  <2> QED BY <2>1, <2>2, <2>3 DEF Bijection, Injection, Surjection, IsInjective
<1> HIDE DEF moved, shift
<1>7. IsFiniteSet(positions(r, s)) /\ IsFiniteSet(positions(r, t)) /\ IsFiniteSet(positions(r, u))
  BY <1>2, PositionsFinite
<1>8. IsFiniteSet(moved) /\ Cardinality(moved) = Cardinality(positions(r, t))
  BY <1>6, <1>7, FS_Bijection DEF ExistsBijection
<1>9. Cardinality(positions(r, u)) = Cardinality(positions(r, s)) + Cardinality(moved) - 0
  BY <1>4, <1>5, <1>7, <1>8, FS_Union, FS_EmptySet
<1>10. Cardinality(positions(r, s)) \in Nat /\ Cardinality(positions(r, t)) \in Nat
  BY <1>7, FS_CardinalityType
<1>11. occurs(r, u) = Cardinality(positions(r, s)) + Cardinality(positions(r, t))
  BY <1>2, <1>8, <1>9, <1>10, PositionsFinite
<1> QED BY <1>11, PositionsFinite DEF u

\* Occurrences add up over the two parts of a list that is cut.
LEMMA OccursSplit ==
    ASSUME NEW S, NEW s \in Seq(S), NEW e \in 0..Len(s), NEW r
    PROVE  /\ SubSeq(s, 1, e) \in Seq(S) /\ SubSeq(s, e + 1, Len(s)) \in Seq(S)
           /\ occurs(r, s) = occurs(r, SubSeq(s, 1, e)) + occurs(r, SubSeq(s, e + 1, Len(s)))
<1>1. Len(s) \in Nat /\ e \in Int /\ \A i \in 1..Len(s) : s[i] \in S
  BY LenProperties, ElementOfSeq
<1>2. SubSeq(s, 1, e) \in Seq(S)
  BY <1>1, SubSeqProperties
<1>3. SubSeq(s, e + 1, Len(s)) \in Seq(S)
  BY <1>1, SubSeqProperties
<1>4. 1 \in 1..(Len(s) + 1) /\ e \in (1 - 1)..Len(s) /\ Len(s) \in e..Len(s)
  BY <1>1
<1>5. SubSeq(s, 1, e) \o SubSeq(s, e + 1, Len(s)) = s
  BY <1>4, ConcatAdjacentSubSeq, SubSeqFull
<1> QED BY <1>2, <1>3, <1>5, OccursConcat

\* Occurrences of the head and of the tail of a list.
LEMMA OccursHead ==
    ASSUME NEW S, NEW s \in Seq(S), s # <<>>, NEW r
    PROVE  /\ Head(s) \in S /\ <<Head(s)>> \in Seq(S) /\ Tail(s) \in Seq(S)
           /\ occurs(r, s) = occurs(r, <<Head(s)>>) + occurs(r, Tail(s))
<1>1. Head(s) \in S /\ Tail(s) \in Seq(S)
  BY HeadTailProperties
<1>2. Len(s) \in Nat \ {0} /\ Head(s) = s[1] /\ Tail(s) = SubSeq(s, 2, Len(s))
  BY EmptySeq, TailIsSubSeq
<1>3. SubSeq(s, 1, 1) = <<s[1]>>
  <2>1. 1 \in 1..Len(s) /\ 1 \in 1..Len(s)
    BY <1>2
  <2>2. SubSeq(s, 1, 1) = <<s[1]>> \o SubSeq(s, 1 + 1, 1)
    BY <2>1, SubSeqRecursiveFirst
  <2>3. SubSeq(s, 1 + 1, 1) = <<>>
    BY SubSeqEmpty
  <2>4. <<s[1]>> \in Seq(S)
    BY <1>1, <1>2
  <2> QED BY <2>2, <2>3, <2>4, ConcatEmptySeq
<1>4. 1 \in 0..Len(s) /\ 1 + 1 = 2
  BY <1>2
<1> QED BY <1>1, <1>2, <1>3, <1>4, OccursSplit, ZenonT(60)

\* Lists of records, one for each member of A.
Lists(A) == [A -> Seq(Records)]

\* Two functions that differ in one place at most.
differAt(a, lists, new) == \A b \in DOMAIN lists \ {a} : new[b] = lists[b]

\* When one of several lists changes, the places of a record change by what that list
\* has gained or lost.
LEMMA PlacesUpdate ==
    ASSUME NEW A, NEW a \in A, NEW r
    PROVE  \A lists, new \in Lists(A) :
            differAt(a, lists, new) /\ IsFiniteSet(places(r, lists)) =>
                /\ IsFiniteSet(places(r, new)) /\ Cardinality(places(r, lists)) \in Nat
                /\ Cardinality(places(r, new)) \in Nat
                /\ Cardinality(places(r, new)) + occurs(r, lists[a])
                    = Cardinality(places(r, lists)) + occurs(r, new[a])
<1> SUFFICES ASSUME NEW lists \in Lists(A), NEW new \in Lists(A),
                    differAt(a, lists, new), IsFiniteSet(places(r, lists))
             PROVE  /\ IsFiniteSet(places(r, new)) /\ Cardinality(places(r, lists)) \in Nat
                    /\ Cardinality(places(r, new)) \in Nat
                    /\ Cardinality(places(r, new)) + occurs(r, lists[a])
                        = Cardinality(places(r, lists)) + occurs(r, new[a])
  OBVIOUS
<1> DEFINE pairs(list) == {a} \X positions(r, list)
           others == {p \in places(r, lists) : p[1] # a}
           s == new[a]
<1>0. lists \in [A -> Seq(Records)] /\ new \in [A -> Seq(Records)]
  BY DEF Lists
<1>1. lists[a] \in Seq(Records) /\ s \in Seq(Records)
  BY <1>0
<1>2. ASSUME NEW list \in Seq(Records)
      PROVE  IsFiniteSet(pairs(list)) /\ Cardinality(pairs(list)) = occurs(r, list)
  <2> DEFINE f == [i \in positions(r, list) |-> <<a, i>>]
  <2>1. f \in Bijection(positions(r, list), pairs(list))
    <3>1. f \in [positions(r, list) -> pairs(list)]
      OBVIOUS
    <3>2. \A i, j \in positions(r, list) : f[i] = f[j] => i = j
      OBVIOUS
    <3>3. \A p \in pairs(list) : \E i \in positions(r, list) : f[i] = p
      OBVIOUS
    <3> QED BY <3>1, <3>2, <3>3 DEF Bijection, Injection, Surjection, IsInjective
  <2> HIDE DEF f
  <2>2. IsFiniteSet(positions(r, list)) /\ occurs(r, list) = Cardinality(positions(r, list))
    BY PositionsFinite
  <2> QED BY <2>1, <2>2, FS_Bijection DEF ExistsBijection
<1>3. places(r, lists) = others \cup pairs(lists[a])
  <2>1. \A p : p \in places(r, lists) <=> \E b \in A : p \in {b} \X positions(r, lists[b])
    BY <1>0 DEF places, positions
  <2> QED BY <2>1
<1>4. places(r, new) = others \cup pairs(s)
  <2>1. \A b \in A \ {a} : new[b] = lists[b]
    BY <1>0 DEF differAt
  <2>2. DOMAIN new = A /\ DOMAIN lists = A
    BY <1>0
  <2>3. \A p : p \in places(r, new) <=> \E b \in A : p \in {b} \X positions(r, new[b])
    BY <2>2 DEF places, positions
  <2>4. \A p : p \in places(r, lists) <=> \E b \in A : p \in {b} \X positions(r, lists[b])
    BY <2>2 DEF places, positions
  <2>5. \A p : p \in others <=> \E b \in A \ {a} : p \in {b} \X positions(r, lists[b])
    BY <2>4
  <2>6. \A p : p \in places(r, new) <=> p \in others \/ p \in pairs(s)
    BY <1>1, <2>1, <2>3, <2>5
  <2> QED BY <2>6
<1>5. /\ others \cap pairs(lists[a]) = {} /\ others \cap pairs(s) = {}
  OBVIOUS
<1>6. IsFiniteSet(others) /\ Cardinality(others) \in Nat
  BY FS_Subset, FS_CardinalityType
<1>7. /\ IsFiniteSet(pairs(lists[a])) /\ Cardinality(pairs(lists[a])) = occurs(r, lists[a])
      /\ IsFiniteSet(pairs(s)) /\ Cardinality(pairs(s)) = occurs(r, s)
      /\ occurs(r, lists[a]) \in Nat /\ occurs(r, s) \in Nat
  BY <1>1, <1>2, PositionsFinite
<1> HIDE DEF others, pairs, s
<1>8. Cardinality(places(r, lists)) = Cardinality(others) + occurs(r, lists[a]) - 0
  <2>1. Cardinality(others \cup pairs(lists[a])) = Cardinality(others)
            + Cardinality(pairs(lists[a])) - Cardinality(others \cap pairs(lists[a]))
    BY <1>6, <1>7, FS_Union
  <2> QED BY <1>3, <1>5, <1>7, <2>1, FS_EmptySet
<1>9. /\ IsFiniteSet(places(r, new))
      /\ Cardinality(places(r, new)) = Cardinality(others) + occurs(r, s) - 0
  <2>1. IsFiniteSet(others \cup pairs(s))
    BY <1>6, <1>7, FS_Union
  <2>2. Cardinality(others \cup pairs(s))
          = Cardinality(others) + Cardinality(pairs(s)) - Cardinality(others \cap pairs(s))
    BY <1>6, <1>7, FS_Union
  <2> QED BY <1>4, <1>5, <1>7, <2>1, <2>2, FS_EmptySet
<1> QED BY <1>6, <1>7, <1>8, <1>9 DEF s

\* Counting a list of records.
LEMMA PlusType ==
    ASSUME NEW count \in [Records -> Nat], NEW seq \in Seq(Records)
    PROVE  /\ plus(count, seq) \in [Records -> Nat]
           /\ \A r \in Records : plus(count, seq)[r] = count[r] + occurs(r, seq)
BY PositionsFinite DEF plus

\* What a subscriber may be sent, and where enqueuers and forwarders may be.
Payloads == Records \cup {Support, Refresh}
QueueSteps == {"idle", "check", "publish", "append", "done"}
Places == {"off", "loop", "pop", "push", "requeue", "asleep", "ended"}

\* Types; a list is in the hands of who works it off.
RecordTypes ==
    /\ items \in Seq(Records)
    /\ todo \in [Enqueuers -> Seq(Records)] /\ step \in [Enqueuers -> QueueSteps]
    /\ batch \in [Forwarders -> Seq(Records)] /\ fwd \in [Forwarders -> Places]
    /\ delivered \in [Records -> Nat] /\ lost \in [Records -> Nat]
    /\ ambiguous \in [Records -> Nat]
    /\ \A a \in Enqueuers : (todo[a] # <<>>) = (step[a] \in {"check", "publish", "append"})
    /\ \A f \in Forwarders :
        /\ (batch[f] # <<>>) = (fwd[f] = "push")
        /\ (step[f] # "idle") = (fwd[f] = "requeue")

\* Each record is counted once, or twice after a push that arrived and failed.
CountInv ==
    \A r \in Records :
        /\ IsFiniteSet(places(r, todo)) /\ IsFiniteSet(places(r, batch))
        /\ copies(r) + delivered[r] + lost[r] = (IF step[r] = "idle" THEN 0 ELSE 1) + ambiguous[r]

recordVars == <<items, todo, step, batch, fwd, delivered, lost, ambiguous>>

\* Actions that leave the records alone.
LEMMA RecordFrame ==
    ASSUME \/ NotifyUsageRefresh \/ PopCheck \/ UNCHANGED QueueVars
           \/ \E value \in BOOLEAN : SetEnabled(value)
           \/ \E s \in Subscribers : Subscribe(s) \/ Receive(s) \/ unsubscribe(s) \/ Close(s)
           \/ \E f \in Forwarders : Cancel(f)
    PROVE  UNCHANGED recordVars
BY DEF NotifyUsageRefresh, PopCheck, QueueVars, SetEnabled, Subscribe, Receive, unsubscribe, Close,
       Cancel, recordVars, package, history

\* Actions that move an enqueuer or a forwarder and no record.
LEMMA MoveFrame ==
    ASSUME \/ \E a \in Enqueuers : EnqueueCheck(a) /\ enabled
           \/ \E a \in Enqueuers : EnqueuePublish(a) /\ subs = {}
           \/ \E f \in Forwarders :
                \/ StartForwarder(f) \/ Requeued(f) \/ ForwarderWakes(f)
                \/ \E heartbeatOK \in BOOLEAN : ForwarderLoop(f, heartbeatOK),
           RecordTypes
    PROVE  /\ UNCHANGED <<items, todo, batch, delivered, lost, ambiguous>>
           /\ RecordTypes'
           /\ \A r \in Records : step'[r] = "idle" <=> step[r] = "idle"
<1> USE DEF RecordTypes, QueueSteps, Places
<1>0. /\ Records \subseteq Enqueuers /\ Forwarders \subseteq Enqueuers
      /\ Records \cap Forwarders = {}
  BY QueueAssumption DEF Enqueuers, Forwarders
<1> DEFINE Goal == /\ UNCHANGED <<items, todo, batch, delivered, lost, ambiguous>>
                   /\ RecordTypes'
                   /\ \A r \in Records : step'[r] = "idle" <=> step[r] = "idle"
<1>1. ASSUME NEW a \in Enqueuers, (EnqueueCheck(a) /\ enabled) \/ (EnqueuePublish(a) /\ subs = {})
      PROVE  Goal
  <2>1. PICK st \in {"publish", "append"} :
            /\ step[a] \in {"check", "publish"} /\ step' = [step EXCEPT ![a] = st]
            /\ UNCHANGED <<items, todo, batch, delivered, lost, ambiguous, fwd>>
    BY <1>1 DEF EnqueueCheck, EnqueuePublish, package, history
  <2>2. /\ step' \in [Enqueuers -> QueueSteps] /\ step'[a] = st
        /\ \A b \in Enqueuers \ {a} : step'[b] = step[b]
    BY <2>1
  <2>3. \A b \in Enqueuers : (step'[b] = "idle") = (step[b] = "idle")
    BY <2>1, <2>2
  <2>4. \A b \in Enqueuers : (todo[b] # <<>>) = (step'[b] \in {"check", "publish", "append"})
    BY <2>1, <2>2
  <2>5. \A f \in Forwarders : (step'[f] # "idle") = (fwd[f] = "requeue")
    BY <1>0, <2>3
  <2> QED BY <1>0, <2>1, <2>2, <2>3, <2>4, <2>5
<1>2. ASSUME NEW f \in Forwarders,
             \/ StartForwarder(f) \/ ForwarderWakes(f)
             \/ \E heartbeatOK \in BOOLEAN : ForwarderLoop(f, heartbeatOK)
      PROVE  Goal
  <2>1. PICK st \in {"loop", "ended", "pop", "asleep"} :
            /\ fwd[f] \in {"off", "asleep", "loop"} /\ fwd' = [fwd EXCEPT ![f] = st]
            /\ UNCHANGED <<items, todo, batch, delivered, lost, ambiguous, step>>
    <3>1. CASE StartForwarder(f)
      BY <3>1 DEF StartForwarder, package, history
    <3>2. CASE ForwarderWakes(f)
      BY <3>2 DEF ForwarderWakes, package, history
    <3>3. CASE \E heartbeatOK \in BOOLEAN : ForwarderLoop(f, heartbeatOK)
      BY <3>3 DEF ForwarderLoop, package, history
    <3> QED BY <1>2, <3>1, <3>2, <3>3
  <2>2. /\ fwd' \in [Forwarders -> Places] /\ fwd'[f] = st
        /\ \A g \in Forwarders \ {f} : fwd'[g] = fwd[g]
    BY <2>1
  <2>3. \A g \in Forwarders :
            /\ (fwd'[g] = "push") = (fwd[g] = "push")
            /\ (fwd'[g] = "requeue") = (fwd[g] = "requeue")
    BY <2>1, <2>2
  <2> QED BY <1>0, <2>1, <2>2, <2>3
<1>3. ASSUME NEW f \in Forwarders, Requeued(f) PROVE Goal
  <2>1. /\ fwd[f] = "requeue" /\ step[f] = "done"
        /\ step' = [step EXCEPT ![f] = "idle"] /\ fwd' = [fwd EXCEPT ![f] = "asleep"]
        /\ UNCHANGED <<items, todo, batch, delivered, lost, ambiguous>>
    BY <1>3 DEF Requeued, package, history
  <2>2. /\ fwd' \in [Forwarders -> Places] /\ fwd'[f] = "asleep"
        /\ \A g \in Forwarders \ {f} : fwd'[g] = fwd[g]
        /\ step' \in [Enqueuers -> QueueSteps] /\ step'[f] = "idle"
        /\ \A b \in Enqueuers \ {f} : step'[b] = step[b]
    BY <1>0, <2>1
  <2>3. todo[f] = <<>> /\ batch[f] = <<>>
    BY <1>0, <2>1
  <2>4. \A b \in Enqueuers : (todo[b] # <<>>) = (step'[b] \in {"check", "publish", "append"})
    BY <2>1, <2>2, <2>3
  <2>5. \A g \in Forwarders :
            /\ (batch[g] # <<>>) = (fwd'[g] = "push")
            /\ (step'[g] # "idle") = (fwd'[g] = "requeue")
    BY <1>0, <2>1, <2>2, <2>3
  <2>6. \A r \in Records : step'[r] = "idle" <=> step[r] = "idle"
    BY <1>0, <2>2
  <2> QED BY <1>0, <2>1, <2>2, <2>4, <2>5, <2>6
<1>4. Goal
  <2> HIDE DEF Goal, RecordTypes
  <2> QED BY <1>1, <1>2, <1>3
<1> QED BY <1>4

\* Requests and forwarders are different enqueuers.
LEMMA Disjoint ==
    /\ Records \subseteq Enqueuers /\ Forwarders \subseteq Enqueuers
    /\ Records \cap Forwarders = {}
BY QueueAssumption DEF Enqueuers, Forwarders

\* What an enqueuer does with the first record of its list takes it off the list.
LEMMA EnqueuedEffect ==
    ASSUME RecordTypes, NEW a \in Enqueuers, step[a] \in {"check", "publish", "append"},
           Enqueued(a), NEW r \in Records,
           IsFiniteSet(places(r, todo))
    PROVE  /\ Head(todo[a]) \in Records /\ <<Head(todo[a])>> \in Seq(Records)
           /\ IsFiniteSet(places(r, todo'))
           /\ Cardinality(places(r, todo)) \in Nat /\ Cardinality(places(r, todo')) \in Nat
           /\ Cardinality(places(r, todo))
                = Cardinality(places(r, todo')) + occurs(r, <<Head(todo[a])>>)
<1>1. /\ todo[a] \in Seq(Records) /\ todo[a] # <<>>
      /\ todo \in [Enqueuers -> Seq(Records)]
  BY DEF RecordTypes
<1>2. todo' = [todo EXCEPT ![a] = Tail(todo[a])]
  BY DEF Enqueued
<1>3. /\ Head(todo[a]) \in Records /\ <<Head(todo[a])>> \in Seq(Records)
      /\ Tail(todo[a]) \in Seq(Records)
      /\ occurs(r, todo[a]) = occurs(r, <<Head(todo[a])>>) + occurs(r, Tail(todo[a]))
  BY <1>1, OccursHead
<1>4. occurs(r, <<Head(todo[a])>>) \in Nat /\ occurs(r, Tail(todo[a])) \in Nat
  BY <1>3, PositionsFinite
<1>5. /\ IsFiniteSet(places(r, todo')) /\ Cardinality(places(r, todo)) \in Nat
      /\ Cardinality(places(r, todo')) \in Nat
      /\ Cardinality(places(r, todo')) + occurs(r, todo[a])
            = Cardinality(places(r, todo)) + occurs(r, Tail(todo[a]))
  <2>1. /\ todo \in Lists(Enqueuers) /\ todo' \in Lists(Enqueuers)
        /\ todo'[a] = Tail(todo[a]) /\ differAt(a, todo, todo')
    BY <1>1, <1>2, <1>3 DEF differAt, Lists
  <2>2. /\ IsFiniteSet(places(r, todo')) /\ Cardinality(places(r, todo)) \in Nat
        /\ Cardinality(places(r, todo')) \in Nat
        /\ Cardinality(places(r, todo')) + occurs(r, todo[a])
            = Cardinality(places(r, todo)) + occurs(r, todo'[a])
    BY <2>1, PlacesUpdate
  <2> QED BY <2>1, <2>2
<1> DEFINE x == Cardinality(places(r, todo))
           y == Cardinality(places(r, todo'))
           p == occurs(r, <<Head(todo[a])>>)
           q == occurs(r, Tail(todo[a]))
<1>6. x \in Nat /\ y \in Nat /\ p \in Nat /\ q \in Nat /\ y + (p + q) = x + q
  BY <1>3, <1>4, <1>5
<1>7. x = y + p
  <2> HIDE DEF x, y, p, q
  <2> QED BY <1>6
<1> QED BY <1>3, <1>5, <1>7

\* An enqueuer that is through with its first record keeps the types.
LEMMA EnqueuedTypes ==
    ASSUME RecordTypes, NEW a \in Enqueuers, step[a] \in {"check", "publish", "append"},
           Enqueued(a)
    PROVE  /\ Head(todo[a]) \in Records /\ <<Head(todo[a])>> \in Seq(Records)
           /\ todo' \in [Enqueuers -> Seq(Records)] /\ step' \in [Enqueuers -> QueueSteps]
           /\ \A b \in Enqueuers :
                /\ (todo'[b] # <<>>) = (step'[b] \in {"check", "publish", "append"})
                /\ (step'[b] = "idle") = (step[b] = "idle")
<1>1. /\ todo[a] \in Seq(Records) /\ todo[a] # <<>>
      /\ todo \in [Enqueuers -> Seq(Records)] /\ step \in [Enqueuers -> QueueSteps]
      /\ \A b \in Enqueuers : (todo[b] # <<>>) = (step[b] \in {"check", "publish", "append"})
  BY DEF RecordTypes
<1>2. /\ todo' = [todo EXCEPT ![a] = Tail(todo[a])]
      /\ step' = [step EXCEPT ![a] = IF Len(todo[a]) = 1 THEN "done" ELSE "check"]
  BY DEF Enqueued
<1>3. /\ Head(todo[a]) \in Records /\ Tail(todo[a]) \in Seq(Records)
      /\ Len(Tail(todo[a])) = Len(todo[a]) - 1 /\ Len(todo[a]) \in Nat
  BY <1>1, HeadTailProperties, LenProperties
<1>4. (Tail(todo[a]) # <<>>) = (Len(todo[a]) # 1)
  <2>1. Tail(todo[a]) = <<>> <=> Len(Tail(todo[a])) = 0
    BY <1>3, EmptySeq
  <2> QED BY <1>3, <2>1
<1>5. /\ todo' \in [Enqueuers -> Seq(Records)] /\ todo'[a] = Tail(todo[a])
      /\ step' \in [Enqueuers -> QueueSteps]
      /\ step'[a] = IF Len(todo[a]) = 1 THEN "done" ELSE "check"
      /\ \A b \in Enqueuers \ {a} : todo'[b] = todo[b] /\ step'[b] = step[b]
  BY <1>1, <1>2, <1>3 DEF QueueSteps
<1>6. \A b \in Enqueuers :
        /\ (todo'[b] # <<>>) = (step'[b] \in {"check", "publish", "append"})
        /\ (step'[b] = "idle") = (step[b] = "idle")
  <2> TAKE b \in Enqueuers
  <2>1. CASE b = a
    BY <1>1, <1>4, <1>5, <2>1
  <2>2. CASE b # a
    BY <1>1, <1>5, <2>2
  <2> QED BY <2>1, <2>2
<1> QED BY <1>3, <1>5, <1>6

\* The record is counted as handed over or as given up.
LEMMA SettleStep ==
    ASSUME RecordTypes, CountInv, NEW a \in Enqueuers, step[a] \in {"check", "publish"},
           Enqueued(a), UNCHANGED <<items, batch, fwd, ambiguous>>,
           \/ lost' = plus(lost, <<Head(todo[a])>>) /\ UNCHANGED delivered
           \/ delivered' = plus(delivered, <<Head(todo[a])>>) /\ UNCHANGED lost
    PROVE  RecordTypes' /\ CountInv'
<1> DEFINE h == <<Head(todo[a])>>
<1>1. /\ h \in Seq(Records)
      /\ todo' \in [Enqueuers -> Seq(Records)] /\ step' \in [Enqueuers -> QueueSteps]
      /\ \A b \in Enqueuers :
            /\ (todo'[b] # <<>>) = (step'[b] \in {"check", "publish", "append"})
            /\ (step'[b] = "idle") = (step[b] = "idle")
  BY EnqueuedTypes
<1> HIDE DEF h
<1>2. /\ lost' \in [Records -> Nat] /\ delivered' \in [Records -> Nat]
      /\ \A r \in Records : delivered'[r] + lost'[r] = delivered[r] + lost[r] + occurs(r, h)
  <2>1. \A r \in Records : occurs(r, h) \in Nat
    BY <1>1, PositionsFinite
  <2>2. CASE lost' = plus(lost, h) /\ UNCHANGED delivered
    <3>1. /\ lost' \in [Records -> Nat]
          /\ \A r \in Records : lost'[r] = lost[r] + occurs(r, h)
      <4>1. h \in Seq(Records) /\ lost \in [Records -> Nat]
        BY <1>1 DEF RecordTypes
      <4> QED BY <4>1, <2>2, PlusType
    <3> QED BY <2>1, <2>2, <3>1 DEF RecordTypes
  <2>3. CASE delivered' = plus(delivered, h) /\ UNCHANGED lost
    <3>1. /\ delivered' \in [Records -> Nat]
          /\ \A r \in Records : delivered'[r] = delivered[r] + occurs(r, h)
      <4>1. h \in Seq(Records) /\ delivered \in [Records -> Nat]
        BY <1>1 DEF RecordTypes
      <4> QED BY <4>1, <2>3, PlusType
    <3> QED BY <2>1, <2>3, <3>1 DEF RecordTypes
  <2> QED BY <2>2, <2>3 DEF h
<1>3. RecordTypes'
  BY <1>1, <1>2, Disjoint, ZenonT(60) DEF RecordTypes
<1>4. ASSUME NEW r \in Records
      PROVE  /\ IsFiniteSet(places(r, todo')) /\ IsFiniteSet(places(r, batch'))
             /\ copies(r)' + delivered'[r] + lost'[r]
                    = (IF step'[r] = "idle" THEN 0 ELSE 1) + ambiguous'[r]
  <2>1. /\ IsFiniteSet(places(r, todo)) /\ IsFiniteSet(places(r, batch))
        /\ copies(r) + delivered[r] + lost[r] = (IF step[r] = "idle" THEN 0 ELSE 1) + ambiguous[r]
    BY DEF CountInv
  <2>2. /\ IsFiniteSet(places(r, todo'))
        /\ Cardinality(places(r, todo)) \in Nat /\ Cardinality(places(r, todo')) \in Nat
        /\ Cardinality(places(r, todo)) = Cardinality(places(r, todo')) + occurs(r, h)
    BY <2>1, EnqueuedEffect DEF h
  <2>3. /\ Cardinality(places(r, batch)) \in Nat /\ occurs(r, items) \in Nat
        /\ occurs(r, h) \in Nat
    BY <1>1, <2>1, FS_CardinalityType, PositionsFinite DEF RecordTypes
  <2>4. /\ copies(r) = occurs(r, items) + Cardinality(places(r, todo))
                        + Cardinality(places(r, batch))
        /\ copies(r)' = occurs(r, items) + Cardinality(places(r, todo'))
                         + Cardinality(places(r, batch))
    BY DEF copies, occurs, places
  <2>5. (step'[r] = "idle") = (step[r] = "idle")
    BY <1>1, Disjoint
  <2>6. /\ delivered[r] \in Nat /\ lost[r] \in Nat /\ delivered'[r] \in Nat /\ lost'[r] \in Nat
        /\ ambiguous[r] \in Nat /\ ambiguous' = ambiguous
        /\ delivered'[r] + lost'[r] = delivered[r] + lost[r] + occurs(r, h)
    BY <1>2 DEF RecordTypes
  <2>7. copies(r)' + delivered'[r] + lost'[r] = copies(r) + delivered[r] + lost[r]
    BY <2>2, <2>3, <2>4, <2>6
  <2> QED BY <2>1, <2>2, <2>5, <2>6, <2>7
<1> QED BY <1>3, <1>4 DEF CountInv

\* CountInv, for one record.
CountOf(r) ==
    /\ IsFiniteSet(places(r, todo)) /\ IsFiniteSet(places(r, batch))
    /\ copies(r) + delivered[r] + lost[r] = (IF step[r] = "idle" THEN 0 ELSE 1) + ambiguous[r]

\* The counts of a record are numbers.
LEMMA CountFacts ==
    ASSUME RecordTypes, CountInv, NEW r \in Records
    PROVE  /\ IsFiniteSet(places(r, todo)) /\ IsFiniteSet(places(r, batch))
           /\ Cardinality(places(r, todo)) \in Nat /\ Cardinality(places(r, batch)) \in Nat
           /\ occurs(r, items) \in Nat
           /\ delivered[r] \in Nat /\ lost[r] \in Nat /\ ambiguous[r] \in Nat
           /\ occurs(r, items) + Cardinality(places(r, todo)) + Cardinality(places(r, batch))
                + delivered[r] + lost[r]
                = (IF step[r] = "idle" THEN 0 ELSE 1) + ambiguous[r]
<1>1. CountOf(r)
  BY DEF CountInv, CountOf
<1> QED BY <1>1, FS_CardinalityType, PositionsFinite DEF RecordTypes, CountOf, copies

\* The plugin is handed a record.
LEMMA HandleStep ==
    ASSUME RecordTypes, CountInv, NEW x \in Records, HandleUsage(x)
    PROVE  RecordTypes' /\ CountInv'
<1>1. /\ step[x] = "idle" /\ todo' = [todo EXCEPT ![x] = <<x>>]
      /\ step' = [step EXCEPT ![x] = "check"]
      /\ UNCHANGED <<items, batch, fwd, delivered, lost, ambiguous>>
  BY DEF HandleUsage, package, history
<1>2. x \in Enqueuers /\ todo[x] = <<>> /\ <<x>> \in Seq(Records) /\ <<x>> # <<>>
  <2>1. x \in Enqueuers /\ <<x>> \in Seq(Records) /\ <<x>> # <<>>
    BY Disjoint
  <2> QED BY <1>1, <2>1 DEF RecordTypes
<1>3. /\ todo' \in [Enqueuers -> Seq(Records)] /\ todo'[x] = <<x>>
      /\ step' \in [Enqueuers -> QueueSteps] /\ step'[x] = "check"
      /\ \A b \in Enqueuers \ {x} : todo'[b] = todo[b] /\ step'[b] = step[b]
  BY <1>1, <1>2 DEF RecordTypes, QueueSteps
<1>4. RecordTypes'
  <2>1. \A b \in Enqueuers : (todo'[b] # <<>>) = (step'[b] \in {"check", "publish", "append"})
    BY <1>2, <1>3 DEF RecordTypes
  <2>2. \A f \in Forwarders : step'[f] = step[f]
    BY <1>3, Disjoint
  <2> QED BY <1>1, <1>3, <2>1, <2>2 DEF RecordTypes
<1>5. ASSUME NEW r \in Records PROVE CountOf(r)'
  <2>0. /\ IsFiniteSet(places(r, todo)) /\ IsFiniteSet(places(r, batch))
        /\ Cardinality(places(r, todo)) \in Nat /\ Cardinality(places(r, batch)) \in Nat
        /\ occurs(r, items) \in Nat
        /\ delivered[r] \in Nat /\ lost[r] \in Nat /\ ambiguous[r] \in Nat
        /\ occurs(r, items) + Cardinality(places(r, todo)) + Cardinality(places(r, batch))
             + delivered[r] + lost[r]
             = (IF step[r] = "idle" THEN 0 ELSE 1) + ambiguous[r]
    BY CountFacts
  <2>1. /\ todo \in Lists(Enqueuers) /\ todo' \in Lists(Enqueuers) /\ differAt(x, todo, todo')
    BY <1>3 DEF RecordTypes, Lists, differAt
  <2>2. /\ IsFiniteSet(places(r, todo')) /\ Cardinality(places(r, todo')) \in Nat
        /\ Cardinality(places(r, todo')) + occurs(r, todo[x])
                = Cardinality(places(r, todo)) + occurs(r, todo'[x])
    BY <1>2, <2>1, CountFacts, PlacesUpdate
  <2>3. occurs(r, todo[x]) = 0 /\ occurs(r, todo'[x]) = IF x = r THEN 1 ELSE 0
    BY <1>2, <1>3, OccursEmpty, OccursOne
  <2>4. Cardinality(places(r, todo'))
            = Cardinality(places(r, todo)) + (IF x = r THEN 1 ELSE 0)
    BY <2>2, <2>3, CountFacts
  <2>5. (IF step'[r] = "idle" THEN 0 ELSE 1)
            = (IF step[r] = "idle" THEN 0 ELSE 1) + (IF x = r THEN 1 ELSE 0)
    BY <1>1, <1>3, Disjoint
  <2>6. copies(r)' = occurs(r, items) + Cardinality(places(r, todo')) + Cardinality(places(r, batch))
    BY <1>1 DEF copies, occurs, places
  <2>7. copies(r)' + delivered[r] + lost[r] = (IF step'[r] = "idle" THEN 0 ELSE 1) + ambiguous[r]
    BY <2>0, <2>2, <2>4, <2>5, <2>6
  <2> QED BY <1>1, <2>0, <2>2, <2>7 DEF CountOf
<1> QED BY <1>4, <1>5 DEF CountInv, CountOf

\* A record that is queued drops those that have expired.
LEMMA AppendStep ==
    ASSUME RecordTypes, CountInv, NEW a \in Enqueuers, NEW expired \in 0..Len(items),
           EnqueueAppend(a, expired)
    PROVE  RecordTypes' /\ CountInv'
<1> DEFINE h == <<Head(todo[a])>>
           kept == SubSeq(items, expired + 1, Len(items))
           dropped == SubSeq(items, 1, expired)
<1>1. /\ step[a] = "append" /\ Enqueued(a)
      /\ items' = Append(kept, Head(todo[a])) /\ lost' = plus(lost, dropped)
      /\ UNCHANGED <<batch, fwd, delivered, ambiguous>>
  BY DEF EnqueueAppend
<1>2. /\ Head(todo[a]) \in Records /\ h \in Seq(Records)
      /\ todo' \in [Enqueuers -> Seq(Records)] /\ step' \in [Enqueuers -> QueueSteps]
      /\ \A b \in Enqueuers :
            /\ (todo'[b] # <<>>) = (step'[b] \in {"check", "publish", "append"})
            /\ (step'[b] = "idle") = (step[b] = "idle")
  BY <1>1, EnqueuedTypes
<1>3. /\ kept \in Seq(Records) /\ dropped \in Seq(Records)
      /\ \A r : occurs(r, items) = occurs(r, dropped) + occurs(r, kept)
  BY OccursSplit, SMTT(30) DEF RecordTypes
<1>4. items' \in Seq(Records) /\ items' = kept \o h
  <2> DEFINE x == Head(todo[a])
  <2>1. x \in Records /\ kept \in Seq(Records)
    BY <1>2, <1>3
  <2> HIDE DEF x, kept
  <2>2. Append(kept, x) \in Seq(Records) /\ Append(kept, x) = kept \o <<x>>
    BY <2>1, AppendProperties, AppendIsConcat
  <2> QED BY <1>1, <2>2 DEF x
<1> HIDE DEF h, kept, dropped
<1>5. /\ lost' \in [Records -> Nat]
      /\ \A r \in Records : lost'[r] = lost[r] + occurs(r, dropped)
  <2>1. lost \in [Records -> Nat]
    BY DEF RecordTypes
  <2> QED BY <1>1, <1>3, <2>1, PlusType
<1>6. RecordTypes'
  BY <1>1, <1>2, <1>4, <1>5, Disjoint, ZenonT(60) DEF RecordTypes
<1>7. ASSUME NEW r \in Records PROVE CountOf(r)'
  <2>0. /\ IsFiniteSet(places(r, todo)) /\ IsFiniteSet(places(r, batch))
        /\ Cardinality(places(r, todo)) \in Nat /\ Cardinality(places(r, batch)) \in Nat
        /\ occurs(r, items) \in Nat
        /\ delivered[r] \in Nat /\ lost[r] \in Nat /\ ambiguous[r] \in Nat
        /\ occurs(r, items) + Cardinality(places(r, todo)) + Cardinality(places(r, batch))
             + delivered[r] + lost[r]
             = (IF step[r] = "idle" THEN 0 ELSE 1) + ambiguous[r]
    BY CountFacts
  <2>1. /\ IsFiniteSet(places(r, todo')) /\ Cardinality(places(r, todo')) \in Nat
        /\ Cardinality(places(r, todo)) = Cardinality(places(r, todo')) + occurs(r, h)
    BY <1>1, CountFacts, EnqueuedEffect DEF h
  <2>2. occurs(r, items') = occurs(r, kept) + occurs(r, h)
    BY <1>2, <1>3, <1>4, OccursConcat
  <2>3. occurs(r, kept) \in Nat /\ occurs(r, h) \in Nat /\ occurs(r, dropped) \in Nat
    BY <1>2, <1>3, PositionsFinite
  <2>4. (IF step'[r] = "idle" THEN 0 ELSE 1) = (IF step[r] = "idle" THEN 0 ELSE 1)
    BY <1>2, Disjoint
  <2>5. copies(r)' = occurs(r, items') + Cardinality(places(r, todo')) + Cardinality(places(r, batch))
    BY <1>1 DEF copies, occurs, places
  <2>6. /\ lost'[r] = lost[r] + occurs(r, dropped)
        /\ occurs(r, items) = occurs(r, dropped) + occurs(r, kept)
    BY <1>3, <1>5
  <2>7. copies(r)' + delivered[r] + lost'[r] = (IF step'[r] = "idle" THEN 0 ELSE 1) + ambiguous[r]
    <3>1. copies(r)' + delivered[r] + lost'[r]
            = occurs(r, items) + Cardinality(places(r, todo)) + Cardinality(places(r, batch))
                + delivered[r] + lost[r]
      <4> DEFINE i == occurs(r, items)   k == occurs(r, kept)   n == occurs(r, h)
                 d == occurs(r, dropped) t == Cardinality(places(r, todo))
                 u == Cardinality(places(r, todo')) b == Cardinality(places(r, batch))
                 l == lost[r]            c == copies(r)'           v == delivered[r]
      <4>1. /\ k \in Nat /\ n \in Nat /\ d \in Nat /\ u \in Nat /\ b \in Nat
            /\ l \in Nat /\ v \in Nat
        BY <2>0, <2>1, <2>3
      <4>2. c = (k + n) + u + b /\ t = u + n /\ i = d + k /\ lost'[r] = l + d
        BY <2>1, <2>2, <2>5, <2>6
      <4> HIDE DEF i, k, n, d, t, u, b, l, c, v
      <4>3. c + v + lost'[r] = i + t + b + v + l
        BY <4>1, <4>2
      <4> QED BY <4>3 DEF i, t, b, l, c, v
    <3> QED BY <3>1, <2>0, <2>4
  <2> QED BY <1>1, <2>0, <2>1, <2>7 DEF CountOf
<1> QED BY <1>6, <1>7 DEF CountInv, CountOf

\* Occurrences add up over three parts of a list.
LEMMA OccursThree ==
    ASSUME NEW S, NEW s \in Seq(S), NEW e \in 0..Len(s), NEW m \in e..Len(s)
    PROVE  /\ SubSeq(s, 1, e) \in Seq(S) /\ SubSeq(s, e + 1, m) \in Seq(S)
           /\ SubSeq(s, m + 1, Len(s)) \in Seq(S)
           /\ Len(SubSeq(s, e + 1, m)) = m - e
           /\ \A r : occurs(r, s) = occurs(r, SubSeq(s, 1, e)) + occurs(r, SubSeq(s, e + 1, m))
                                     + occurs(r, SubSeq(s, m + 1, Len(s)))
<1>1. Len(s) \in Nat /\ \A i \in 1..Len(s) : s[i] \in S
  BY LenProperties, ElementOfSeq
<1>2. m \in 0..Len(s)
  BY <1>1
<1>3. /\ SubSeq(s, 1, e) \in Seq(S) /\ SubSeq(s, m + 1, Len(s)) \in Seq(S)
      /\ SubSeq(s, 1, m) \in Seq(S)
      /\ \A r : occurs(r, s) = occurs(r, SubSeq(s, 1, m)) + occurs(r, SubSeq(s, m + 1, Len(s)))
  BY <1>2, OccursSplit
<1>4. /\ SubSeq(s, e + 1, m) \in Seq(S)
      /\ Len(SubSeq(s, e + 1, m)) = m - e
  <2>1. /\ e + 1 \in Int /\ m \in Int /\ \A i \in (e + 1)..m : s[i] \in S
        /\ (IF e + 1 <= m THEN m - (e + 1) + 1 ELSE 0) = m - e
    BY <1>1, <1>2
  <2> QED BY <2>1, SubSeqProperties
<1>5. SubSeq(s, 1, e) \o SubSeq(s, e + 1, m) = SubSeq(s, 1, m)
  <2>1. 1 \in 1..(Len(s) + 1) /\ e \in (1 - 1)..Len(s)
    BY <1>1, <1>2
  <2> QED BY <1>2, <2>1, ConcatAdjacentSubSeq
<1>6. \A r : occurs(r, SubSeq(s, 1, m))
              = occurs(r, SubSeq(s, 1, e)) + occurs(r, SubSeq(s, e + 1, m))
  <2> DEFINE a == SubSeq(s, 1, e)
             b == SubSeq(s, e + 1, m)
  <2>1. a \in Seq(S) /\ b \in Seq(S)
    BY <1>3, <1>4
  <2> HIDE DEF a, b
  <2>2. \A r : occurs(r, a \o b) = occurs(r, a) + occurs(r, b)
    BY <2>1, OccursConcat
  <2> QED BY <1>5, <2>2 DEF a, b
<1> QED BY <1>3, <1>4, <1>6

\* A client pops, behind what has expired.
LEMMA PopStep ==
    ASSUME RecordTypes, CountInv, NEW expired \in 0..Len(items), NEW count \in 0..Len(items),
           Pop(expired, count)
    PROVE  RecordTypes' /\ CountInv'
<1> DEFINE m == expired + count
           dropped == SubSeq(items, 1, expired)
           popped == SubSeq(items, expired + 1, m)
           kept == SubSeq(items, m + 1, Len(items))
<1>1. /\ items' = kept /\ delivered' = plus(delivered, popped) /\ lost' = plus(lost, dropped)
      /\ expired + count <= Len(items)
      /\ UNCHANGED <<todo, step, batch, fwd, ambiguous>>
  BY DEF Pop
<1>2. /\ kept \in Seq(Records) /\ popped \in Seq(Records) /\ dropped \in Seq(Records)
      /\ \A r : occurs(r, items) = occurs(r, dropped) + occurs(r, popped) + occurs(r, kept)
  <2>1. items \in Seq(Records) /\ m \in expired..Len(items)
    BY <1>1, LenProperties DEF RecordTypes
  <2> HIDE DEF m
  <2> QED BY <2>1, OccursThree
<1> HIDE DEF dropped, popped, kept
<1>3. /\ lost' \in [Records -> Nat] /\ delivered' \in [Records -> Nat]
      /\ \A r \in Records : /\ lost'[r] = lost[r] + occurs(r, dropped)
                            /\ delivered'[r] = delivered[r] + occurs(r, popped)
  <2>1. lost \in [Records -> Nat] /\ delivered \in [Records -> Nat]
    BY DEF RecordTypes
  <2> QED BY <1>1, <1>2, <2>1, PlusType
<1>4. RecordTypes'
  BY <1>1, <1>2, <1>3 DEF RecordTypes
<1>5. ASSUME NEW r \in Records PROVE CountOf(r)'
  <2>0. /\ IsFiniteSet(places(r, todo)) /\ IsFiniteSet(places(r, batch))
        /\ Cardinality(places(r, todo)) \in Nat /\ Cardinality(places(r, batch)) \in Nat
        /\ occurs(r, items) \in Nat
        /\ delivered[r] \in Nat /\ lost[r] \in Nat /\ ambiguous[r] \in Nat
        /\ occurs(r, items) + Cardinality(places(r, todo)) + Cardinality(places(r, batch))
             + delivered[r] + lost[r]
             = (IF step[r] = "idle" THEN 0 ELSE 1) + ambiguous[r]
    BY CountFacts
  <2>1. copies(r)' = occurs(r, kept) + Cardinality(places(r, todo)) + Cardinality(places(r, batch))
    BY <1>1 DEF copies, occurs, places
  <2>2. copies(r)' + delivered'[r] + lost'[r] = (IF step[r] = "idle" THEN 0 ELSE 1) + ambiguous[r]
    <3> DEFINE i == occurs(r, items)   k == occurs(r, kept)   p == occurs(r, popped)
               d == occurs(r, dropped) t == Cardinality(places(r, todo))
               b == Cardinality(places(r, batch))
               l == lost[r]            c == copies(r)'        v == delivered[r]
    <3>1. /\ k \in Nat /\ p \in Nat /\ d \in Nat /\ t \in Nat /\ b \in Nat
          /\ l \in Nat /\ v \in Nat
      BY <1>2, <2>0, PositionsFinite
    <3>2. c = k + t + b /\ i = d + p + k /\ lost'[r] = l + d /\ delivered'[r] = v + p
      BY <1>2, <1>3, <2>1
    <3> HIDE DEF i, k, p, d, t, b, l, c, v
    <3>3. c + delivered'[r] + lost'[r] = i + t + b + v + l
      BY <3>1, <3>2, SMTT(30)
    <3> QED BY <2>0, <3>3 DEF i, t, b, l, c, v
  <2> QED BY <1>1, <2>0, <2>2 DEF CountOf
<1> QED BY <1>4, <1>5 DEF CountInv, CountOf

\* SetEnabled(false) gives up what is queued.
LEMMA ClearStep ==
    ASSUME RecordTypes, CountInv, clear
    PROVE  RecordTypes' /\ CountInv'
<1>1. /\ items' = <<>> /\ lost' = plus(lost, items)
      /\ UNCHANGED <<todo, step, batch, fwd, delivered, ambiguous>>
  BY DEF clear
<1>2. items \in Seq(Records) /\ lost \in [Records -> Nat] /\ <<>> \in Seq(Records)
  BY EmptySeq DEF RecordTypes
<1>3. /\ lost' \in [Records -> Nat]
      /\ \A r \in Records : lost'[r] = lost[r] + occurs(r, items)
  BY <1>1, <1>2, PlusType
<1>4. RecordTypes'
  BY <1>1, <1>2, <1>3 DEF RecordTypes
<1>5. ASSUME NEW r \in Records PROVE CountOf(r)'
  <2>0. /\ IsFiniteSet(places(r, todo)) /\ IsFiniteSet(places(r, batch))
        /\ Cardinality(places(r, todo)) \in Nat /\ Cardinality(places(r, batch)) \in Nat
        /\ occurs(r, items) \in Nat
        /\ delivered[r] \in Nat /\ lost[r] \in Nat /\ ambiguous[r] \in Nat
        /\ occurs(r, items) + Cardinality(places(r, todo)) + Cardinality(places(r, batch))
             + delivered[r] + lost[r]
             = (IF step[r] = "idle" THEN 0 ELSE 1) + ambiguous[r]
    BY CountFacts
  <2>1. copies(r)' = occurs(r, <<>>) + Cardinality(places(r, todo)) + Cardinality(places(r, batch))
    BY <1>1 DEF copies, occurs, places
  <2>2. lost'[r] = lost[r] + occurs(r, items) /\ occurs(r, <<>>) = 0
    BY <1>3, OccursEmpty
  <2>3. copies(r)' + delivered[r] + lost'[r] = (IF step[r] = "idle" THEN 0 ELSE 1) + ambiguous[r]
    BY <2>0, <2>1, <2>2
  <2> QED BY <1>1, <2>0, <2>3 DEF CountOf
<1> QED BY <1>4, <1>5 DEF CountInv, CountOf

\* A forwarder takes a batch, behind what has expired.
LEMMA ForwarderPopStep ==
    ASSUME RecordTypes, CountInv, NEW f \in Forwarders, NEW expired \in 0..Len(items),
           ForwarderPop(f, expired)
    PROVE  RecordTypes' /\ CountInv'
<1> DEFINE count == Min({Batch, Len(items) - expired})
           m == expired + count
           dropped == SubSeq(items, 1, expired)
           popped == SubSeq(items, expired + 1, m)
           kept == SubSeq(items, m + 1, Len(items))
<1>1. /\ fwd[f] = "pop" /\ fwd' = [fwd EXCEPT ![f] = IF count = 0 THEN "asleep" ELSE "push"]
      /\ batch' = [batch EXCEPT ![f] = popped]
      /\ items' = kept /\ lost' = plus(lost, dropped)
      /\ UNCHANGED <<todo, step, delivered, ambiguous>>
  BY DEF ForwarderPop
<1>2. items \in Seq(Records) /\ Len(items) \in Nat /\ expired \in Nat /\ Batch \in Nat
  BY LenProperties, QueueAssumption DEF RecordTypes
<1>3. count \in Nat /\ expired + count <= Len(items)
  <2> DEFINE rest == Len(items) - expired
  <2>1. Batch \in Nat /\ rest \in Nat
    BY <1>2
  <2>2. \E x \in {Batch, rest} : \A y \in {Batch, rest} : x <= y
    <3> HIDE DEF rest
    <3> QED BY <2>1
  <2>3. count \in {Batch, rest} /\ count <= rest
    <3> HIDE DEF rest
    <3>1. Min({Batch, rest}) \in {Batch, rest} /\ Min({Batch, rest}) <= rest
      BY <2>1, <2>2 DEF Min
    <3> QED BY <3>1 DEF rest
  <2>4. count \in Nat
    BY <2>1, <2>3
  <2> HIDE DEF count
  <2> QED BY <1>2, <2>3, <2>4
<1> HIDE DEF count
<1>4. /\ kept \in Seq(Records) /\ popped \in Seq(Records) /\ dropped \in Seq(Records)
      /\ Len(popped) = count
      /\ \A r : occurs(r, items) = occurs(r, dropped) + occurs(r, popped) + occurs(r, kept)
  <2>1. m \in expired..Len(items) /\ m - expired = count /\ items \in Seq(Records)
    BY <1>2, <1>3
  <2> HIDE DEF m
  <2> QED BY <2>1, OccursThree
<1> HIDE DEF dropped, popped, kept
<1>5. /\ lost' \in [Records -> Nat]
      /\ \A r \in Records : lost'[r] = lost[r] + occurs(r, dropped)
  <2>1. lost \in [Records -> Nat]
    BY DEF RecordTypes
  <2> QED BY <1>1, <1>4, <2>1, PlusType
<1>6. batch \in [Forwarders -> Seq(Records)] /\ fwd \in [Forwarders -> Places] /\ batch[f] = <<>>
  BY <1>1 DEF RecordTypes
<1>7. /\ batch' \in [Forwarders -> Seq(Records)] /\ batch'[f] = popped
      /\ \A g \in Forwarders \ {f} : batch'[g] = batch[g] /\ fwd'[g] = fwd[g]
      /\ fwd' \in [Forwarders -> Places]
      /\ fwd'[f] = IF count = 0 THEN "asleep" ELSE "push"
  BY <1>1, <1>4, <1>6 DEF Places
<1>8. (popped = <<>>) = (count = 0)
  <2>1. popped = <<>> <=> Len(popped) = 0
    BY <1>4, EmptySeq
  <2> QED BY <1>4, <2>1
<1>9. RecordTypes'
  <2>1. \A g \in Forwarders :
            /\ (batch'[g] # <<>>) = (fwd'[g] = "push")
            /\ (step[g] # "idle") = (fwd'[g] = "requeue")
    BY <1>1, <1>7, <1>8 DEF RecordTypes
  <2> QED BY <1>1, <1>4, <1>5, <1>7, <2>1 DEF RecordTypes
<1>10. ASSUME NEW r \in Records PROVE CountOf(r)'
  <2>0. /\ IsFiniteSet(places(r, todo)) /\ IsFiniteSet(places(r, batch))
        /\ Cardinality(places(r, todo)) \in Nat /\ Cardinality(places(r, batch)) \in Nat
        /\ occurs(r, items) \in Nat
        /\ delivered[r] \in Nat /\ lost[r] \in Nat /\ ambiguous[r] \in Nat
        /\ occurs(r, items) + Cardinality(places(r, todo)) + Cardinality(places(r, batch))
             + delivered[r] + lost[r]
             = (IF step[r] = "idle" THEN 0 ELSE 1) + ambiguous[r]
    BY CountFacts
  <2>1. batch \in Lists(Forwarders) /\ batch' \in Lists(Forwarders) /\ differAt(f, batch, batch')
    BY <1>6, <1>7 DEF Lists, differAt
  <2>2. /\ IsFiniteSet(places(r, batch')) /\ Cardinality(places(r, batch')) \in Nat
        /\ Cardinality(places(r, batch')) + occurs(r, batch[f])
                = Cardinality(places(r, batch)) + occurs(r, batch'[f])
    BY <2>0, <2>1, PlacesUpdate
  <2>3. occurs(r, batch[f]) = 0 /\ occurs(r, popped) \in Nat /\ batch'[f] = popped
    BY <1>4, <1>6, <1>7, OccursEmpty, PositionsFinite
  <2>4. copies(r)' = occurs(r, kept) + Cardinality(places(r, todo)) + Cardinality(places(r, batch'))
    BY <1>1 DEF copies, occurs, places
  <2>5. copies(r)' + delivered[r] + lost'[r] = (IF step[r] = "idle" THEN 0 ELSE 1) + ambiguous[r]
    <3> DEFINE i == occurs(r, items)   k == occurs(r, kept)   p == occurs(r, popped)
               d == occurs(r, dropped) t == Cardinality(places(r, todo))
               b == Cardinality(places(r, batch)) q == Cardinality(places(r, batch'))
               l == lost[r]            c == copies(r)'        v == delivered[r]
    <3>1. /\ k \in Nat /\ p \in Nat /\ d \in Nat /\ t \in Nat /\ b \in Nat
          /\ l \in Nat /\ v \in Nat /\ q \in Nat
      BY <1>4, <2>0, <2>2, PositionsFinite
    <3>2. c = k + t + q /\ i = d + p + k /\ lost'[r] = l + d /\ q + 0 = b + p
      BY <1>4, <1>5, <2>2, <2>3, <2>4
    <3> HIDE DEF i, k, p, d, t, b, q, l, c, v
    <3>3. c + v + lost'[r] = i + t + b + v + l
      BY <3>1, <3>2
    <3> QED BY <2>0, <3>3 DEF i, t, b, l, c, v
  <2> QED BY <1>1, <2>0, <2>2, <2>5 DEF CountOf
<1> QED BY <1>9, <1>10 DEF CountInv, CountOf

\* Home accepts the first record of a batch.
LEMMA PushOKStep ==
    ASSUME RecordTypes, CountInv, NEW f \in Forwarders, PushOK(f)
    PROVE  RecordTypes' /\ CountInv'
<1> DEFINE h == <<Head(batch[f])>>
<1>1. /\ fwd[f] = "push" /\ delivered' = plus(delivered, h)
      /\ batch' = [batch EXCEPT ![f] = Tail(batch[f])]
      /\ fwd' = [fwd EXCEPT ![f] = IF Len(batch[f]) = 1 THEN "loop" ELSE "push"]
      /\ UNCHANGED <<items, todo, step, ambiguous, lost>>
  BY DEF PushOK, package
<1>2. /\ batch \in [Forwarders -> Seq(Records)] /\ fwd \in [Forwarders -> Places]
      /\ batch[f] \in Seq(Records) /\ batch[f] # <<>>
  BY <1>1 DEF RecordTypes
<1>3. /\ h \in Seq(Records) /\ Tail(batch[f]) \in Seq(Records)
      /\ \A r : occurs(r, batch[f]) = occurs(r, h) + occurs(r, Tail(batch[f]))
  BY <1>2, OccursHead
<1>4. (Tail(batch[f]) # <<>>) = (Len(batch[f]) # 1)
  <2>1. Tail(batch[f]) = <<>> <=> Len(Tail(batch[f])) = 0
    BY <1>3, EmptySeq
  <2>2. Len(Tail(batch[f])) = Len(batch[f]) - 1 /\ Len(batch[f]) \in Nat
    BY <1>2, HeadTailProperties, LenProperties
  <2> QED BY <2>1, <2>2
<1> HIDE DEF h
<1>5. /\ batch' \in [Forwarders -> Seq(Records)] /\ batch'[f] = Tail(batch[f])
      /\ \A g \in Forwarders \ {f} : batch'[g] = batch[g] /\ fwd'[g] = fwd[g]
      /\ fwd' \in [Forwarders -> Places]
      /\ fwd'[f] = IF Len(batch[f]) = 1 THEN "loop" ELSE "push"
  BY <1>1, <1>2, <1>3 DEF Places
<1>6. /\ delivered' \in [Records -> Nat]
      /\ \A r \in Records : delivered'[r] = delivered[r] + occurs(r, h)
  <2>1. delivered \in [Records -> Nat]
    BY DEF RecordTypes
  <2> QED BY <1>1, <1>3, <2>1, PlusType
<1>7. RecordTypes'
  <2>1. \A g \in Forwarders :
            /\ (batch'[g] # <<>>) = (fwd'[g] = "push")
            /\ (step[g] # "idle") = (fwd'[g] = "requeue")
    BY <1>1, <1>4, <1>5 DEF RecordTypes
  <2> QED BY <1>1, <1>5, <1>6, <2>1 DEF RecordTypes
<1>8. ASSUME NEW r \in Records PROVE CountOf(r)'
  <2>0. /\ IsFiniteSet(places(r, todo)) /\ IsFiniteSet(places(r, batch))
        /\ Cardinality(places(r, todo)) \in Nat /\ Cardinality(places(r, batch)) \in Nat
        /\ occurs(r, items) \in Nat
        /\ delivered[r] \in Nat /\ lost[r] \in Nat /\ ambiguous[r] \in Nat
        /\ occurs(r, items) + Cardinality(places(r, todo)) + Cardinality(places(r, batch))
             + delivered[r] + lost[r]
             = (IF step[r] = "idle" THEN 0 ELSE 1) + ambiguous[r]
    BY CountFacts
  <2>1. batch \in Lists(Forwarders) /\ batch' \in Lists(Forwarders) /\ differAt(f, batch, batch')
    BY <1>2, <1>5 DEF Lists, differAt
  <2>2. /\ IsFiniteSet(places(r, batch')) /\ Cardinality(places(r, batch')) \in Nat
        /\ Cardinality(places(r, batch')) + occurs(r, batch[f])
                = Cardinality(places(r, batch)) + occurs(r, batch'[f])
    BY <2>0, <2>1, PlacesUpdate
  <2>3. copies(r)' = occurs(r, items) + Cardinality(places(r, todo)) + Cardinality(places(r, batch'))
    BY <1>1 DEF copies, occurs, places
  <2>4. copies(r)' + delivered'[r] + lost[r] = (IF step[r] = "idle" THEN 0 ELSE 1) + ambiguous[r]
    <3> DEFINE i == occurs(r, items)   n == occurs(r, h)   x == occurs(r, Tail(batch[f]))
               t == Cardinality(places(r, todo)) y == occurs(r, batch[f])
               b == Cardinality(places(r, batch)) q == Cardinality(places(r, batch'))
               l == lost[r]            c == copies(r)'        v == delivered[r]
    <3>1. /\ i \in Nat /\ n \in Nat /\ x \in Nat /\ t \in Nat /\ b \in Nat
          /\ l \in Nat /\ v \in Nat /\ q \in Nat
      BY <1>3, <2>0, <2>2, PositionsFinite
    <3>2. c = i + t + q /\ y = n + x /\ delivered'[r] = v + n /\ q + y = b + x
      BY <1>3, <1>5, <1>6, <2>2, <2>3
    <3> HIDE DEF i, n, x, t, y, b, q, l, c, v
    <3>3. c + delivered'[r] + l = i + t + b + v + l
      BY <3>1, <3>2
    <3> QED BY <2>0, <3>3 DEF i, t, b, l, c, v
  <2> QED BY <1>1, <2>0, <2>2, <2>4 DEF CountOf
<1> QED BY <1>7, <1>8 DEF CountInv, CountOf

\* A failing push puts the batch back, for the forwarder to enqueue it again.
LEMMA PushFailsStep ==
    ASSUME RecordTypes, CountInv, NEW f \in Forwarders, NEW arrived \in BOOLEAN,
           PushFails(f, arrived)
    PROVE  RecordTypes' /\ CountInv'
<1> DEFINE h == <<Head(batch[f])>>
<1>1. /\ fwd[f] = "push" /\ todo' = [todo EXCEPT ![f] = batch[f]]
      /\ step' = [step EXCEPT ![f] = "check"] /\ batch' = [batch EXCEPT ![f] = <<>>]
      /\ fwd' = [fwd EXCEPT ![f] = "requeue"]
      /\ \/ UNCHANGED <<delivered, ambiguous>>
         \/ delivered' = plus(delivered, h) /\ ambiguous' = plus(ambiguous, h)
      /\ UNCHANGED <<items, lost>>
  BY DEF PushFails, package
<1>2. /\ batch \in [Forwarders -> Seq(Records)] /\ fwd \in [Forwarders -> Places]
      /\ todo \in [Enqueuers -> Seq(Records)] /\ step \in [Enqueuers -> QueueSteps]
      /\ batch[f] \in Seq(Records) /\ batch[f] # <<>> /\ step[f] = "idle" /\ todo[f] = <<>>
      /\ f \in Enqueuers
  BY <1>1, Disjoint DEF RecordTypes
<1>3. h \in Seq(Records)
  BY <1>2, OccursHead
<1> HIDE DEF h
<1>4. /\ batch' \in [Forwarders -> Seq(Records)] /\ batch'[f] = <<>>
      /\ fwd' \in [Forwarders -> Places] /\ fwd'[f] = "requeue"
      /\ \A g \in Forwarders \ {f} : batch'[g] = batch[g] /\ fwd'[g] = fwd[g]
      /\ todo' \in [Enqueuers -> Seq(Records)] /\ todo'[f] = batch[f]
      /\ step' \in [Enqueuers -> QueueSteps] /\ step'[f] = "check"
      /\ \A a \in Enqueuers \ {f} : todo'[a] = todo[a] /\ step'[a] = step[a]
  <2>1. <<>> \in Seq(Records)
    BY EmptySeq
  <2> QED BY <1>1, <1>2, <2>1 DEF Places, QueueSteps
<1>5. /\ delivered' \in [Records -> Nat] /\ ambiguous' \in [Records -> Nat]
      /\ \A r \in Records : delivered[r] + ambiguous'[r] = delivered'[r] + ambiguous[r]
  <2>1. /\ delivered \in [Records -> Nat] /\ ambiguous \in [Records -> Nat]
        /\ \A r \in Records : occurs(r, h) \in Nat
    BY <1>3, PositionsFinite DEF RecordTypes
  <2>2. CASE UNCHANGED <<delivered, ambiguous>>
    BY <2>1, <2>2
  <2>3. CASE delivered' = plus(delivered, h) /\ ambiguous' = plus(ambiguous, h)
    <3>1. /\ delivered' \in [Records -> Nat] /\ ambiguous' \in [Records -> Nat]
          /\ \A r \in Records : /\ delivered'[r] = delivered[r] + occurs(r, h)
                                /\ ambiguous'[r] = ambiguous[r] + occurs(r, h)
      BY <1>3, <2>1, <2>3, PlusType
    <3>2. ASSUME NEW r \in Records
          PROVE  delivered[r] + ambiguous'[r] = delivered'[r] + ambiguous[r]
      <4> DEFINE d == delivered[r]   m == ambiguous[r]   o == occurs(r, h)
      <4>1. /\ d \in Nat /\ m \in Nat /\ o \in Nat
            /\ delivered'[r] = d + o /\ ambiguous'[r] = m + o
        BY <2>1, <3>1
      <4> HIDE DEF d, m, o
      <4>2. d + ambiguous'[r] = delivered'[r] + m
        BY <4>1
      <4> QED BY <4>2 DEF d, m
    <3> QED BY <3>1, <3>2
  <2> QED BY <1>1, <2>2, <2>3
<1>6. RecordTypes'
  <2>1. \A g \in Forwarders : (batch'[g] # <<>>) = (fwd'[g] = "push")
    BY <1>4, ZenonT(60) DEF RecordTypes
  <2>2. \A g \in Forwarders : (step'[g] # "idle") = (fwd'[g] = "requeue")
    <3> TAKE g \in Forwarders
    <3>1. CASE g = f
      BY <1>4, <3>1
    <3>2. CASE g # f
      <4>1. step'[g] = step[g] /\ fwd'[g] = fwd[g]
        BY <1>4, <3>2, Disjoint
      <4>2. (step[g] # "idle") = (fwd[g] = "requeue")
        BY DEF RecordTypes
      <4> QED BY <4>1, <4>2
    <3> QED BY <3>1, <3>2
  <2>3. \A a \in Enqueuers : (todo'[a] # <<>>) = (step'[a] \in {"check", "publish", "append"})
    BY <1>2, <1>4, ZenonT(60) DEF RecordTypes
  <2> QED BY <1>1, <1>4, <1>5, <2>1, <2>2, <2>3 DEF RecordTypes
<1>7. ASSUME NEW r \in Records PROVE CountOf(r)'
  <2>0. /\ IsFiniteSet(places(r, todo)) /\ IsFiniteSet(places(r, batch))
        /\ Cardinality(places(r, todo)) \in Nat /\ Cardinality(places(r, batch)) \in Nat
        /\ occurs(r, items) \in Nat
        /\ delivered[r] \in Nat /\ lost[r] \in Nat /\ ambiguous[r] \in Nat
        /\ occurs(r, items) + Cardinality(places(r, todo)) + Cardinality(places(r, batch))
             + delivered[r] + lost[r]
             = (IF step[r] = "idle" THEN 0 ELSE 1) + ambiguous[r]
    BY CountFacts
  <2>1. batch \in Lists(Forwarders) /\ batch' \in Lists(Forwarders) /\ differAt(f, batch, batch')
    BY <1>2, <1>4 DEF Lists, differAt
  <2>2. /\ IsFiniteSet(places(r, batch')) /\ Cardinality(places(r, batch')) \in Nat
        /\ Cardinality(places(r, batch')) + occurs(r, batch[f])
                = Cardinality(places(r, batch)) + occurs(r, batch'[f])
    BY <2>0, <2>1, PlacesUpdate
  <2>3. todo \in Lists(Enqueuers) /\ todo' \in Lists(Enqueuers) /\ differAt(f, todo, todo')
    BY <1>2, <1>4 DEF Lists, differAt
  <2>4. /\ IsFiniteSet(places(r, todo')) /\ Cardinality(places(r, todo')) \in Nat
        /\ Cardinality(places(r, todo')) + occurs(r, todo[f])
                = Cardinality(places(r, todo)) + occurs(r, todo'[f])
    BY <1>2, <2>0, <2>3, PlacesUpdate
  <2>5. copies(r)' = occurs(r, items) + Cardinality(places(r, todo')) + Cardinality(places(r, batch'))
    BY <1>1 DEF copies, occurs, places
  <2>6. /\ occurs(r, todo[f]) = 0 /\ occurs(r, batch'[f]) = 0
        /\ todo'[f] = batch[f] /\ occurs(r, batch[f]) \in Nat
    BY <1>2, <1>4, OccursEmpty, PositionsFinite
  <2>7. step'[r] = step[r]
    BY <1>4, Disjoint
  <2>8. /\ delivered'[r] \in Nat /\ ambiguous'[r] \in Nat
        /\ delivered[r] + ambiguous'[r] = delivered'[r] + ambiguous[r]
    BY <1>5
  <2>9. copies(r)' + delivered'[r] + lost[r] = (IF step[r] = "idle" THEN 0 ELSE 1) + ambiguous'[r]
    <3> DEFINE i == occurs(r, items)   y == occurs(r, batch[f])
               t == Cardinality(places(r, todo)) u == Cardinality(places(r, todo'))
               b == Cardinality(places(r, batch)) q == Cardinality(places(r, batch'))
               l == lost[r]            c == copies(r)'        v == delivered[r]
               m == ambiguous[r]       z == IF step[r] = "idle" THEN 0 ELSE 1
               w == delivered'[r]      n == ambiguous'[r]
    <3>1. /\ i \in Nat /\ y \in Nat /\ t \in Nat /\ u \in Nat /\ b \in Nat
          /\ l \in Nat /\ v \in Nat /\ q \in Nat /\ m \in Nat /\ z \in Nat
          /\ w \in Nat /\ n \in Nat
      BY <2>0, <2>2, <2>4, <2>6, <2>8
    <3>2. c = i + u + q /\ u + 0 = t + y /\ q + y = b + 0 /\ v + n = w + m
      BY <2>2, <2>4, <2>5, <2>6, <2>8
    <3>3. i + t + b + v + l = z + m
      BY <2>0
    <3> HIDE DEF i, y, t, u, b, q, l, c, v, m, z, w, n
    <3>4. c + w + l = z + n
      BY <3>1, <3>2, <3>3
    <3> QED BY <3>4 DEF c, l, z, w, n
  <2> QED BY <1>1, <2>2, <2>4, <2>7, <2>9 DEF CountOf
<1> QED BY <1>6, <1>7 DEF CountInv, CountOf

\* An enqueuer that finds the queue disabled, or subscribers, is through with a record.
LEMMA SettledStep ==
    ASSUME RecordTypes, CountInv, NEW a \in Enqueuers,
           \/ EnqueueCheck(a) /\ ~enabled
           \/ EnqueuePublish(a) /\ subs # {}
    PROVE  RecordTypes' /\ CountInv'
<1>1. /\ step[a] \in {"check", "publish"} /\ Enqueued(a)
      /\ UNCHANGED <<items, batch, fwd, ambiguous>>
      /\ \/ lost' = plus(lost, <<Head(todo[a])>>) /\ UNCHANGED delivered
         \/ delivered' = plus(delivered, <<Head(todo[a])>>) /\ UNCHANGED lost
  BY DEF EnqueueCheck, EnqueuePublish, package, history
<1> QED BY <1>1, SettleStep

\* Nothing is queued, delivered or lost at the start.
LEMMA RecordInit == QueueInit => RecordTypes /\ CountInv
<1> SUFFICES ASSUME QueueInit PROVE RecordTypes /\ CountInv
  OBVIOUS
<1>1. /\ items = <<>> /\ todo = [a \in Enqueuers |-> <<>>]
      /\ step = [a \in Enqueuers |-> "idle"] /\ fwd = [f \in Forwarders |-> "off"]
      /\ batch = [f \in Forwarders |-> <<>>]
      /\ delivered = [r \in Records |-> 0] /\ ambiguous = [r \in Records |-> 0]
      /\ lost = [r \in Records |-> 0] /\ <<>> \in Seq(Records)
  BY EmptySeq DEF QueueInit
<1>2. RecordTypes
  BY <1>1, Disjoint DEF RecordTypes, QueueSteps, Places
<1>3. ASSUME NEW r \in Records PROVE CountOf(r)
  <2>1. places(r, todo) = {} /\ places(r, batch) = {}
    <3>1. ASSUME NEW A PROVE places(r, [a \in A |-> <<>>]) = {}
      <4>1. DOMAIN <<>> = {}
        BY EmptySeq, LenProperties
      <4> QED BY <4>1 DEF places
    <3> QED BY <1>1, <3>1
  <2>2. occurs(r, items) = 0
    BY <1>1, OccursEmpty
  <2>3. r \in Enqueuers
    BY Disjoint
  <2>4. IsFiniteSet({}) /\ Cardinality({}) = 0
    BY FS_EmptySet
  <2>5. copies(r) = 0
    BY <2>1, <2>2, <2>4 DEF copies
  <2>6. step[r] = "idle" /\ delivered[r] = 0 /\ lost[r] = 0 /\ ambiguous[r] = 0
    BY <1>1, <2>3
  <2> QED BY <2>1, <2>4, <2>5, <2>6 DEF CountOf
<1> QED BY <1>2, <1>3 DEF CountInv, CountOf

\* No step loses or duplicates a record without its being counted.
LEMMA RecordStep == RecordTypes /\ CountInv /\ [QueueNext]_QueueVars => RecordTypes' /\ CountInv'
<1> SUFFICES ASSUME RecordTypes, CountInv, [QueueNext]_QueueVars PROVE RecordTypes' /\ CountInv'
  OBVIOUS
<1>1. CASE \/ NotifyUsageRefresh \/ PopCheck \/ UNCHANGED QueueVars
           \/ \E value \in BOOLEAN : SetEnabled(value)
           \/ \E s \in Subscribers : Subscribe(s) \/ Receive(s) \/ unsubscribe(s) \/ Close(s)
           \/ \E f \in Forwarders : Cancel(f)
  <2>1. UNCHANGED recordVars
    BY <1>1, RecordFrame
  <2>2. RecordTypes'
    BY <2>1 DEF recordVars, RecordTypes
  <2>3. CountInv'
    <3>1. ASSUME NEW r \in Records PROVE CountOf(r)'
      <4>1. CountOf(r)
        BY DEF CountInv, CountOf
      <4>2. UNCHANGED <<items, todo, batch>>
        BY <2>1 DEF recordVars
      <4>3. copies(r)' = copies(r)
        BY <4>2 DEF copies, occurs, places
      <4> QED BY <2>1, <4>1, <4>2, <4>3 DEF CountOf, recordVars
    <3> QED BY <3>1 DEF CountInv, CountOf
  <2> QED BY <2>2, <2>3
<1>2. CASE \/ \E a \in Enqueuers : EnqueueCheck(a) /\ enabled
           \/ \E a \in Enqueuers : EnqueuePublish(a) /\ subs = {}
           \/ \E f \in Forwarders :
                \/ StartForwarder(f) \/ Requeued(f) \/ ForwarderWakes(f)
                \/ \E heartbeatOK \in BOOLEAN : ForwarderLoop(f, heartbeatOK)
  <2>1. /\ UNCHANGED <<items, todo, batch, delivered, lost, ambiguous>>
        /\ RecordTypes'
        /\ \A r \in Records : step'[r] = "idle" <=> step[r] = "idle"
    BY <1>2, MoveFrame
  <2>2. ASSUME NEW r \in Records PROVE CountOf(r)'
    <3>1. CountOf(r)
      BY DEF CountInv, CountOf
    <3>2. copies(r)' = copies(r)
      BY <2>1 DEF copies, occurs, places
    <3> QED BY <2>1, <3>1, <3>2 DEF CountOf
  <2> QED BY <2>1, <2>2 DEF CountInv, CountOf
<1>3. CASE \E a \in Enqueuers : \/ EnqueueCheck(a) /\ ~enabled
                                \/ EnqueuePublish(a) /\ subs # {}
  BY <1>3, SettledStep
<1>4. CASE \E a \in Enqueuers : \E expired \in 0..Len(items) : EnqueueAppend(a, expired)
  BY <1>4, AppendStep
<1>5. CASE \E expired, count \in 0..Len(items) : Pop(expired, count)
  BY <1>5, PopStep
<1>6. CASE clear
  BY <1>6, ClearStep
<1>7. CASE \E r \in Records : HandleUsage(r)
  BY <1>7, HandleStep
<1>8. CASE \E f \in Forwarders : \E expired \in 0..Len(items) : ForwarderPop(f, expired)
  BY <1>8, ForwarderPopStep
<1>9. CASE \E f \in Forwarders : PushOK(f)
  BY <1>9, PushOKStep
<1>10. CASE \E f \in Forwarders : \E arrived \in BOOLEAN : PushFails(f, arrived)
  BY <1>10, PushFailsStep
<1> QED
  BY <1>1, <1>2, <1>3, <1>4, <1>5, <1>6, <1>7, <1>8, <1>9, <1>10 DEF QueueNext, Enqueue

\* A record is in one place, handed over, or counted as lost: once, plus the pushes
\* that failed after they may have arrived (Enqueue, PopOldest and the forwarder of usage.go).
THEOREM RecordsConserved == QueueSpec => []Conserved
<1>1. RecordTypes /\ CountInv => Conserved
  BY DEF CountInv, Conserved
<1> QED BY <1>1, RecordInit, RecordStep, PTL DEF QueueSpec

-----------------------------------------------------------------------------

\* What a subscription that began after the first from messages is to receive; what it
\* has received and has buffered is that (current), or the beginning of that (behind).
stream(from, all) == <<Support>> \o SubSeq(all, from + 1, Len(all))
current(g, b, from, all) == g \o b = stream(from, all)
behind(g, b, from, all) == \E rest \in Seq(Payloads) : (g \o b) \o rest = stream(from, all)

\* The stream since a position grows with what is appended.
LEMMA SubSeqAppend ==
    ASSUME NEW S, NEW s \in Seq(S), NEW x \in S, NEW m \in 0..Len(s)
    PROVE  /\ SubSeq(Append(s, x), m + 1, Len(Append(s, x))) = SubSeq(s, m + 1, Len(s)) \o <<x>>
           /\ SubSeq(s, m + 1, Len(s)) \in Seq(S)
<1> DEFINE u == Append(s, x)
<1>1. /\ u \in Seq(S) /\ Len(s) \in Nat /\ Len(u) = Len(s) + 1
      /\ \A i \in 1..Len(s) : u[i] = s[i] /\ s[i] \in S
      /\ u[Len(u)] = x
  BY AppendProperties, LenProperties, ElementOfSeq
<1> HIDE DEF u
<1>2. SubSeq(u, m + 1, Len(u)) = SubSeq(u, m + 1, Len(u) - 1) \o <<u[Len(u)]>>
  <2>1. m + 1 \in 1..Len(u) /\ Len(u) \in (m + 1)..Len(u)
    BY <1>1
  <2> QED BY <1>1, <2>1, SubSeqRecursiveSecond
<1>3. /\ SubSeq(u, m + 1, Len(s)) = SubSeq(s, m + 1, Len(s))
      /\ SubSeq(s, m + 1, Len(s)) \in Seq(S)
  <2> DEFINE v == SubSeq(u, m + 1, Len(s))   w == SubSeq(s, m + 1, Len(s))   k == m + 1
             n == Len(s)
  <2>1. k \in Int /\ n \in Int /\ n = Len(s) /\ \A i \in k..n : u[i] = s[i] /\ s[i] \in S
    BY <1>1
  <2>2. v = SubSeq(u, k, n) /\ w = SubSeq(s, k, n)
    OBVIOUS
  <2> HIDE DEF k, n, v, w
  <2>3. /\ v \in Seq(S) /\ Len(v) = (IF k <= n THEN n - k + 1 ELSE 0)
        /\ \A i \in 1..(n - k + 1) : v[i] = u[k + i - 1]
    BY <2>1, <2>2, SubSeqProperties
  <2>4. /\ w \in Seq(S) /\ Len(w) = (IF k <= n THEN n - k + 1 ELSE 0)
        /\ \A i \in 1..(n - k + 1) : w[i] = s[k + i - 1]
    BY <2>1, <2>2, SubSeqProperties
  <2>5. \A i \in 1..Len(v) : v[i] = w[i]
    <3> TAKE i \in 1..Len(v)
    <3>1. i \in 1..(n - k + 1) /\ k + i - 1 \in k..n
      BY <2>1, <2>3
    <3> QED BY <2>1, <2>3, <2>4, <3>1
  <2>6. v = w
    BY <2>3, <2>4, <2>5, SeqEqual
  <2> QED BY <2>4, <2>6 DEF v, w, k, n
<1>4. Len(u) - 1 = Len(s)
  BY <1>1
<1> QED BY <1>1, <1>2, <1>3, <1>4 DEF u

\* The stream of a subscriber is a sequence of payloads.
LEMMA StreamType ==
    ASSUME NEW all \in Seq(Payloads), NEW from \in 0..Len(all)
    PROVE  /\ <<Support>> \in Seq(Payloads) /\ SubSeq(all, from + 1, Len(all)) \in Seq(Payloads)
           /\ <<Support>> \o SubSeq(all, from + 1, Len(all)) \in Seq(Payloads)
<1>1. <<Support>> \in Seq(Payloads)
  BY DEF Payloads
<1>2. SubSeq(all, from + 1, Len(all)) \in Seq(Payloads)
  BY OccursSplit
<1> DEFINE a == <<Support>>   b == SubSeq(all, from + 1, Len(all))
<1>3. a \in Seq(Payloads) /\ b \in Seq(Payloads)
  BY <1>1, <1>2
<1>4. a \o b \in Seq(Payloads)
  <2> HIDE DEF a, b
  <2> QED BY <1>3, ConcatProperties
<1> QED BY <1>1, <1>2, <1>4

\* Concatenation of payloads is associative.
LEMMA PayloadAssoc == \A q, r, t \in Seq(Payloads) : (q \o r) \o t = q \o (r \o t)
BY ConcatAssociative

\* Concatenations of payloads are sequences of payloads.
LEMMA PayloadConcat == \A q, r \in Seq(Payloads) : q \o r \in Seq(Payloads)
BY ConcatProperties

\* A subscriber that is current is not more than current.
LEMMA CurrentBehind ==
    ASSUME NEW g \in Seq(Payloads), NEW b \in Seq(Payloads), NEW from, NEW all
    PROVE  current(g, b, from, all) => behind(g, b, from, all)
<1>1. g \o b \in Seq(Payloads) /\ <<>> \in Seq(Payloads)
  BY PayloadConcat, EmptySeq
<1>2. (g \o b) \o <<>> = g \o b
  BY <1>1, ConcatEmptySeq
<1> QED BY <1>1, <1>2 DEF current, behind

\* A message is published to a subscriber that has room, or to one that has not.
LEMMA PublishedStream ==
    ASSUME NEW g \in Seq(Payloads), NEW b \in Seq(Payloads), NEW all \in Seq(Payloads),
           NEW p \in Payloads, NEW from \in 0..Len(all)
    PROVE  /\ behind(g, b, from, all) => behind(g, b, from, Append(all, p))
           /\ current(g, b, from, all) => current(g, Append(b, p), from, Append(all, p))
<1> DEFINE e == <<p>>
           x == stream(from, all)
           y == stream(from, Append(all, p))
<1>1. e \in Seq(Payloads)
  OBVIOUS
<1>2. x \in Seq(Payloads) /\ y = x \o e
  <2> DEFINE tail == SubSeq(all, from + 1, Len(all))
             more == SubSeq(Append(all, p), from + 1, Len(Append(all, p)))
             h == <<Support>>
  <2>1. h \in Seq(Payloads) /\ tail \in Seq(Payloads) /\ more = tail \o e
    BY StreamType, SubSeqAppend, ZenonT(60)
  <2>2. x = h \o tail /\ y = h \o more
    BY DEF stream
  <2> HIDE DEF h, tail, more, x, y, e
  <2>3. \A u, v \in Seq(Payloads) : (h \o u) \o v = h \o (u \o v)
    BY <2>1, PayloadAssoc
  <2>4. h \o more = (h \o tail) \o e
    BY <1>1, <2>1, <2>3
  <2>5. h \o tail \in Seq(Payloads)
    BY <2>1, PayloadConcat
  <2> QED BY <2>2, <2>4, <2>5
<1>3. Append(b, p) = b \o e
  BY AppendIsConcat
<1> HIDE DEF e, x, y
<1>4. g \o b \in Seq(Payloads)
  BY PayloadConcat
<1>5. ASSUME behind(g, b, from, all) PROVE behind(g, b, from, Append(all, p))
  <2>1. PICK rest \in Seq(Payloads) : (g \o b) \o rest = x
    BY <1>5 DEF behind, x
  <2>2. (g \o b) \o (rest \o e) = y /\ rest \o e \in Seq(Payloads)
    <3>1. rest \o e \in Seq(Payloads) /\ (g \o b) \o (rest \o e) = ((g \o b) \o rest) \o e
      BY <1>1, <1>4, PayloadConcat, PayloadAssoc, SMTT(30)
    <3> QED BY <1>2, <2>1, <3>1
  <2> QED BY <2>2 DEF behind, y
<1>6. ASSUME current(g, b, from, all) PROVE current(g, Append(b, p), from, Append(all, p))
  <2>1. g \o (b \o e) = (g \o b) \o e
    BY <1>1, PayloadAssoc, SMTT(30)
  <2> QED BY <1>2, <1>3, <1>6, <2>1 DEF current, x, y
<1> QED BY <1>5, <1>6

\* Receiving moves a message and changes no stream.
LEMMA ReceiveMoves ==
    ASSUME NEW g \in Seq(Payloads), NEW b \in Seq(Payloads), b # <<>>
    PROVE  /\ Append(g, Head(b)) \o Tail(b) = g \o b
           /\ Append(g, Head(b)) \in Seq(Payloads) /\ Tail(b) \in Seq(Payloads)
<1> DEFINE x == Head(b)   t == Tail(b)   e == <<x>>
<1>1. x \in Payloads /\ t \in Seq(Payloads) /\ e \in Seq(Payloads)
  BY HeadTailProperties
<1>2. b = e \o t
  <2>1. Len(b) \in Nat \ {0} /\ x = b[1] /\ t = SubSeq(b, 2, Len(b))
    BY EmptySeq, TailIsSubSeq
  <2>2. SubSeq(b, 1, Len(b)) = <<b[1]>> \o SubSeq(b, 1 + 1, Len(b))
    <3>1. 1 \in 1..Len(b) /\ Len(b) \in 1..Len(b)
      BY <2>1
    <3> QED BY <3>1, SubSeqRecursiveFirst
  <2> QED BY <2>1, <2>2, SubSeqFull
<1>3. Append(g, x) = g \o e /\ Append(g, x) \in Seq(Payloads)
  BY <1>1, AppendProperties, AppendIsConcat
<1> HIDE DEF x, t, e
<1>4. Append(g, x) \o t = g \o b
  BY <1>1, <1>2, <1>3, ConcatAssociative
<1> QED BY <1>1, <1>3, <1>4 DEF x, t

\* A subscription begins with the first message, which announces the refresh messages.
LEMMA SubscribeCurrent ==
    ASSUME NEW all \in Seq(Payloads)
    PROVE  current(<<>>, <<Support>>, Len(all), all)
<1> DEFINE h == <<Support>>   n == Len(all)
<1>1. n \in Nat
  BY LenProperties
<1>2. h \in Seq(Payloads) /\ <<>> \in Seq(Payloads)
  BY EmptySeq DEF Payloads
<1>3. SubSeq(all, n + 1, n) = <<>>
  <2>1. n + 1 \in Int /\ n \in Int /\ n < n + 1
    BY <1>1
  <2> HIDE DEF n
  <2> QED BY <2>1, SubSeqEmpty
<1> HIDE DEF h
<1>4. <<>> \o h = h \o SubSeq(all, n + 1, n)
  BY <1>2, <1>3, ConcatEmptySeq
<1> QED BY <1>4 DEF current, stream, h

\* What was received and is buffered begins the stream, without a gap.
LEMMA BehindIsPrefix ==
    ASSUME NEW g \in Seq(Payloads), NEW b \in Seq(Payloads), NEW from, NEW all,
           behind(g, b, from, all)
    PROVE  IsPrefix(g \o b, stream(from, all))
<1> DEFINE s == g \o b
           t == stream(from, all)
<1>1. PICK rest \in Seq(Payloads) : s \o rest = t
  BY DEF behind
<1>2. s \in Seq(Payloads)
  BY PayloadConcat
<1> HIDE DEF s, t
<1>3. Len(s) \in Nat /\ Len(rest) \in Nat /\ Len(t) = Len(s) + Len(rest)
  BY <1>1, <1>2, ConcatProperties, LenProperties
<1>4. SubSeq(s, 1, Len(s)) = SubSeq(t, 1, Len(s))
  <2>1. CASE Len(s) = 0
    <3>1. SubSeq(s, 1, 0) = <<>> /\ SubSeq(t, 1, 0) = <<>>
      BY SubSeqEmpty
    <3> QED BY <2>1, <3>1
  <2>2. CASE Len(s) # 0
    <3>1. 1 \in 1..Len(s) /\ Len(s) \in 1..Len(s)
      BY <1>3, <2>2
    <3>2. SubSeq(s \o rest, 1, Len(s)) = SubSeq(s, 1, Len(s))
      BY <1>2, <3>1, SubSeqOfConcat1
    <3> QED BY <1>1, <3>2
  <2> QED BY <2>1, <2>2
<1>5. IsPrefix(s, t)
  BY <1>3, <1>4 DEF IsPrefix
<1> QED BY <1>5 DEF s, t

\* Types of what belongs to the subscribers.
StreamTypes ==
    /\ subs \subseteq Subscribers
    /\ buf \in [Subscribers -> Seq(Payloads)] /\ got \in [Subscribers -> Seq(Payloads)]
    /\ closing \in [Subscribers -> Nat] /\ closes \in [Subscribers -> Nat]
    /\ conn \in [Subscribers -> {"idle", "live", "gone"}]
    /\ sent \in Seq(Payloads) /\ since \in [Subscribers -> Nat]

\* One subscriber: its channel, and what it has received of its stream.
SubscriberInv(s) ==
    /\ Len(buf[s]) <= Buffer /\ since[s] \in 0..Len(sent)
    /\ s \in subs => conn[s] = "live"
    /\ conn[s] = "idle" => closing[s] = 0 /\ closes[s] = 0 /\ got[s] = <<>>
    /\ closing[s] + closes[s] <= IF s \in subs THEN 0 ELSE 1
    /\ conn[s] # "idle" => behind(got[s], buf[s], since[s], sent)
    /\ s \in subs => current(got[s], buf[s], since[s], sent)

StreamInv ==
    /\ StreamTypes
    /\ \A s \in Subscribers : SubscriberInv(s)

streamVars == <<subs, buf, closing, closes, conn, sent, since, got>>

\* A subscriber whose variables do not change is left alone.
sameFor(s) ==
    /\ buf'[s] = buf[s] /\ closing'[s] = closing[s] /\ closes'[s] = closes[s]
    /\ conn'[s] = conn[s] /\ since'[s] = since[s] /\ got'[s] = got[s]
    /\ (s \in subs') = (s \in subs)

\* A subscriber nothing happens to keeps its invariant.
LEMMA SameFor ==
    ASSUME NEW s \in Subscribers, SubscriberInv(s), sameFor(s), sent' = sent
    PROVE  SubscriberInv(s)'
BY DEF SubscriberInv, sameFor, behind, current

\* Actions that leave the subscribers alone.
LEMMA StreamFrame ==
    ASSUME \/ PopCheck \/ UNCHANGED QueueVars
           \/ \E expired, count \in 0..Len(items) : Pop(expired, count)
           \/ \E value \in BOOLEAN : SetEnabled(value)
           \/ \E r \in Records : HandleUsage(r)
           \/ \E a \in Enqueuers :
                \/ EnqueueCheck(a)
                \/ EnqueuePublish(a) /\ subs = {}
                \/ \E expired \in 0..Len(items) : EnqueueAppend(a, expired)
           \/ \E f \in Forwarders :
                \/ StartForwarder(f) \/ Cancel(f) \/ PushOK(f) \/ Requeued(f)
                \/ ForwarderWakes(f)
                \/ \E heartbeatOK \in BOOLEAN : ForwarderLoop(f, heartbeatOK)
                \/ \E expired \in 0..Len(items) : ForwarderPop(f, expired)
                \/ \E arrived \in BOOLEAN : PushFails(f, arrived)
    PROVE  UNCHANGED streamVars
BY DEF PopCheck, Pop, QueueVars, SetEnabled, HandleUsage, EnqueueCheck, EnqueuePublish, EnqueueAppend,
       StartForwarder, Cancel, PushOK, Requeued, ForwarderWakes, ForwarderLoop, ForwarderPop,
       PushFails, streamVars, package, history

\* The actions that publish a message.
LEMMA PublishFrame ==
    ASSUME RecordTypes,
           NotifyUsageRefresh \/ \E a \in Enqueuers : EnqueuePublish(a) /\ subs # {}
    PROVE  /\ \E p \in Payloads : publishToSubscribers(p)
           /\ UNCHANGED <<closing, conn, since, got>>
<1>1. CASE NotifyUsageRefresh
  BY <1>1 DEF NotifyUsageRefresh, Payloads
<1>2. ASSUME NEW a \in Enqueuers, EnqueuePublish(a), subs # {}
      PROVE  /\ \E p \in Payloads : publishToSubscribers(p)
             /\ UNCHANGED <<closing, conn, since, got>>
  <2>1. /\ step[a] = "publish" /\ Enqueued(a) /\ publishToSubscribers(Head(todo[a]))
        /\ UNCHANGED <<closing, conn, since, got>>
    BY <1>2 DEF EnqueuePublish
  <2>2. Head(todo[a]) \in Payloads
    BY <2>1, EnqueuedTypes DEF Payloads
  <2> QED BY <2>1, <2>2
<1> QED BY <1>1, <1>2

\* A payload goes to every subscriber with room, and the others are unsubscribed.
LEMMA PublishStep ==
    ASSUME StreamInv, NEW p \in Payloads, publishToSubscribers(p),
           UNCHANGED <<closing, conn, since, got>>
    PROVE  StreamInv'
<1>1. /\ buf' = [s \in Subscribers |-> IF s \in subs \ full THEN Append(buf[s], p) ELSE buf[s]]
      /\ subs' = subs \ full
      /\ closes' = [s \in Subscribers |-> closes[s] + (IF s \in full THEN 1 ELSE 0)]
      /\ sent' = Append(sent, p)
  BY DEF publishToSubscribers
<1>2. StreamTypes
  BY DEF StreamInv
<1>3. /\ sent' \in Seq(Payloads) /\ Len(sent') = Len(sent) + 1 /\ Len(sent) \in Nat
  BY <1>1, <1>2, AppendProperties, LenProperties DEF StreamTypes
<1>4. ASSUME NEW s \in Subscribers
      PROVE  Append(buf[s], p) \in Seq(Payloads) /\ Len(Append(buf[s], p)) = Len(buf[s]) + 1
  BY <1>2, AppendProperties DEF StreamTypes
<1>5. StreamTypes'
  <2>1. buf' \in [Subscribers -> Seq(Payloads)]
    BY <1>1, <1>2, <1>4 DEF StreamTypes
  <2>2. closes' \in [Subscribers -> Nat]
    BY <1>1, <1>2 DEF StreamTypes
  <2> QED BY <1>1, <1>2, <1>3, <2>1, <2>2 DEF StreamTypes
<1>6. ASSUME NEW s \in Subscribers PROVE SubscriberInv(s)'
  <2>1. SubscriberInv(s)
    BY DEF StreamInv
  <2>2. /\ buf[s] \in Seq(Payloads) /\ got[s] \in Seq(Payloads) /\ sent \in Seq(Payloads)
        /\ Len(buf[s]) \in Nat /\ Buffer \in Nat /\ closing[s] \in Nat /\ closes[s] \in Nat
        /\ since[s] \in 0..Len(sent)
    BY <1>2, <2>1, LenProperties, QueueAssumption DEF StreamTypes, SubscriberInv
  <2>3. /\ buf'[s] = IF s \in subs \ full THEN Append(buf[s], p) ELSE buf[s]
        /\ closes'[s] = closes[s] + (IF s \in full THEN 1 ELSE 0)
        /\ conn'[s] = conn[s] /\ got'[s] = got[s] /\ since'[s] = since[s]
        /\ closing'[s] = closing[s]
    BY <1>1
  <2>4. /\ s \in full <=> s \in subs /\ Len(buf[s]) >= Buffer
        /\ s \in subs' <=> s \in subs /\ s \notin full
    BY <1>1 DEF full
  <2>5. /\ conn[s] # "idle" => behind(got[s], buf'[s], since[s], sent')
        /\ s \in subs' => current(got[s], buf'[s], since[s], sent')
    <3>1. /\ conn[s] # "idle" => behind(got[s], buf[s], since[s], Append(sent, p))
          /\ s \in subs => current(got[s], Append(buf[s], p), since[s], Append(sent, p))
      <4>1. /\ conn[s] # "idle" => behind(got[s], buf[s], since[s], sent)
            /\ s \in subs => current(got[s], buf[s], since[s], sent)
        BY <2>1 DEF SubscriberInv
      <4> QED BY <2>2, <4>1, PublishedStream
    <3>2. CASE s \in subs /\ s \notin full
      <4>1. buf'[s] = Append(buf[s], p) /\ current(got[s], buf'[s], since[s], sent')
        BY <1>1, <2>3, <3>1, <3>2
      <4>2. buf'[s] \in Seq(Payloads)
        BY <1>4, <4>1
      <4> QED BY <2>2, <4>1, <4>2, CurrentBehind
    <3>3. CASE s \notin subs \/ s \in full
      BY <1>1, <2>3, <2>4, <3>1, <3>3
    <3> QED BY <3>2, <3>3
  <2>6. Len(buf'[s]) <= Buffer
    BY <1>4, <2>1, <2>2, <2>3, <2>4 DEF SubscriberInv
  <2>7. since'[s] \in 0..Len(sent')
    BY <1>3, <2>2, <2>3
  <2>8. closing'[s] + closes'[s] <= IF s \in subs' THEN 0 ELSE 1
    BY <2>1, <2>2, <2>3, <2>4 DEF SubscriberInv
  <2>9. conn'[s] = "idle" => closing'[s] = 0 /\ closes'[s] = 0 /\ got'[s] = <<>>
    BY <2>1, <2>2, <2>3, <2>4 DEF SubscriberInv
  <2>10. s \in subs' => conn'[s] = "live"
    BY <2>1, <2>3, <2>4 DEF SubscriberInv
  <2> QED BY <2>3, <2>5, <2>6, <2>7, <2>8, <2>9, <2>10 DEF SubscriberInv
<1> QED BY <1>5, <1>6 DEF StreamInv

\* Disabling the queue unsubscribes everyone.
LEMMA ClearStream ==
    ASSUME StreamInv, clear
    PROVE  StreamInv'
<1>1. /\ closing' = [s \in Subscribers |-> closing[s] + (IF s \in subs THEN 1 ELSE 0)]
      /\ subs' = {}
      /\ UNCHANGED <<buf, closes, conn, sent, since, got>>
  BY DEF clear
<1>2. StreamTypes'
  BY <1>1 DEF StreamInv, StreamTypes
<1>3. ASSUME NEW s \in Subscribers PROVE SubscriberInv(s)'
  <2>1. SubscriberInv(s) /\ closing[s] \in Nat /\ closes[s] \in Nat
    BY DEF StreamInv, StreamTypes
  <2>2. closing'[s] = closing[s] + (IF s \in subs THEN 1 ELSE 0) /\ s \notin subs'
    BY <1>1
  <2>3. /\ closing'[s] + closes'[s] <= 1
        /\ conn'[s] = "idle" => closing'[s] = 0 /\ closes'[s] = 0 /\ got'[s] = <<>>
    BY <1>1, <2>1, <2>2 DEF SubscriberInv
  <2>4. conn'[s] # "idle" => behind(got'[s], buf'[s], since'[s], sent')
    BY <1>1, <2>1 DEF SubscriberInv
  <2> QED BY <1>1, <2>1, <2>2, <2>3, <2>4 DEF SubscriberInv
<1> QED BY <1>2, <1>3 DEF StreamInv

\* A removed subscriber is closed once.
LEMMA CloseStream ==
    ASSUME StreamInv, NEW s \in Subscribers, Close(s)
    PROVE  StreamInv'
<1>1. /\ closing[s] > 0
      /\ closing' = [closing EXCEPT ![s] = closing[s] - 1]
      /\ closes' = [closes EXCEPT ![s] = closes[s] + 1]
      /\ UNCHANGED <<subs, buf, conn, sent, since, got>>
  BY DEF Close, history
<1>2. closing \in [Subscribers -> Nat] /\ closes \in [Subscribers -> Nat]
  BY DEF StreamInv, StreamTypes
<1>3. /\ closing' \in [Subscribers -> Nat] /\ closes' \in [Subscribers -> Nat]
      /\ closing'[s] = closing[s] - 1 /\ closes'[s] = closes[s] + 1
      /\ \A t \in Subscribers \ {s} : closing'[t] = closing[t] /\ closes'[t] = closes[t]
  BY <1>1, <1>2
<1>4. StreamTypes'
  BY <1>1, <1>3 DEF StreamInv, StreamTypes
<1>5. ASSUME NEW t \in Subscribers PROVE SubscriberInv(t)'
  <2>1. SubscriberInv(t) /\ closing[t] \in Nat /\ closes[t] \in Nat
    BY <1>2 DEF StreamInv
  <2>2. CASE t = s
    <3>1. closing'[s] + closes'[s] = closing[s] + closes[s] /\ conn[s] # "idle"
      BY <1>1, <1>3, <2>1, <2>2 DEF SubscriberInv
    <3>2. /\ behind(got'[s], buf'[s], since'[s], sent')
          /\ s \in subs' => current(got'[s], buf'[s], since'[s], sent')
      BY <1>1, <2>1, <2>2, <3>1 DEF SubscriberInv
    <3> QED BY <1>1, <2>1, <2>2, <3>1, <3>2 DEF SubscriberInv
  <2>3. CASE t # s
    <3>1. sameFor(t)
      BY <1>1, <1>3, <2>3 DEF sameFor
    <3> QED BY <1>1, <2>1, <3>1, SameFor
  <2> QED BY <2>2, <2>3
<1> QED BY <1>4, <1>5 DEF StreamInv

\* A new subscriber is current: it is told of the support, and of what comes then.
LEMMA SubscribeStream ==
    ASSUME StreamInv, NEW s \in Subscribers, Subscribe(s)
    PROVE  StreamInv'
<1>1. /\ conn[s] = "idle" /\ conn' = [conn EXCEPT ![s] = "live"]
      /\ buf' = [buf EXCEPT ![s] = <<Support>>] /\ subs' = subs \cup {s}
      /\ since' = [since EXCEPT ![s] = Len(sent)]
      /\ UNCHANGED <<closing, closes, sent, got>>
  BY DEF Subscribe
<1>2. StreamTypes /\ <<Support>> \in Seq(Payloads) /\ Len(<<Support>>) = 1 /\ Len(sent) \in Nat
  BY LenProperties DEF StreamInv, StreamTypes, Payloads
<1>3. /\ buf' \in [Subscribers -> Seq(Payloads)] /\ buf'[s] = <<Support>>
      /\ conn' \in [Subscribers -> {"idle", "live", "gone"}] /\ conn'[s] = "live"
      /\ since' \in [Subscribers -> Nat] /\ since'[s] = Len(sent)
      /\ \A t \in Subscribers \ {s} :
            buf'[t] = buf[t] /\ conn'[t] = conn[t] /\ since'[t] = since[t]
      /\ subs' \subseteq Subscribers
  BY <1>1, <1>2 DEF StreamTypes
<1>4. StreamTypes'
  BY <1>1, <1>2, <1>3 DEF StreamTypes
<1>5. ASSUME NEW t \in Subscribers PROVE SubscriberInv(t)'
  <2>1. SubscriberInv(t)
    BY DEF StreamInv
  <2>2. CASE t = s
    <3>1. /\ current(<<>>, <<Support>>, Len(sent), sent)
          /\ behind(<<>>, <<Support>>, Len(sent), sent)
      <4>1. sent \in Seq(Payloads) /\ <<>> \in Seq(Payloads)
        BY <1>2, EmptySeq DEF StreamTypes
      <4> QED BY <1>2, <4>1, SubscribeCurrent, CurrentBehind
    <3>2. closing[s] = 0 /\ closes[s] = 0 /\ got[s] = <<>>
      BY <1>1, <2>1, <2>2 DEF SubscriberInv
    <3>3. Buffer \in Nat \ {0} /\ Len(sent) \in 0..Len(sent) /\ Len(<<Support>>) <= Buffer
      BY <1>2, QueueAssumption
    <3>4. /\ behind(got'[s], buf'[s], since'[s], sent')
          /\ current(got'[s], buf'[s], since'[s], sent')
      BY <1>1, <1>3, <3>1, <3>2
    <3> QED BY <1>1, <1>3, <2>2, <3>2, <3>3, <3>4 DEF SubscriberInv
  <2>3. CASE t # s
    <3>1. sameFor(t)
      BY <1>1, <1>3, <2>3 DEF sameFor
    <3> QED BY <1>1, <2>1, <3>1, SameFor
  <2> QED BY <2>2, <2>3
<1> QED BY <1>4, <1>5 DEF StreamInv

\* Receiving moves a payload from the buffer to what was received.
LEMMA ReceiveStream ==
    ASSUME StreamInv, NEW s \in Subscribers, Receive(s)
    PROVE  StreamInv'
<1>1. /\ conn[s] = "live" /\ buf[s] # <<>> /\ buf' = [buf EXCEPT ![s] = Tail(buf[s])]
      /\ got' = [got EXCEPT ![s] = Append(got[s], Head(buf[s]))]
      /\ UNCHANGED <<subs, closing, closes, conn, sent, since>>
  BY DEF Receive
<1>2. /\ StreamTypes /\ buf[s] \in Seq(Payloads) /\ got[s] \in Seq(Payloads)
      /\ SubscriberInv(s)
  BY DEF StreamInv, StreamTypes
<1>3. /\ Append(got[s], Head(buf[s])) \o Tail(buf[s]) = got[s] \o buf[s]
      /\ Append(got[s], Head(buf[s])) \in Seq(Payloads) /\ Tail(buf[s]) \in Seq(Payloads)
  BY <1>1, <1>2, ReceiveMoves
<1>4. /\ buf' \in [Subscribers -> Seq(Payloads)] /\ buf'[s] = Tail(buf[s])
      /\ got' \in [Subscribers -> Seq(Payloads)] /\ got'[s] = Append(got[s], Head(buf[s]))
      /\ \A t \in Subscribers \ {s} : buf'[t] = buf[t] /\ got'[t] = got[t]
  BY <1>1, <1>2, <1>3 DEF StreamTypes
<1>5. StreamTypes'
  BY <1>1, <1>2, <1>4 DEF StreamTypes
<1>6. ASSUME NEW t \in Subscribers PROVE SubscriberInv(t)'
  <2>1. SubscriberInv(t)
    BY DEF StreamInv
  <2>2. CASE t = s
    <3>1. Len(Tail(buf[s])) <= Buffer
      <4>1. Len(Tail(buf[s])) = Len(buf[s]) - 1 /\ Len(buf[s]) \in Nat /\ Buffer \in Nat
        BY <1>1, <1>2, HeadTailProperties, LenProperties, QueueAssumption
      <4> QED BY <1>2, <4>1 DEF SubscriberInv
    <3>2. /\ behind(got'[s], buf'[s], since'[s], sent')
          /\ s \in subs' => current(got'[s], buf'[s], since'[s], sent')
      <4>1. got'[s] \o buf'[s] = got[s] \o buf[s]
        BY <1>3, <1>4
      <4>2. /\ behind(got[s], buf[s], since[s], sent)
            /\ s \in subs => current(got[s], buf[s], since[s], sent)
        BY <1>1, <1>2 DEF SubscriberInv
      <4> QED BY <1>1, <4>1, <4>2 DEF behind, current
    <3>3. conn'[s] = "live"
      BY <1>1
    <3>4. /\ closing'[s] + closes'[s] <= IF s \in subs' THEN 0 ELSE 1
          /\ since'[s] \in 0..Len(sent') /\ Len(buf'[s]) <= Buffer
      BY <1>1, <1>2, <1>4, <3>1 DEF SubscriberInv
    <3> QED BY <2>2, <3>2, <3>3, <3>4 DEF SubscriberInv
  <2>3. CASE t # s
    <3>1. sameFor(t)
      BY <1>1, <1>4, <2>3 DEF sameFor
    <3> QED BY <1>1, <2>1, <3>1, SameFor
  <2> QED BY <2>2, <2>3
<1> QED BY <1>5, <1>6 DEF StreamInv

\* A subscriber that leaves keeps what it has.
LEMMA UnsubscribeStream ==
    ASSUME StreamInv, NEW s \in Subscribers, unsubscribe(s)
    PROVE  StreamInv'
<1>1. /\ conn[s] = "live" /\ conn' = [conn EXCEPT ![s] = "gone"]
      /\ subs' = subs \ {s}
      /\ closing' = [closing EXCEPT ![s] = closing[s] + (IF s \in subs THEN 1 ELSE 0)]
      /\ UNCHANGED <<buf, closes, sent, since, got>>
  BY DEF unsubscribe, history
<1>2. StreamTypes
  BY DEF StreamInv
<1>3. /\ closing' \in [Subscribers -> Nat]
      /\ closing'[s] = closing[s] + (IF s \in subs THEN 1 ELSE 0)
      /\ conn' \in [Subscribers -> {"idle", "live", "gone"}] /\ conn'[s] = "gone"
      /\ \A t \in Subscribers \ {s} : closing'[t] = closing[t] /\ conn'[t] = conn[t]
  BY <1>1, <1>2 DEF StreamTypes
<1>4. StreamTypes'
  BY <1>1, <1>2, <1>3 DEF StreamTypes
<1>5. ASSUME NEW t \in Subscribers PROVE SubscriberInv(t)'
  <2>1. SubscriberInv(t) /\ closing[t] \in Nat /\ closes[t] \in Nat
    BY <1>2 DEF StreamInv, StreamTypes
  <2>2. CASE t = s
    <3>1. closing'[s] + closes'[s] <= 1 /\ s \notin subs' /\ conn'[s] = "gone"
      BY <1>1, <1>3, <2>1, <2>2 DEF SubscriberInv
    <3>2. behind(got'[s], buf'[s], since'[s], sent')
      BY <1>1, <2>1, <2>2 DEF SubscriberInv
    <3> QED BY <1>1, <2>1, <2>2, <3>1, <3>2 DEF SubscriberInv
  <2>3. CASE t # s
    <3>1. sameFor(t)
      BY <1>1, <1>3, <2>3 DEF sameFor
    <3> QED BY <1>1, <2>1, <3>1, SameFor
  <2> QED BY <2>2, <2>3
<1> QED BY <1>4, <1>5 DEF StreamInv

\* Nobody is subscribed at the start.
LEMMA StreamInit == QueueInit => StreamInv
<1> SUFFICES ASSUME QueueInit PROVE StreamInv
  OBVIOUS
<1>1. /\ subs = {} /\ sent = <<>> /\ <<>> \in Seq(Payloads) /\ Len(<<>>) = 0
      /\ buf = [s \in Subscribers |-> <<>>] /\ got = [s \in Subscribers |-> <<>>]
      /\ closing = [s \in Subscribers |-> 0] /\ closes = [s \in Subscribers |-> 0]
      /\ conn = [s \in Subscribers |-> "idle"] /\ since = [s \in Subscribers |-> 0]
  BY EmptySeq DEF QueueInit
<1>2. StreamTypes
  BY <1>1 DEF StreamTypes
<1>3. ASSUME NEW s \in Subscribers PROVE SubscriberInv(s)
  BY <1>1, QueueAssumption DEF SubscriberInv
<1> QED BY <1>2, <1>3 DEF StreamInv

\* A step keeps the streams of the subscribers.
LEMMA StreamStep == RecordTypes /\ StreamInv /\ [QueueNext]_QueueVars => StreamInv'
<1> SUFFICES ASSUME RecordTypes, StreamInv, [QueueNext]_QueueVars PROVE StreamInv'
  OBVIOUS
<1>1. CASE \/ PopCheck \/ UNCHANGED QueueVars
           \/ \E expired, count \in 0..Len(items) : Pop(expired, count)
           \/ \E value \in BOOLEAN : SetEnabled(value)
           \/ \E r \in Records : HandleUsage(r)
           \/ \E a \in Enqueuers :
                \/ EnqueueCheck(a)
                \/ EnqueuePublish(a) /\ subs = {}
                \/ \E expired \in 0..Len(items) : EnqueueAppend(a, expired)
           \/ \E f \in Forwarders :
                \/ StartForwarder(f) \/ Cancel(f) \/ PushOK(f) \/ Requeued(f)
                \/ ForwarderWakes(f)
                \/ \E heartbeatOK \in BOOLEAN : ForwarderLoop(f, heartbeatOK)
                \/ \E expired \in 0..Len(items) : ForwarderPop(f, expired)
                \/ \E arrived \in BOOLEAN : PushFails(f, arrived)
  <2>1. UNCHANGED streamVars
    BY <1>1, StreamFrame
  <2>2. StreamTypes'
    BY <2>1 DEF StreamInv, StreamTypes, streamVars
  <2>3. ASSUME NEW s \in Subscribers PROVE SubscriberInv(s)'
    <3>1. SubscriberInv(s) /\ sameFor(s) /\ sent' = sent
      BY <2>1 DEF StreamInv, streamVars, sameFor
    <3> QED BY <3>1, SameFor
  <2> QED BY <2>2, <2>3 DEF StreamInv
<1>2. CASE NotifyUsageRefresh \/ \E a \in Enqueuers : EnqueuePublish(a) /\ subs # {}
  <2>1. PICK p \in Payloads : publishToSubscribers(p)
    BY <1>2, PublishFrame
  <2>2. UNCHANGED <<closing, conn, since, got>>
    BY <1>2, PublishFrame
  <2> QED BY <2>1, <2>2, PublishStep
<1>3. CASE clear
  BY <1>3, ClearStream
<1>4. CASE \E s \in Subscribers : Subscribe(s)
  BY <1>4, SubscribeStream
<1>5. CASE \E s \in Subscribers : Receive(s)
  BY <1>5, ReceiveStream
<1>6. CASE \E s \in Subscribers : unsubscribe(s)
  BY <1>6, UnsubscribeStream
<1>7. CASE \E s \in Subscribers : Close(s)
  BY <1>7, CloseStream
<1> QED
  BY <1>1, <1>2, <1>3, <1>4, <1>5, <1>6, <1>7 DEF QueueNext, Enqueue

\* Types of the switches and of who pops or clears.
Control ==
    /\ home \in BOOLEAN /\ enabled \in BOOLEAN
    /\ popper \in {"idle", "pop"} /\ toggler \in {"idle", "clear"}

\* A step keeps the types of the switches.
LEMMA ControlStep == Control /\ [QueueNext]_QueueVars => Control'
<1> SUFFICES ASSUME Control, [QueueNext]_QueueVars PROVE Control'
  OBVIOUS
<1>1. CASE \/ NotifyUsageRefresh \/ UNCHANGED QueueVars
           \/ \E r \in Records : HandleUsage(r)
           \/ \E a \in Enqueuers :
                \/ EnqueueCheck(a) \/ EnqueuePublish(a)
                \/ \E expired \in 0..Len(items) : EnqueueAppend(a, expired)
           \/ \E s \in Subscribers : Subscribe(s) \/ Receive(s) \/ unsubscribe(s) \/ Close(s)
           \/ \E f \in Forwarders :
                \/ StartForwarder(f) \/ Cancel(f) \/ PushOK(f) \/ Requeued(f)
                \/ ForwarderWakes(f)
                \/ \E heartbeatOK \in BOOLEAN : ForwarderLoop(f, heartbeatOK)
                \/ \E expired \in 0..Len(items) : ForwarderPop(f, expired)
                \/ \E arrived \in BOOLEAN : PushFails(f, arrived)
  <2>1. UNCHANGED <<home, enabled, popper, toggler>>
    BY <1>1 DEF NotifyUsageRefresh, QueueVars, HandleUsage, EnqueueCheck, EnqueuePublish,
       EnqueueAppend, Subscribe, Receive, unsubscribe, Close, StartForwarder, Cancel, PushOK,
       Requeued, ForwarderWakes, ForwarderLoop, ForwarderPop, PushFails, package, history
  <2> QED BY <2>1 DEF Control
<1>2. CASE PopCheck \/ clear
  BY <1>2 DEF PopCheck, clear, Control, package
<1>3. CASE \E expired, count \in 0..Len(items) : Pop(expired, count)
  BY <1>3 DEF Pop, Control
<1>4. CASE \E value \in BOOLEAN : SetEnabled(value)
  BY <1>4 DEF SetEnabled, Control
<1> QED BY <1>1, <1>2, <1>3, <1>4 DEF QueueNext, Enqueue

\* The subscribers' invariant holds in every state of every behaviour.
THEOREM QueueCorrect == QueueSpec => []QueueInv
<1> DEFINE Inv == RecordTypes /\ CountInv /\ StreamInv /\ Control
<1>1. QueueInit => Inv
  <2>1. QueueInit => Control
    BY DEF QueueInit, Control
  <2> QED BY <2>1, RecordInit, StreamInit
<1>2. Inv /\ [QueueNext]_QueueVars => Inv'
  BY RecordStep, StreamStep, ControlStep
<1>3. Inv => QueueInv
  <2> SUFFICES ASSUME Inv PROVE QueueInv
    OBVIOUS
  <2>1. QueueTypeOK
    <3>1. ASSUME NEW S, NEW s \in Seq(S) PROVE ToSet(s) \subseteq S
      BY LenProperties, ElementOfSeq DEF ToSet
    <3>2. ToSet(items) \subseteq Records
      BY <3>1 DEF RecordTypes
    <3>3. \A s \in Subscribers :
            ToSet(buf[s]) \subseteq Records \cup {Support, Refresh} /\ Len(buf[s]) <= Buffer
      BY <3>1 DEF StreamInv, StreamTypes, SubscriberInv, Payloads
    <3>4. /\ closing \in [Subscribers -> Nat] /\ closes \in [Subscribers -> Nat]
          /\ conn \in [Subscribers -> {"idle", "live", "gone"}] /\ subs \subseteq Subscribers
      BY DEF StreamInv, StreamTypes
    <3>5. \A a \in Enqueuers :
            /\ step[a] \in {"idle", "check", "publish", "append", "done"}
            /\ (todo[a] # <<>>) = (step[a] \in {"check", "publish", "append"})
      BY DEF RecordTypes, QueueSteps
    <3>6. \A f \in Forwarders :
            /\ fwd[f] \in {"off", "loop", "pop", "push", "requeue", "asleep", "ended"}
            /\ (batch[f] # <<>>) = (fwd[f] = "push")
            /\ (step[f] # "idle") = (fwd[f] = "requeue")
      BY DEF RecordTypes, Places
    <3> QED BY <3>2, <3>3, <3>4, <3>5, <3>6 DEF QueueTypeOK, Control
  <2>2. ClosedOnce
    BY DEF StreamInv, SubscriberInv, ClosedOnce
  <2>3. StreamsHaveNoGaps
    <3> SUFFICES ASSUME NEW s \in Subscribers, conn[s] # "idle"
                 PROVE  IF s \in subs THEN current(got[s], buf[s], since[s], sent)
                        ELSE IsPrefix(got[s] \o buf[s], stream(since[s], sent))
      BY DEF StreamsHaveNoGaps, current, stream
    <3>1. SubscriberInv(s) /\ got[s] \in Seq(Payloads) /\ buf[s] \in Seq(Payloads)
      BY DEF StreamInv, StreamTypes
    <3>2. /\ s \in subs => current(got[s], buf[s], since[s], sent)
          /\ behind(got[s], buf[s], since[s], sent)
      BY <3>1 DEF SubscriberInv
    <3> QED BY <3>1, <3>2, BehindIsPrefix
  <2> QED BY <2>1, <2>2, <2>3 DEF QueueInv
<1> QED
  <2> HIDE DEF Inv
  <2> QED BY <1>1, <1>2, <1>3, PTL DEF QueueSpec

(***************************************************************************)
(* UsageAggregation: nothing is counted twice, skipped or archived uncounted, a *)
(* turn always finds its events, and the runner sleeps only when it is through. *)
(***************************************************************************)
(***************************************************************************)
(* Sets of numbers.                                                        *)
(***************************************************************************)
\* A set of natural numbers has a least one.
LEMMA LeastNumber ==
    ASSUME NEW S \in SUBSET Nat, S # {}
    PROVE  \E m \in S : \A n \in S : m <= n
<1>1. PICK m \in S : \A n \in S : <<n, m>> \notin OpToRel(<, Nat)
  BY NatLessThanWellFounded, WFMin
<1>2. \A n \in S : ~ (n < m)
  BY <1>1 DEF OpToRel
<1> QED
  BY <1>2

\* Max picks the largest member of a bounded set.
LEMMA MaxOfBounded ==
    ASSUME NEW n \in Nat, NEW S \in SUBSET (0..n), S # {}
    PROVE  Max(S) \in S /\ \A x \in S : x <= Max(S)
<1> DEFINE T == {n - x : x \in S}
<1>1. \A x \in S : x \in Nat /\ x <= n /\ n - x \in Nat /\ n - x \in T
  OBVIOUS
<1>2. PICK m \in T : \A t \in T : m <= t
  BY <1>1, LeastNumber
<1>3. PICK y \in S : m = n - y
  BY <1>2
<1>4. ASSUME NEW x \in S PROVE y >= x
  <2>1. n - y <= n - x
    BY <1>1, <1>2, <1>3
  <2> QED
    BY <1>1, <2>1
<1> QED
  BY <1>4 DEF Max

\* The first page of a set of events: it is not empty, and no event before one
\* of its own is left out.
LEMMA FirstPage ==
    ASSUME NEW n \in Nat, NEW S \in SUBSET (1..n)
    PROVE  /\ firstPage(S) \subseteq S
           /\ S # {} => firstPage(S) # {}
           /\ \A e \in firstPage(S) : \A f \in S : f < e => f \in firstPage(S)
<1> USE AggregationAssumption
<1>1. firstPage(S) \subseteq S
  BY DEF firstPage
<1>2. ASSUME S # {} PROVE firstPage(S) # {}
  <2>1. PICK m \in S : \A e \in S : m <= e
    BY <1>2, LeastNumber
  <2>2. ASSUME NEW f \in S PROVE ~ (f < m)
    BY <2>1
  <2>3. {f \in S : f < m} = {}
    BY <2>2
  <2>4. Cardinality({f \in S : f < m}) = 0
    BY <2>3, FS_EmptySet
  <2> QED
    BY <2>1, <2>4 DEF firstPage
<1>3. ASSUME NEW e \in firstPage(S), NEW f \in S, f < e PROVE f \in firstPage(S)
  <2> DEFINE E == {g \in S : g < e}
             F == {g \in S : g < f}
  <2>1. e \in S /\ \A g \in S : g \in Int
    BY <1>1
  <2>2. \A g \in S : g < f => g < e
    BY <1>3, <2>1
  <2>3. F \subseteq E
    BY <2>2
  <2>4. IsFiniteSet(1..n)
    BY FS_Interval
  <2>5. IsFiniteSet(E)
    BY <2>4, FS_Subset
  <2>6. Cardinality(F) <= Cardinality(E) /\ IsFiniteSet(F)
    BY <2>3, <2>5, FS_Subset
  <2>7. Cardinality(F) \in Nat /\ Cardinality(E) \in Nat
    BY <2>5, <2>6, FS_CardinalityType
  <2> QED
    BY <2>6, <2>7 DEF firstPage
<1> QED
  BY <1>1, <1>2, <1>3

(***************************************************************************)
(* The inductive invariant.                                                *)
(***************************************************************************)
Steps == {"start", "started", "loop", "turn", "wait", "retry", "inbox", "snapshot", "identity",
          "failed", "page", "guard", "apply", "finish", "scanned"}

\* The types, variable group by variable group: the database,
DbOK ==
    /\ owner \in [Events -> 0..MaxIdentity]
    /\ top \in 0..MaxEvent /\ hot \subseteq 1..top
    /\ cursor \in [Rollups -> 0..top] /\ counts \in [Rollups -> [Events -> Nat]]
    /\ ids \in 0..MaxIdentity
    /\ idCursor \in [Identities -> 0..top] /\ idCounts \in [Identities -> [Events -> Nat]]
    /\ missed \in [Identities -> SUBSET (1..top)]

\* the runner's memory,
MemOK ==
    /\ target \in 0..top /\ pending \in 0..top
    /\ idAfter \in 0..ids
    /\ wantGen \in Nat \ {0} /\ scanGen \in 0..wantGen

\* what was announced,
SaidOK == announced \in 0..top /\ bumpTop \in 0..top /\ bumpIds \in 0..ids

\* the turn,
Turns == [kind : {"rollups", "identity"}, target : Nat, active : BOOLEAN, after : Nat,
          pass : Nat, shared : BOOLEAN, reached : BOOLEAN]

TurnOK ==
    /\ turn \in Turns /\ turn.target <= top /\ turn.after <= ids /\ turn.pass <= wantGen
    /\ snap \in [Rollups -> 0..top]
    /\ page \subseteq Nat
    /\ at \in 1..(RollupCount + 1)

\* and the flags, with where the runner is.
FlagsOK ==
    /\ loaded \in BOOLEAN /\ active \in BOOLEAN /\ reached \in BOOLEAN
    /\ unsaid \in BOOLEAN /\ errs \in BOOLEAN /\ wake \in BOOLEAN /\ timer \in BOOLEAN
    /\ pc \in Steps /\ nextKind \in {"rollups", "identity"}

AggTypes == DbOK /\ MemOK /\ SaidOK /\ TurnOK /\ FlagsOK

\* A turn of the rollups has read the checkpoints it has still to move.
SnapInv ==
    /\ pc \in {"inbox", "snapshot"} => at = 1 /\ ~turn.reached
    /\ pc \in {"page", "guard", "apply"} =>
        /\ turn.active /\ ~turn.reached
        /\ \A k \in Rollups : k >= at \/ ~turn.shared => cursor[k] = snap[k]
        /\ turn.shared => \A k \in Rollups : snap[k] = snap[1]
        /\ pc = "page" /\ turn.shared => at = 1 /\ snap[1] < turn.target
        /\ pc = "apply" => at \in Rollups

\* Its page holds the next events after the checkpoint it is at, without a
\* gap, and the archive has taken none of them.
PageInv ==
    pc \in {"guard", "apply"} =>
        /\ page \subseteq 1..top /\ page # {}
        /\ at \in Rollups =>
            /\ page \subseteq hot
            /\ \A e \in page : snap[at] < e
            /\ \A e \in hot : snap[at] < e /\ (\E f \in page : e <= f) => e \in page
        /\ turn.shared /\ ~errs => \A k \in Rollups : k < at => cursor[k] = Max(page)

\* A round that counts as reached has been: every rollup has passed its target.
ReachedInv ==
    /\ pc = "finish" /\ turn.active /\ turn.reached =>
        \A k \in Rollups : cursor[k] >= turn.target
    /\ reached => \A k \in Rollups : cursor[k] >= target
    /\ ~active => target = 0

\* What was announced while the runner started is in the window or below the
\* target it has read.
StartInv ==
    pc = "started" =>
        \/ announced <= pending \/ announced <= turn.target
        \/ \A k \in Rollups : cursor[k] >= announced

LoadedInv == loaded = (pc \notin {"start", "started"})

\* An identity that has not appeared has counted nothing, no identity has
\* counted an event to come, and what one has missed does not come back.
IdentityInv ==
    /\ \A i \in Identities : i > ids =>
        idCursor[i] = 0 /\ missed[i] = {} /\ \A e \in Events : idCounts[i][e] = 0
    /\ \A i \in Identities : \A e \in Events : e > top => idCounts[i][e] = 0
    /\ \A i \in Identities : missed[i] \cap hot = {}

\* The identities that have counted what the last generation asks for; all of
\* them, up to n.
covered == {i \in 1..bumpIds : \A e \in 1..bumpTop :
              owner[e] = i => e <= idCursor[i] \/ e \in missed[i]}
CoveredTo(n) == \A i \in 1..bumpIds : i <= n => i \in covered

\* A scan of the last generation has covered every identity it has passed.
ScanInv ==
    /\ scanGen = wantGen => CoveredTo(IF idAfter = 0 THEN bumpIds ELSE idAfter)
    /\ (pc = "inbox" /\ turn.kind = "identity") \/ pc = "identity" =>
        (turn.pass = wantGen => CoveredTo(turn.after))
    /\ pc = "scanned" =>
        /\ page \subseteq 1..ids /\ (~turn.reached => page # {})
        /\ turn.pass = wantGen =>
            CoveredTo(IF turn.reached THEN bumpIds ELSE Max(page \cup {turn.after}))

\* The runner blocks only with nothing to do but what the timer will bring.
WaitInv ==
    pc = "wait" /\ ~wake => ~active /\ ~identityPending /\ (pending > 0 => timer)

AggregationInd ==
    /\ AggTypes
    /\ SnapInv /\ PageInv /\ CountedOnce
    /\ ReachedInv /\ StartInv /\ LoadedInv /\ AnnouncedIsTargeted
    /\ IdentityInv /\ IdentityCountedOnce /\ ArchivedIsCounted
    /\ ScanInv /\ WaitInv

\* The bounds of what is kept, which most steps need and no more.
LEMMA Bounds ==
    ASSUME AggTypes
    PROVE  /\ top \in Nat /\ ids \in Nat /\ top <= MaxEvent /\ ids <= MaxIdentity
           /\ turn.target \in Nat /\ turn.target <= top /\ turn.after \in Nat /\ turn.after <= ids
           /\ turn.pass \in Nat /\ turn.pass <= wantGen /\ wantGen \in Nat
           /\ turn.kind \in {"rollups", "identity"} /\ turn.active \in BOOLEAN
           /\ turn.shared \in BOOLEAN /\ turn.reached \in BOOLEAN
<1>1. top \in Nat /\ ids \in Nat /\ top <= MaxEvent /\ ids <= MaxIdentity /\ wantGen \in Nat
  BY AggregationAssumption DEF AggTypes, DbOK, MemOK
<1>2. turn \in Turns /\ turn.target <= top /\ turn.after <= ids /\ turn.pass <= wantGen
  BY DEF AggTypes, TurnOK
<1> QED
  BY <1>1, <1>2 DEF Turns

(***************************************************************************)
(* What Max picks in each step.                                            *)
(***************************************************************************)
\* The largest id the start can read.
LEMMA StartMax ==
    ASSUME AggTypes
    PROVE  Max(hot \cup {0}) \in 0..top /\ \A e \in hot : e <= Max(hot \cup {0})
<1>1. top \in Nat /\ hot \cup {0} \in SUBSET (0..top) /\ hot \cup {0} # {}
  BY DEF AggTypes, DbOK, MemOK
<1>2. Max(hot \cup {0}) \in hot \cup {0} /\ \A e \in hot \cup {0} : e <= Max(hot \cup {0})
  BY <1>1, MaxOfBounded
<1> QED
  BY <1>1, <1>2

\* A notification raises the window to the last event.
LEMMA NotifyMax == ASSUME AggTypes PROVE Max({pending, top}) = top
<1>1. top \in Nat /\ {pending, top} \in SUBSET (0..top) /\ {pending, top} # {}
  BY DEF AggTypes, DbOK, MemOK
<1>2. Max({pending, top}) \in {pending, top} /\ \A n \in {pending, top} : n <= Max({pending, top})
  BY <1>1, MaxOfBounded
<1> QED
  BY <1>1, <1>2

\* The last event of the page.
LEMMA PageMax ==
    ASSUME AggTypes, PageInv, pc \in {"guard", "apply"}
    PROVE  Max(page) \in page /\ Max(page) \in 1..top /\ \A e \in page : e <= Max(page)
<1>1. top \in Nat /\ page \subseteq 1..top /\ page # {}
  BY DEF AggTypes, DbOK, MemOK, PageInv
<1>2. page \in SUBSET (0..top)
  BY <1>1
<1> QED
  BY <1>1, <1>2, MaxOfBounded

\* The last event an identity has still to count.
LEMMA DeltaMax ==
    ASSUME AggTypes, NEW i \in Identities, delta(i) # {}
    PROVE  /\ Max(delta(i)) \in delta(i) /\ Max(delta(i)) \in 1..top
           /\ \A e \in delta(i) : e <= Max(delta(i))
<1>1. top \in Nat /\ hot \subseteq 1..top
  BY AggregationAssumption DEF AggTypes, DbOK
<1>2. delta(i) \subseteq hot
  BY DEF delta
<1>3. ASSUME NEW e \in delta(i) PROVE e \in 0..top
  <2>1. e \in hot
    BY <1>2
  <2> QED
    BY <1>1, <2>1
<1>4. Max(delta(i)) \in delta(i) /\ \A e \in delta(i) : e <= Max(delta(i))
  BY <1>1, <1>3, MaxOfBounded
<1> QED
  BY <1>1, <1>2, <1>4

\* The last identity of the scan's page.
LEMMA ScanMax ==
    ASSUME AggTypes, ScanInv, pc = "scanned"
    PROVE  /\ Max(page \cup {turn.after}) \in page \cup {turn.after}
           /\ Max(page \cup {turn.after}) \in 0..ids
           /\ \A i \in page \cup {turn.after} : i <= Max(page \cup {turn.after})
<1>1. ids \in Nat /\ page \subseteq 1..ids /\ turn.after \in 0..ids
  BY AggregationAssumption DEF AggTypes, DbOK, TurnOK, Turns, ScanInv
<1>2. \A i \in page : i \in 0..ids
  BY <1>1
<1>3. page \cup {turn.after} \in SUBSET (0..ids) /\ page \cup {turn.after} # {}
  BY <1>1, <1>2
<1> QED
  BY <1>1, <1>3, MaxOfBounded

\* The actions that change the database.
LEMMA DbFrame ==
    ASSUME [Next]_vars
    PROVE  \/ (\E n \in 1..2 : Commit(n))
           \/ (\E notify \in BOOLEAN : SyncIdentities(notify))
           \/ (\E S \in SUBSET hot : Archive(S)) \/ Apply \/ AggregateIdentities
           \/ UNCHANGED dbVars
BY DEF vars, Next, Database, Loop, RollupsTurn, NotifyCommitted, LoadStartTarget,
   EnsureStartTarget, LoopTop, TimerFires, TakeWake, RetryFires, BeginTurn, AfterFailure,
   InboxFree, InboxBusy, TurnFails, LoadSnapshot, LoadPage, LoadPageFails, SkipRollup,
   GuardFree, GuardBusy, ApplyFails, RollupsDone, FinishRollups, FinishIdentities, Crash

\* The actions that change the runner's memory.
LEMMA MemFrame ==
    ASSUME [Next]_vars
    PROVE  \/ NotifyCommitted \/ (\E notify \in BOOLEAN : SyncIdentities(notify))
           \/ EnsureStartTarget \/ TimerFires \/ AfterFailure \/ FinishRollups
           \/ FinishIdentities \/ Crash
           \/ UNCHANGED memVars
BY DEF vars, Next, Database, Loop, RollupsTurn, Commit, Archive, LoadStartTarget, LoopTop,
   TakeWake, RetryFires, BeginTurn, InboxFree, InboxBusy, TurnFails, LoadSnapshot, LoadPage,
   LoadPageFails, SkipRollup, GuardFree, GuardBusy, Apply, ApplyFails, RollupsDone,
   AggregateIdentities

\* The actions that change what was announced.
LEMMA SaidFrame ==
    ASSUME [Next]_vars
    PROVE  \/ (\E n \in 1..2 : Commit(n)) \/ NotifyCommitted
           \/ (\E notify \in BOOLEAN : SyncIdentities(notify)) \/ Crash
           \/ UNCHANGED saidVars
BY DEF vars, Next, Database, Loop, RollupsTurn, Archive, LoadStartTarget, EnsureStartTarget,
   LoopTop, TimerFires, TakeWake, RetryFires, BeginTurn, AfterFailure, InboxFree, InboxBusy,
   TurnFails, LoadSnapshot, LoadPage, LoadPageFails, SkipRollup, GuardFree, GuardBusy, Apply,
   ApplyFails, RollupsDone, FinishRollups, AggregateIdentities, FinishIdentities

\* The actions that change the turn.
LEMMA TurnFrame ==
    ASSUME [Next]_vars
    PROVE  \/ LoadStartTarget \/ EnsureStartTarget \/ BeginTurn \/ AfterFailure
           \/ InboxBusy \/ LoadSnapshot \/ LoadPage \/ LoadPageFails
           \/ SkipRollup \/ Apply \/ ApplyFails \/ RollupsDone \/ FinishRollups
           \/ AggregateIdentities \/ FinishIdentities \/ Crash
           \/ UNCHANGED turnVars
BY DEF vars, Next, Database, Loop, RollupsTurn, Commit, SyncIdentities, Archive,
   NotifyCommitted, LoopTop, TimerFires, TakeWake, RetryFires, InboxFree, TurnFails,
   GuardFree, GuardBusy

\* Events and identities are never taken back.
LEMMA Grows ==
    ASSUME AggTypes, [Next]_vars
    PROVE  top' \in Nat /\ ids' \in Nat /\ top <= top' /\ ids <= ids'
<1> USE Bounds DEF dbVars
<1>1. ASSUME NEW n \in 1..2, Commit(n) PROVE top' = top + n /\ ids' = ids
  BY <1>1 DEF Commit
<1>2. ASSUME NEW notify \in BOOLEAN, SyncIdentities(notify) PROVE top' = top /\ ids' = ids + 1
  BY <1>2 DEF SyncIdentities
<1>3. ASSUME NEW S \in SUBSET hot, Archive(S) PROVE top' = top /\ ids' = ids
  BY <1>3 DEF Archive
<1>4. ASSUME Apply PROVE top' = top /\ ids' = ids
  BY <1>4 DEF Apply
<1>5. ASSUME AggregateIdentities PROVE top' = top /\ ids' = ids
  BY <1>5 DEF AggregateIdentities
<1> QED
  BY <1>1, <1>2, <1>3, <1>4, <1>5, DbFrame

\* The database keeps its types; events and identities only come.
LEMMA DbStep ==
    ASSUME AggTypes, SnapInv, PageInv, [Next]_vars
    PROVE  DbOK'
<1> USE DEF dbVars, memVars, turnVars, saidVars
<1>1. ASSUME NEW n \in 1..2, Commit(n) PROVE DbOK'
  BY <1>1 DEF Commit, AggTypes, DbOK
<1>2. ASSUME NEW notify \in BOOLEAN, SyncIdentities(notify) PROVE DbOK'
  <2>1. ids' \in 0..MaxIdentity /\ ids + 1 \in Identities
    <3>1. ids < MaxIdentity /\ ids' = ids + 1
      BY <1>2 DEF SyncIdentities
    <3> QED
      BY <3>1, Bounds, AggregationAssumption DEF Identities
  <2>2. missed' \in [Identities -> SUBSET (1..top)]
    BY <1>2, <2>1 DEF SyncIdentities, AggTypes, DbOK
  <2> QED
    BY <1>2, <2>1, <2>2 DEF SyncIdentities, AggTypes, DbOK
<1>3. ASSUME NEW S \in SUBSET hot, Archive(S) PROVE DbOK'
  BY <1>3 DEF Archive, caughtUp, pendingIdentity, AggTypes, DbOK
<1>4. ASSUME Apply PROVE DbOK'
  <2>1. at \in Rollups /\ Max(page) \in 0..top
    BY <1>4, PageMax, Bounds DEF Apply, SnapInv
  <2>2. cursor' \in [Rollups -> 0..top]
    BY <1>4, <2>1 DEF Apply, AggTypes, DbOK
  <2>3. counts' \in [Rollups -> [Events -> Nat]]
    <3>1. counts \in [Rollups -> [Events -> Nat]]
      BY DEF AggTypes, DbOK
    <3>2. [e \in Events |-> IF e \in page THEN counts[at][e] + 1 ELSE counts[at][e]]
            \in [Events -> Nat]
      BY <2>1, <3>1
    <3> QED
      BY <1>4, <2>1, <3>1, <3>2 DEF Apply
  <2> QED
    BY <1>4, <2>2, <2>3 DEF Apply, AggTypes, DbOK
<1>5. ASSUME AggregateIdentities PROVE DbOK'
  BY <1>5, DeltaMax DEF AggregateIdentities, identityRows, AggTypes, DbOK
<1>6. CASE UNCHANGED dbVars
  BY <1>6 DEF AggTypes, DbOK
<1> QED
  BY <1>1, <1>2, <1>3, <1>4, <1>5, <1>6, DbFrame

\* The memory keeps its types.
LEMMA MemStep ==
    ASSUME AggTypes, ScanInv, [Next]_vars
    PROVE  MemOK'
<1> USE DEF dbVars, memVars, turnVars, saidVars
<1>1. ASSUME NotifyCommitted PROVE MemOK'
  <2>1. pending' = top /\ wantGen' = wantGen + 1
        /\ UNCHANGED <<target, idAfter, scanGen, top, ids>>
    BY <1>1, NotifyMax DEF NotifyCommitted, raiseGeneration
  <2> QED
    BY <2>1, Bounds DEF AggTypes, MemOK
<1>2. ASSUME NEW notify \in BOOLEAN, SyncIdentities(notify) PROVE MemOK'
  BY <1>2, Grows, Bounds DEF SyncIdentities, AggTypes, MemOK
<1>3. ASSUME EnsureStartTarget PROVE MemOK'
  <2>1. target' = turn.target /\ pending' \in {0, pending}
        /\ UNCHANGED <<idAfter, wantGen, scanGen, top, ids>>
    BY <1>3 DEF EnsureStartTarget
  <2> QED
    BY <2>1, Bounds DEF AggTypes, MemOK
<1>4. ASSUME TimerFires PROVE MemOK'
  <2>1. target' \in {target, pending} /\ pending' = 0
        /\ UNCHANGED <<idAfter, wantGen, scanGen, top, ids>>
    BY <1>4 DEF TimerFires, freezePendingTarget
  <2> QED
    BY <2>1, Bounds DEF AggTypes, MemOK
<1>5. ASSUME AfterFailure PROVE MemOK'
  <2>1. UNCHANGED <<target, pending, idAfter, wantGen, scanGen, top, ids>>
    BY <1>5 DEF AfterFailure
  <2> QED
    BY <2>1, Bounds DEF AggTypes, MemOK
<1>6. ASSUME FinishRollups PROVE MemOK'
  <2>1. target' \in {target, 0} /\ pending' \in {pending, 0}
        /\ UNCHANGED <<idAfter, wantGen, scanGen, top, ids>>
    BY <1>6 DEF FinishRollups, completeRound
  <2> QED
    BY <2>1, Bounds DEF AggTypes, MemOK
<1>7. ASSUME FinishIdentities PROVE MemOK'
  <2>1. /\ idAfter' \in {0, Max(page \cup {turn.after})} /\ scanGen' = turn.pass
        /\ UNCHANGED <<target, pending, wantGen, top, ids>> /\ pc = "scanned"
    BY <1>7 DEF FinishIdentities
  <2> QED
    BY <2>1, Bounds, ScanMax DEF AggTypes, MemOK
<1>8. ASSUME Crash PROVE MemOK'
  <2>1. /\ target' = 0 /\ pending' = 0 /\ idAfter' = 0 /\ wantGen' = 1 /\ scanGen' = 0
        /\ UNCHANGED <<top, ids>>
    BY <1>8 DEF Crash
  <2> QED
    BY <2>1, Bounds DEF AggTypes, MemOK
<1>9. CASE UNCHANGED memVars
  BY <1>9, Grows, Bounds DEF AggTypes, MemOK
<1> QED
  BY <1>1, <1>2, <1>3, <1>4, <1>5, <1>6, <1>7, <1>8, <1>9, MemFrame

\* What was announced keeps its types.
LEMMA SaidStep ==
    ASSUME AggTypes, [Next]_vars
    PROVE  SaidOK'
<1> USE DEF dbVars, memVars, turnVars, saidVars
<1>1. ASSUME NEW n \in 1..2, Commit(n) PROVE SaidOK'
  <2>1. UNCHANGED <<announced, bumpTop, bumpIds>>
    BY <1>1 DEF Commit
  <2> QED
    BY <2>1, Bounds, Grows DEF AggTypes, SaidOK
<1>2. ASSUME NotifyCommitted PROVE SaidOK'
  <2>1. announced' = top /\ bumpTop' = top /\ bumpIds' = ids
        /\ UNCHANGED <<top, ids>>
    BY <1>2 DEF NotifyCommitted, raiseGeneration
  <2> QED
    BY <2>1, Bounds DEF AggTypes, SaidOK
<1>3. ASSUME NEW notify \in BOOLEAN, SyncIdentities(notify) PROVE SaidOK'
  BY <1>3, Bounds, Grows DEF SyncIdentities, AggTypes, SaidOK
<1>4. ASSUME Crash PROVE SaidOK'
  <2>1. announced' = top /\ bumpTop' = top /\ bumpIds' = ids
        /\ UNCHANGED <<top, ids>>
    BY <1>4 DEF Crash
  <2> QED
    BY <2>1, Bounds DEF AggTypes, SaidOK
<1>5. CASE UNCHANGED saidVars
  BY <1>5, Grows, Bounds DEF AggTypes, SaidOK
<1> QED
  BY <1>1, <1>2, <1>3, <1>4, <1>5, SaidFrame

\* The checkpoints that are read, and the events, have the types of the turn.
LEMMA SnapshotOK == ASSUME AggTypes PROVE cursor \in [Rollups -> 0..top]
BY DEF AggTypes, DbOK

\* The hot rows are among the events.
LEMMA HotOK == ASSUME AggTypes PROVE hot \subseteq 1..top
BY DEF AggTypes, DbOK

\* Only a restart takes the generation back.
LEMMA GenerationGrows ==
    ASSUME AggTypes, [Next]_vars, UNCHANGED turnVars
    PROVE  wantGen' \in Nat /\ (wantGen <= wantGen' \/ turn' = noTurn)
<1> USE Bounds DEF memVars
<1>1. ASSUME NotifyCommitted PROVE wantGen' \in Nat /\ wantGen <= wantGen'
  BY <1>1 DEF NotifyCommitted, raiseGeneration
<1>2. ASSUME NEW notify \in BOOLEAN, SyncIdentities(notify)
      PROVE  wantGen' \in Nat /\ wantGen <= wantGen'
  BY <1>2 DEF SyncIdentities
<1>3. ASSUME EnsureStartTarget PROVE wantGen' \in Nat /\ wantGen <= wantGen'
  BY <1>3 DEF EnsureStartTarget
<1>4. ASSUME TimerFires PROVE wantGen' \in Nat /\ wantGen <= wantGen'
  BY <1>4 DEF TimerFires
<1>5. ASSUME AfterFailure PROVE wantGen' \in Nat /\ wantGen <= wantGen'
  BY <1>5 DEF AfterFailure
<1>6. ASSUME FinishRollups PROVE wantGen' \in Nat /\ wantGen <= wantGen'
  BY <1>6 DEF FinishRollups
<1>7. ASSUME FinishIdentities PROVE wantGen' \in Nat /\ wantGen <= wantGen'
  BY <1>7 DEF FinishIdentities
<1>8. ASSUME Crash PROVE wantGen' = 1 /\ turn' = noTurn
  BY <1>8 DEF Crash, turnOver
<1>9. CASE UNCHANGED memVars
  BY <1>9
<1> QED
  BY <1>1, <1>2, <1>3, <1>4, <1>5, <1>6, <1>7, <1>8, <1>9, MemFrame

\* The turn keeps its types.
LEMMA TurnStep ==
    ASSUME AggTypes, SnapInv, PageInv, [Next]_vars
    PROVE  TurnOK'
<1> USE DEF dbVars, memVars, turnVars, saidVars
<1>1. ASSUME LoadStartTarget PROVE TurnOK'
  <2>1. turn' = [turn EXCEPT !.target = Max(hot \cup {0})]
        /\ UNCHANGED <<snap, page, at, top, ids, wantGen>>
    BY <1>1 DEF LoadStartTarget
  <2> QED
    BY <2>1, Bounds, StartMax DEF AggTypes, TurnOK, Turns
<1>2. ASSUME EnsureStartTarget PROVE TurnOK'
  <2>1. turn' = noTurn /\ snap' = noSnap /\ page' = {} /\ at' = 1
        /\ UNCHANGED <<top, ids, wantGen>>
    BY <1>2 DEF EnsureStartTarget, turnOver
  <2> QED
    BY <2>1, Bounds, AggregationAssumption DEF AggTypes, TurnOK, Turns, noTurn, noSnap
<1>3. ASSUME BeginTurn PROVE TurnOK'
  <2>1. /\ turn' \in [kind : {nextRunnableKind}, target : {target}, active : {active}, after : {idAfter},
                     pass : {wantGen, scanGen}, shared : {FALSE}, reached : {FALSE}]
        /\ at' = 1 /\ UNCHANGED <<snap, page, top, ids, wantGen>>
    BY <1>3 DEF BeginTurn
  <2>2. nextRunnableKind \in {"rollups", "identity"} /\ active \in BOOLEAN
    BY DEF nextRunnableKind, AggTypes, FlagsOK
  <2>3. /\ target \in Nat /\ target <= top /\ idAfter \in Nat /\ idAfter <= ids
        /\ wantGen \in Nat /\ scanGen \in Nat /\ scanGen <= wantGen
    BY Bounds DEF AggTypes, MemOK
  <2>4. turn' \in Turns
    BY <2>1, <2>2, <2>3 DEF Turns
  <2>5. turn'.target = target /\ turn'.after = idAfter /\ turn'.pass \in {wantGen, scanGen}
    BY <2>1
  <2>6. turn'.target <= top' /\ turn'.after <= ids' /\ turn'.pass <= wantGen'
    BY <2>1, <2>3, <2>5
  <2> QED
    BY <2>1, <2>4, <2>6, AggregationAssumption DEF AggTypes, TurnOK
<1>4. ASSUME AfterFailure PROVE TurnOK'
  <2>1. turn' = noTurn /\ snap' = noSnap /\ page' = {} /\ at' = 1
        /\ UNCHANGED <<top, ids, wantGen>>
    BY <1>4 DEF AfterFailure, turnOver
  <2> QED
    BY <2>1, Bounds, AggregationAssumption DEF AggTypes, TurnOK, Turns, noTurn, noSnap
<1>5. ASSUME InboxBusy PROVE TurnOK'
  <2>1. turn' = noTurn /\ snap' = noSnap /\ page' = {} /\ at' = 1
        /\ UNCHANGED <<top, ids, wantGen>>
    BY <1>5 DEF InboxBusy, turnOver
  <2> QED
    BY <2>1, Bounds, AggregationAssumption DEF AggTypes, TurnOK, Turns, noTurn, noSnap
<1>6. ASSUME LoadSnapshot PROVE TurnOK'
  <2>1. /\ \/ turn' = [turn EXCEPT !.reached = TRUE]
           \/ turn' = [turn EXCEPT !.shared = \A k \in Rollups : cursor[k] = cursor[1]]
        /\ snap' = cursor /\ UNCHANGED <<page, at, top, ids, wantGen>>
    BY <1>6 DEF LoadSnapshot
  <2>2. turn \in Turns
    BY DEF AggTypes, TurnOK
  <2>3. turn' \in Turns
    BY <2>1, <2>2 DEF Turns
  <2>4. turn'.target = turn.target /\ turn'.after = turn.after /\ turn'.pass = turn.pass
    BY <2>1, <2>2 DEF Turns
  <2> QED
    BY <2>1, <2>3, <2>4, Bounds, SnapshotOK DEF AggTypes, TurnOK
<1>7. ASSUME LoadPage PROVE TurnOK'
  <2>1. page' \subseteq hot /\ UNCHANGED <<turn, snap, at, top, ids, wantGen>>
    BY <1>7 DEF LoadPage, firstPage, beyond
  <2> QED
    BY <2>1, Bounds, HotOK DEF AggTypes, TurnOK, Turns
<1>8. ASSUME LoadPageFails PROVE TurnOK'
  <2>1. at' \in {at, at + 1} /\ at \in Rollups
        /\ UNCHANGED <<turn, snap, page, top, ids, wantGen>>
    BY <1>8 DEF LoadPageFails
  <2> QED
    BY <2>1, Bounds, AggregationAssumption, SMTT(30) DEF AggTypes, TurnOK, Turns, Rollups, SnapInv
<1>9. ASSUME SkipRollup PROVE TurnOK'
  <2>1. at' = at + 1 /\ at \in Rollups /\ UNCHANGED <<turn, snap, page, top, ids, wantGen>>
    BY <1>9 DEF SkipRollup
  <2> QED
    BY <2>1, Bounds, AggregationAssumption DEF AggTypes, TurnOK, Turns, Rollups, SnapInv
<1>10. ASSUME Apply PROVE TurnOK'
  <2>1. at' = at + 1 /\ snap' \in {snap, [snap EXCEPT ![at] = Max(page)]} /\ pc = "apply"
        /\ UNCHANGED <<turn, page, top, ids, wantGen>>
    BY <1>10 DEF Apply, nextRollup
  <2>2. at \in Rollups
    BY <2>1 DEF SnapInv
  <2>3. Max(page) \in 0..top
    BY <2>1, PageMax, Bounds
  <2>4. snap' \in [Rollups -> 0..top]
    BY <2>1, <2>2, <2>3 DEF AggTypes, TurnOK
  <2>5. at' \in 1..(RollupCount + 1)
    BY <2>1, <2>2, AggregationAssumption DEF Rollups
  <2> QED
    BY <2>1, <2>4, <2>5, Bounds DEF AggTypes, TurnOK
<1>11. ASSUME ApplyFails PROVE TurnOK'
  <2>1. at' = at + 1 /\ pc = "apply"
        /\ UNCHANGED <<turn, snap, page, top, ids, wantGen>>
    BY <1>11 DEF ApplyFails, nextRollup
  <2> QED
    BY <2>1, Bounds, AggregationAssumption DEF AggTypes, TurnOK, Turns, Rollups, SnapInv
<1>12. ASSUME RollupsDone PROVE TurnOK'
  <2> DEFINE b == IF turn.shared THEN Max(page) >= turn.target
                  ELSE \A k \in Rollups : snap[k] >= turn.target
  <2>1. turn' = [turn EXCEPT !.reached = b]
    BY <1>12 DEF RollupsDone
  <2>2. b \in BOOLEAN
    <3>1. (Max(page) >= turn.target) \in BOOLEAN
      OBVIOUS
    <3>2. (\A k \in Rollups : snap[k] >= turn.target) \in BOOLEAN
      OBVIOUS
    <3> QED
      BY <3>1, <3>2
  <2>3. UNCHANGED <<snap, page, at, top, ids, wantGen>>
    BY <1>12 DEF RollupsDone
  <2> HIDE DEF b
  <2>4. turn \in Turns
    BY DEF AggTypes, TurnOK
  <2>5. turn' \in Turns
    BY <2>1, <2>2, <2>4 DEF Turns
  <2>6. turn'.target = turn.target /\ turn'.after = turn.after /\ turn'.pass = turn.pass
    BY <2>1, <2>4 DEF Turns
  <2> QED
    BY <2>3, <2>5, <2>6, Bounds DEF AggTypes, TurnOK
<1>13. ASSUME FinishRollups PROVE TurnOK'
  <2>1. turn' = noTurn /\ snap' = noSnap /\ page' = {} /\ at' = 1
        /\ UNCHANGED <<top, ids, wantGen>>
    BY <1>13 DEF FinishRollups, turnOver
  <2> QED
    BY <2>1, Bounds, AggregationAssumption DEF AggTypes, TurnOK, Turns, noTurn, noSnap
<1>14. ASSUME AggregateIdentities PROVE TurnOK'
  <2> DEFINE b == Cardinality(identityRows) < IdentityPage
  <2>1. turn' = [turn EXCEPT !.reached = b]
    BY <1>14 DEF AggregateIdentities
  <2>2. b \in BOOLEAN
    OBVIOUS
  <2>3. page' \subseteq 1..ids /\ UNCHANGED <<snap, at, top, ids, wantGen>>
    BY <1>14 DEF AggregateIdentities, identityRows
  <2> HIDE DEF b
  <2>4. turn \in Turns
    BY DEF AggTypes, TurnOK
  <2>5. turn' \in Turns
    BY <2>1, <2>2, <2>4 DEF Turns
  <2>6. turn'.target = turn.target /\ turn'.after = turn.after /\ turn'.pass = turn.pass
    BY <2>1, <2>4 DEF Turns
  <2> QED
    BY <2>3, <2>5, <2>6, Bounds DEF AggTypes, TurnOK
<1>15. ASSUME FinishIdentities PROVE TurnOK'
  <2>1. turn' = noTurn /\ snap' = noSnap /\ page' = {} /\ at' = 1
        /\ UNCHANGED <<top, ids, wantGen>>
    BY <1>15 DEF FinishIdentities, turnOver
  <2> QED
    BY <2>1, Bounds, AggregationAssumption DEF AggTypes, TurnOK, Turns, noTurn, noSnap
<1>16. ASSUME Crash PROVE TurnOK'
  <2>1. turn' = noTurn /\ snap' = noSnap /\ page' = {} /\ at' = 1
        /\ UNCHANGED <<top, ids>> /\ wantGen' = 1
    BY <1>16 DEF Crash, turnOver
  <2> QED
    BY <2>1, Bounds, AggregationAssumption DEF AggTypes, TurnOK, Turns, noTurn, noSnap
<1>17. CASE UNCHANGED turnVars
  BY <1>17, Grows, Bounds, GenerationGrows DEF AggTypes, TurnOK, noTurn, Turns
<1> QED
  BY <1>1, <1>2, <1>3, <1>4, <1>5, <1>6, <1>7, <1>8, <1>9, <1>10, <1>11, <1>12, <1>13, <1>14,
     <1>15, <1>16, <1>17, TurnFrame

\* The flags keep their types.
LEMMA FlagsStep ==
    ASSUME AggTypes, [Next]_vars
    PROVE  FlagsOK'
<1> USE DEF dbVars, memVars, turnVars, saidVars, Steps
<1>1. ASSUME NEW n \in 1..2, Commit(n) PROVE FlagsOK'
  BY <1>1 DEF Commit, AggTypes, FlagsOK
<1>2. ASSUME NEW notify \in BOOLEAN, SyncIdentities(notify) PROVE FlagsOK'
  BY <1>2, ZenonT(60) DEF SyncIdentities, AggTypes, FlagsOK
<1>3. ASSUME NEW S \in SUBSET hot, Archive(S) PROVE FlagsOK'
  BY <1>3 DEF Archive, caughtUp, pendingIdentity, AggTypes, FlagsOK
<1>4. ASSUME NotifyCommitted PROVE FlagsOK'
  BY <1>4 DEF NotifyCommitted, raiseGeneration, AggTypes, FlagsOK
<1>5. ASSUME LoadStartTarget PROVE FlagsOK'
  BY <1>5 DEF LoadStartTarget, AggTypes, FlagsOK
<1>6. ASSUME EnsureStartTarget PROVE FlagsOK'
  BY <1>6 DEF EnsureStartTarget, turnOver, noTurn, noSnap, AggTypes, FlagsOK
<1>7. ASSUME LoopTop PROVE FlagsOK'
  BY <1>7 DEF LoopTop, runnable, identityPending, AggTypes, FlagsOK
<1>8. ASSUME TimerFires PROVE FlagsOK'
  BY <1>8 DEF TimerFires, freezePendingTarget, AggTypes, FlagsOK
<1>9. ASSUME TakeWake PROVE FlagsOK'
  BY <1>9 DEF TakeWake, AggTypes, FlagsOK
<1>10. ASSUME RetryFires PROVE FlagsOK'
  BY <1>10 DEF RetryFires, AggTypes, FlagsOK
<1>11. ASSUME BeginTurn PROVE FlagsOK'
  BY <1>11 DEF BeginTurn, nextRunnableKind, identityPending, AggTypes, FlagsOK
<1>12. ASSUME AfterFailure PROVE FlagsOK'
  BY <1>12 DEF AfterFailure, turnOver, noTurn, noSnap, AggTypes, FlagsOK
<1>13. ASSUME InboxFree PROVE FlagsOK'
  BY <1>13 DEF InboxFree, AggTypes, FlagsOK
<1>14. ASSUME InboxBusy PROVE FlagsOK'
  BY <1>14 DEF InboxBusy, turnOver, noTurn, noSnap, AggTypes, FlagsOK
<1>15. ASSUME TurnFails PROVE FlagsOK'
  BY <1>15 DEF TurnFails, AggTypes, FlagsOK
<1>16. ASSUME LoadSnapshot PROVE FlagsOK'
  BY <1>16 DEF LoadSnapshot, AggTypes, FlagsOK
<1>17. ASSUME LoadPage PROVE FlagsOK'
  BY <1>17 DEF LoadPage, beyond, AggTypes, FlagsOK
<1>18. ASSUME LoadPageFails PROVE FlagsOK'
  BY <1>18 DEF LoadPageFails, AggTypes, FlagsOK
<1>19. ASSUME SkipRollup PROVE FlagsOK'
  BY <1>19 DEF SkipRollup, AggTypes, FlagsOK
<1>20. ASSUME GuardFree PROVE FlagsOK'
  BY <1>20 DEF GuardFree, AggTypes, FlagsOK
<1>21. ASSUME GuardBusy PROVE FlagsOK'
  BY <1>21 DEF GuardBusy, AggTypes, FlagsOK
<1>22. ASSUME Apply PROVE FlagsOK'
  BY <1>22 DEF Apply, nextRollup, AggTypes, FlagsOK
<1>23. ASSUME ApplyFails PROVE FlagsOK'
  BY <1>23 DEF ApplyFails, nextRollup, AggTypes, FlagsOK
<1>24. ASSUME RollupsDone PROVE FlagsOK'
  BY <1>24 DEF RollupsDone, AggTypes, FlagsOK
<1>25. ASSUME FinishRollups PROVE FlagsOK'
  BY <1>25 DEF FinishRollups, completeRound, turnOver, noTurn, noSnap, AggTypes, FlagsOK
<1>26. ASSUME AggregateIdentities PROVE FlagsOK'
  BY <1>26 DEF AggregateIdentities, identityRows, AggTypes, FlagsOK
<1>27. ASSUME FinishIdentities PROVE FlagsOK'
  BY <1>27 DEF FinishIdentities, turnOver, noTurn, noSnap, AggTypes, FlagsOK
<1>28. ASSUME Crash PROVE FlagsOK'
  BY <1>28 DEF Crash, turnOver, noTurn, noSnap, AggTypes, FlagsOK
<1>29. CASE UNCHANGED vars
  BY <1>29 DEF vars, AggTypes, FlagsOK
<1> QED
  BY <1>1, <1>2, <1>3, <1>4, <1>5, <1>6, <1>7, <1>8, <1>9, <1>10, <1>11, <1>12, <1>13, <1>14,
     <1>15, <1>16, <1>17, <1>18, <1>19, <1>20, <1>21, <1>22, <1>23, <1>24, <1>25, <1>26,
     <1>27, <1>28, <1>29 DEF Next, Database, Loop, RollupsTurn

\* A step keeps every variable in its type.
LEMMA TypeStep == ASSUME AggTypes, SnapInv, PageInv, ScanInv, [Next]_vars PROVE AggTypes'
BY DbStep, MemStep, SaidStep, TurnStep, FlagsStep DEF AggTypes

(***************************************************************************)
(* The rollups.                                                            *)
(***************************************************************************)
Reading == {"inbox", "snapshot", "page", "guard", "apply"}

\* A turn of the rollups goes on by its own steps; meanwhile events are
\* committed and archived.
LEMMA TurnGoesOn ==
    ASSUME [Next]_vars, pc' \in Reading
    PROVE  \/ BeginTurn \/ LoadSnapshot \/ LoadPage \/ LoadPageFails \/ SkipRollup
           \/ GuardFree \/ Apply \/ ApplyFails \/ InboxFree
           \/ (\E n \in 1..2 : Commit(n)) \/ (\E S \in SUBSET hot : Archive(S))
           \/ UNCHANGED <<hot, cursor, turnVars, pc>>
<1> USE DEF dbVars, memVars, turnVars, saidVars, Reading
<1>1. ASSUME NEW notify \in BOOLEAN, SyncIdentities(notify)
      PROVE UNCHANGED <<hot, cursor, turnVars, pc>>
  BY <1>1 DEF SyncIdentities
<1>2. ASSUME NotifyCommitted PROVE UNCHANGED <<hot, cursor, turnVars, pc>>
  BY <1>2 DEF NotifyCommitted
<1>3. CASE UNCHANGED vars
  BY <1>3 DEF vars
<1> QED
  BY <1>1, <1>2, <1>3 DEF Next, Database, Loop, RollupsTurn, LoadStartTarget, EnsureStartTarget,
     LoopTop, TimerFires, TakeWake, RetryFires, AfterFailure, InboxBusy, TurnFails, GuardBusy,
     RollupsDone, FinishRollups, AggregateIdentities, FinishIdentities, Crash

\* What a turn has read stays what it has still to move.
LEMMA SnapStep == ASSUME AggTypes, SnapInv, PageInv, [Next]_vars PROVE SnapInv'
<1> SUFFICES ASSUME pc' \in Reading PROVE SnapInv'
  BY DEF SnapInv, Reading
<1> USE Bounds, AggregationAssumption DEF dbVars, turnVars, Rollups
<1>1. CASE BeginTurn
  BY <1>1 DEF BeginTurn, SnapInv
<1>2. CASE LoadSnapshot
  <2>1. pc' = "page"
    BY <1>2 DEF LoadSnapshot, Reading
  <2>2. /\ turn.active /\ \E k \in Rollups : cursor[k] < turn.target
        /\ turn' = [turn EXCEPT !.shared = \A k \in Rollups : cursor[k] = cursor[1]]
        /\ snap' = cursor /\ cursor' = cursor /\ at' = at
    BY <1>2, <2>1 DEF LoadSnapshot
  <2>3. turn \in Turns
    BY DEF AggTypes, TurnOK
  <2>4. /\ turn'.active /\ turn'.reached = turn.reached /\ turn'.target = turn.target
        /\ turn'.shared => \A k \in Rollups : cursor[k] = cursor[1]
    BY <2>2, <2>3 DEF Turns
  <2>5. at = 1 /\ ~turn.reached
    BY <1>2 DEF LoadSnapshot, SnapInv
  <2>6. turn'.shared => snap'[1] < turn'.target
    BY <2>2, <2>4
  <2> QED
    BY <2>1, <2>2, <2>4, <2>5, <2>6 DEF SnapInv
<1>3. CASE LoadPage
  BY <1>3 DEF LoadPage, SnapInv
<1>4. CASE LoadPageFails
  BY <1>4 DEF LoadPageFails, SnapInv, Reading
<1>5. CASE SkipRollup
  <2>1. /\ pc = "page" /\ pc' = "page" /\ at \in Rollups /\ snap[at] >= turn.target
        /\ UNCHANGED <<cursor, turn, snap>>
    BY <1>5 DEF SkipRollup
  <2>2. snap[at] \in Int /\ turn.target \in Int
    BY <2>1 DEF AggTypes, TurnOK
  <2>3. ~turn.shared
    BY <2>1, <2>2 DEF SnapInv
  <2>4. turn.active /\ ~turn.reached /\ \A k \in Rollups : cursor[k] = snap[k]
    BY <2>1, <2>3 DEF SnapInv
  <2> QED
    BY <2>1, <2>3, <2>4 DEF SnapInv
<1>6. CASE GuardFree
  BY <1>6 DEF GuardFree, SnapInv
<1>7. CASE Apply
  <2>1. at \in Rollups /\ Max(page) \in Nat
    BY <1>7, PageMax DEF Apply, SnapInv
  <2>2. cursor \in [Rollups -> 0..top] /\ snap \in [Rollups -> 0..top]
    BY DEF AggTypes, DbOK, TurnOK
  <2>3. cursor' = [cursor EXCEPT ![at] = Max(page)] /\ at' = at + 1 /\ turn' = turn
    BY <1>7 DEF Apply, nextRollup
  <2>4. CASE turn.shared
    <3>1. snap' = snap /\ pc' = "guard"
      BY <1>7, <2>4 DEF Apply, nextRollup
    <3> QED
      BY <1>7, <2>1, <2>2, <2>3, <2>4, <3>1 DEF Apply, SnapInv
  <2>5. CASE ~turn.shared
    <3>1. snap' = [snap EXCEPT ![at] = Max(page)] /\ pc' = "page"
      BY <1>7, <2>5 DEF Apply, nextRollup
    <3>2. \A k \in Rollups : cursor'[k] = snap'[k]
      BY <1>7, <2>1, <2>2, <2>3, <2>5, <3>1 DEF Apply, SnapInv
    <3> QED
      BY <1>7, <2>3, <2>5, <3>1, <3>2 DEF Apply, SnapInv
  <2> QED
    BY <2>4, <2>5
<1>8. CASE ApplyFails
  BY <1>8 DEF ApplyFails, nextRollup, SnapInv
<1>9. CASE InboxFree
  BY <1>9 DEF InboxFree, SnapInv, Reading
<1>10. ASSUME NEW n \in 1..2, Commit(n) PROVE SnapInv'
  BY <1>10 DEF Commit, SnapInv
<1>11. ASSUME NEW S \in SUBSET hot, Archive(S) PROVE SnapInv'
  BY <1>11 DEF Archive, SnapInv
<1>12. CASE UNCHANGED <<hot, cursor, turnVars, pc>>
  BY <1>12 DEF SnapInv
<1> QED
  BY <1>1, <1>2, <1>3, <1>4, <1>5, <1>6, <1>7, <1>8, <1>9, <1>10, <1>11, <1>12, TurnGoesOn

\* The page keeps the next events of the rollup it is for: while that rollup
\* is behind, the archive stands still.
LEMMA PageStep == ASSUME AggTypes, SnapInv, PageInv, [Next]_vars PROVE PageInv'
<1> SUFFICES ASSUME pc' \in {"guard", "apply"} PROVE PageInv'
  BY DEF PageInv
<1> USE DEF dbVars, turnVars
<1>1. CASE LoadPage
  <2>1. /\ pc' = "guard" /\ at \in Rollups /\ beyond(at) # {} /\ page' = firstPage(beyond(at))
        /\ UNCHANGED <<hot, top, cursor, turn, snap, at, errs>>
    BY <1>1 DEF LoadPage
  <2>2. hot \subseteq 1..top /\ top \in Nat
    BY Bounds DEF AggTypes, DbOK
  <2>3. beyond(at) \subseteq hot
    BY DEF beyond
  <2>4. beyond(at) \in SUBSET (1..top)
    BY <2>2, <2>3
  <2>5. /\ page' \subseteq beyond(at) /\ page' # {}
        /\ \A e \in page' : \A f \in beyond(at) : f < e => f \in page'
    BY <2>1, <2>2, <2>4, FirstPage
  <2>6. \A e \in page' : snap[at] < e /\ e <= turn.target /\ e \in hot
    BY <2>5 DEF beyond
  <2>7. ASSUME NEW e \in hot, snap[at] < e, NEW f \in page', e <= f PROVE e \in page'
    <3>1. f \in hot /\ f <= turn.target /\ turn.target \in Int
      BY <2>6, <2>7, Bounds
    <3>2. e \in Int /\ f \in Int
      BY <2>2, <2>7, <3>1
    <3>3. e <= turn.target
      BY <2>7, <3>1, <3>2
    <3>4. e \in beyond(at)
      BY <2>7, <3>3 DEF beyond
    <3>5. e < f \/ e = f
      BY <2>7, <3>2
    <3> QED
      BY <2>5, <2>7, <3>4, <3>5
  <2>8. turn.shared => at = 1
    BY <1>1 DEF LoadPage, SnapInv
  <2> QED
    BY <2>1, <2>2, <2>4, <2>5, <2>6, <2>7, <2>8 DEF PageInv, Rollups
<1>2. CASE GuardFree
  BY <1>2 DEF GuardFree, PageInv
<1>3. CASE Apply
  <2>1. /\ pc' = "guard" /\ turn.shared /\ at' = at + 1 /\ cursor' = [cursor EXCEPT ![at] = Max(page)]
        /\ UNCHANGED <<hot, top, turn, snap, page, errs>>
    BY <1>3 DEF Apply, nextRollup
  <2>2. at \in Rollups /\ at \in Nat /\ cursor \in [Rollups -> 0..top]
    BY <1>3 DEF Apply, SnapInv, AggTypes, DbOK, Rollups
  <2>3. page \subseteq 1..top /\ page # {} /\ page \subseteq hot
    BY <1>3, <2>2 DEF Apply, PageInv
  <2>4. at' \in Rollups => snap[at'] = snap[at]
    BY <1>3, <2>1, <2>2 DEF Apply, SnapInv
  <2>5. /\ \A e \in page : snap[at] < e
        /\ \A e \in hot : snap[at] < e /\ (\E f \in page : e <= f) => e \in page
    BY <1>3, <2>2 DEF Apply, PageInv
  <2>6. ASSUME ~errs, NEW k \in Rollups, k < at' PROVE cursor'[k] = Max(page)
    <3>1. k = at \/ k < at
      BY <2>1, <2>2, <2>6 DEF Rollups
    <3> QED
      BY <1>3, <2>1, <2>2, <2>6, <3>1 DEF Apply, PageInv
  <2> QED
    BY <2>1, <2>3, <2>4, <2>5, <2>6 DEF PageInv
<1>4. CASE ApplyFails
  <2>1. /\ pc' = "guard" /\ turn.shared /\ at' = at + 1 /\ errs' = TRUE
        /\ UNCHANGED <<hot, top, cursor, turn, snap, page>>
    BY <1>4 DEF ApplyFails, nextRollup
  <2>2. at \in Rollups
    BY <1>4 DEF ApplyFails, SnapInv
  <2>3. at' \in Rollups => snap[at'] = snap[at]
    BY <1>4, <2>1, <2>2 DEF ApplyFails, SnapInv
  <2> QED
    BY <1>4, <2>1, <2>2, <2>3 DEF ApplyFails, PageInv
<1>5. ASSUME NEW n \in 1..2, Commit(n) PROVE PageInv'
  <2>1. /\ hot' = hot \cup (top + 1)..(top + n) /\ top' = top + n
        /\ UNCHANGED <<cursor, turn, snap, page, at, errs, pc>>
    BY <1>5 DEF Commit
  <2>2. pc \in {"guard", "apply"} /\ page \subseteq 1..top /\ page # {} /\ top \in Nat
    BY <2>1, Bounds DEF PageInv
  <2>3. page \subseteq 1..top'
    BY <2>1, <2>2
  <2>4. ASSUME at \in Rollups, NEW e \in hot', snap[at] < e, NEW f \in page, e <= f
        PROVE  e \in page
    <3>1. f \in Int /\ f <= top
      BY <2>2
    <3>2. e \in hot
      BY <2>1, <2>2, <2>4, <3>1
    <3> QED
      BY <2>2, <2>4, <3>2 DEF PageInv
  <2> QED
    BY <2>1, <2>2, <2>3, <2>4 DEF PageInv
<1>6. ASSUME NEW S \in SUBSET hot, Archive(S) PROVE PageInv'
  <2>1. /\ caughtUp /\ hot' = hot \ S
        /\ UNCHANGED <<top, cursor, turn, snap, page, at, errs, pc>>
    BY <1>6 DEF Archive
  <2>2. pc \in {"guard", "apply"} /\ page # {}
    BY <2>1 DEF PageInv
  <2>3. ASSUME at \in Rollups PROVE FALSE
    <3>1. PICK e \in page : e \in hot /\ snap[at] < e
      BY <2>2, <2>3 DEF PageInv
    <3>2. cursor[at] = snap[at] /\ cursor[at] \in Int /\ e \in Int
      BY <2>2, <2>3, <3>1 DEF SnapInv, AggTypes, DbOK, Rollups
    <3> QED
      BY <2>1, <2>3, <3>1, <3>2 DEF caughtUp
  <2> QED
    BY <2>1, <2>2, <2>3 DEF PageInv
<1>7. CASE UNCHANGED <<hot, cursor, turnVars, pc>>
  <2>1. top <= top' /\ top \in Nat /\ top' \in Nat
    BY Grows, Bounds
  <2>2. page \subseteq 1..top
    BY <1>7 DEF PageInv
  <2>3. page' \subseteq 1..top'
    BY <1>7, <2>1, <2>2
  <2> QED
    BY <1>7, <2>3 DEF PageInv
<1> QED
  BY <1>1, <1>2, <1>3, <1>4, <1>5, <1>6, <1>7, TurnGoesOn DEF Reading, BeginTurn, LoadSnapshot,
     LoadPageFails, SkipRollup, InboxFree

\* No checkpoint goes back.
LEMMA CursorGrows ==
    ASSUME AggTypes, SnapInv, PageInv, [Next]_vars
    PROVE  \A k \in Rollups : cursor[k] \in Nat /\ cursor'[k] \in Nat /\ cursor[k] <= cursor'[k]
<1>1. cursor \in [Rollups -> 0..top] /\ top \in Nat
  BY Bounds DEF AggTypes, DbOK
<1>2. \A k \in Rollups : cursor[k] \in Nat
  BY <1>1
<1>3. CASE Apply
  <2>1. at \in Rollups /\ cursor[at] = snap[at] /\ cursor' = [cursor EXCEPT ![at] = Max(page)]
    BY <1>3 DEF Apply, SnapInv
  <2>2. Max(page) \in Nat /\ snap[at] < Max(page)
    BY <1>3, <2>1, PageMax DEF Apply, PageInv
  <2> QED
    BY <1>1, <1>2, <2>1, <2>2
<1>4. CASE UNCHANGED cursor
  BY <1>2, <1>4
<1> QED
  BY <1>3, <1>4, DbFrame DEF dbVars, Commit, SyncIdentities, Archive, AggregateIdentities

\* A page is counted whole, once, with the checkpoint that passes it.
LEMMA CountedStep ==
    ASSUME AggTypes, SnapInv, PageInv, CountedOnce, ArchivedIsCounted, [Next]_vars
    PROVE  CountedOnce'
<1>1. CASE Apply
  <2>1. /\ at \in Rollups /\ cursor[at] = snap[at]
        /\ cursor' = [cursor EXCEPT ![at] = Max(page)]
        /\ counts' = [counts EXCEPT ![at] = [e \in Events |-> IF e \in page THEN @[e] + 1 ELSE @[e]]]
    BY <1>1 DEF Apply, SnapInv
  <2>2. /\ cursor \in [Rollups -> 0..top] /\ counts \in [Rollups -> [Events -> Nat]]
        /\ top \in Nat /\ top <= MaxEvent /\ hot \subseteq 1..top
    BY Bounds DEF AggTypes, DbOK
  <2>3. Max(page) \in page /\ Max(page) \in 1..top /\ \A e \in page : e <= Max(page)
    BY <1>1, PageMax DEF Apply
  <2>4. /\ \A e \in page : snap[at] < e
        /\ \A e \in hot : snap[at] < e /\ (\E f \in page : e <= f) => e \in page
    BY <1>1, <2>1 DEF Apply, PageInv
  <2> SUFFICES ASSUME NEW k \in Rollups, NEW e \in Events
               PROVE counts'[k][e] = IF e <= cursor'[k] THEN 1 ELSE 0
    BY DEF CountedOnce
  <2>5. counts[k][e] = IF e <= cursor[k] THEN 1 ELSE 0
    BY DEF CountedOnce
  <2>6. CASE k # at
    BY <2>1, <2>2, <2>5, <2>6
  <2>7. CASE k = at
    <3>1. cursor'[k] = Max(page) /\ counts'[k][e] = IF e \in page THEN counts[k][e] + 1 ELSE counts[k][e]
      BY <2>1, <2>2, <2>7
    <3>2. e \in Int /\ cursor[at] \in Int /\ cursor[at] < Max(page)
      BY <2>1, <2>2, <2>3, <2>4 DEF Events
    <3>3. CASE e \in page
      BY <2>1, <2>3, <2>4, <2>5, <2>7, <3>1, <3>2, <3>3
    <3>4. CASE e \notin page /\ e <= cursor[at]
      BY <2>3, <2>5, <2>7, <3>1, <3>2, <3>4
    <3>5. CASE e \notin page /\ e > cursor[at]
      <4>1. ASSUME e <= Max(page) PROVE FALSE
        <5>1. e \in hot => e \in page
          BY <2>1, <2>3, <2>4, <3>2, <3>5, <4>1
        <5>2. e \in 1..top
          BY <2>2, <2>3, <3>2, <4>1 DEF Events
        <5>3. counts[at][e] = 1
          BY <2>1, <3>5, <5>1, <5>2 DEF ArchivedIsCounted
        <5> QED
          BY <2>5, <2>7, <3>2, <3>5, <5>3
      <4> QED
        BY <2>5, <2>7, <3>1, <3>2, <3>5, <4>1, <2>3
    <3> QED
      BY <3>2, <3>3, <3>4, <3>5
  <2> QED
    BY <2>6, <2>7
<1>2. CASE UNCHANGED <<counts, cursor>>
  BY <1>2 DEF CountedOnce
<1> QED
  BY <1>1, <1>2, DbFrame DEF dbVars, Commit, SyncIdentities, Archive, AggregateIdentities

(***************************************************************************)
(* The archive and the identities.                                         *)
(***************************************************************************)
\* The archive waits for every rollup and every identity, so what is counted
\* stays counted when it has left the table.
LEMMA ArchivedStep ==
    ASSUME AggTypes, SnapInv, PageInv, CountedOnce, IdentityCountedOnce, ArchivedIsCounted,
           [Next]_vars
    PROVE  ArchivedIsCounted'
<1> USE Bounds DEF dbVars
<1>1. ASSUME NEW n \in 1..2, Commit(n) PROVE ArchivedIsCounted'
  <2>1. /\ top' = top + n /\ hot' = hot \cup (top + 1)..(top + n)
        /\ UNCHANGED <<owner, counts, ids, idCounts, missed>>
    BY <1>1 DEF Commit
  <2>2. ASSUME NEW e \in 1..top', e \notin hot' PROVE e \in 1..top /\ e \notin hot
    BY <2>1, <2>2
  <2> QED
    BY <2>1, <2>2 DEF ArchivedIsCounted
<1>2. ASSUME NEW notify \in BOOLEAN, SyncIdentities(notify) PROVE ArchivedIsCounted'
  <2>1. /\ ids < MaxIdentity /\ ids' = ids + 1
        /\ missed' = [missed EXCEPT ![ids + 1] = {e \in 1..top : e \notin hot}]
        /\ UNCHANGED <<owner, top, hot, counts, idCounts>>
    BY <1>2 DEF SyncIdentities
  <2>2. missed \in [Identities -> SUBSET (1..top)] /\ ids + 1 \in Identities
    BY <2>1, AggregationAssumption DEF AggTypes, DbOK, Identities
  <2>3. ASSUME NEW e \in 1..top, e \notin hot, NEW i \in 1..ids', owner[e] = i
        PROVE  idCounts[i][e] = 1 \/ e \in missed'[i]
    <3>1. CASE i = ids + 1
      BY <2>1, <2>2, <2>3, <3>1
    <3>2. CASE i # ids + 1
      <4>1. i \in 1..ids /\ i \in Identities
        BY <2>1, <3>2, AggregationAssumption DEF Identities
      <4>2. idCounts[i][e] = 1 \/ e \in missed[i]
        BY <2>3, <4>1 DEF ArchivedIsCounted
      <4> QED
        BY <2>1, <2>2, <3>2, <4>1, <4>2
    <3> QED
      BY <3>1, <3>2
  <2> QED
    BY <2>1, <2>3 DEF ArchivedIsCounted
<1>3. ASSUME NEW S \in SUBSET hot, Archive(S) PROVE ArchivedIsCounted'
  <2>1. /\ caughtUp /\ hot' = hot \ S
        /\ UNCHANGED <<owner, top, counts, ids, idCounts, missed>>
    BY <1>3 DEF Archive
  <2>2. hot \subseteq 1..top
    BY HotOK
  <2>3. ASSUME NEW e \in hot, NEW k \in Rollups PROVE counts[k][e] = 1
    <3>1. e \in Events /\ e <= cursor[k]
      BY <2>1, <2>2, AggregationAssumption DEF caughtUp, Events
    <3> QED
      BY <3>1 DEF CountedOnce
  <2>4. ASSUME NEW e \in hot, NEW i \in 1..ids, owner[e] = i
        PROVE  idCounts[i][e] = 1 \/ e \in missed[i]
    <3>1. ~ (e > idCursor[i])
      BY <2>1, <2>4 DEF caughtUp, pendingIdentity
    <3>2. idCursor[i] \in Int /\ e \in Int /\ e \in 1..top
      BY <2>2, AggregationAssumption DEF AggTypes, DbOK, Identities
    <3>3. e <= idCursor[i]
      BY <3>1, <3>2
    <3> QED
      BY <2>4, <3>2, <3>3 DEF IdentityCountedOnce
  <2> QED
    BY <2>1, <2>3, <2>4 DEF ArchivedIsCounted
<1>4. CASE Apply
  <2>1. /\ counts' = [counts EXCEPT ![at] =
                        [e \in Events |-> IF e \in page THEN @[e] + 1 ELSE @[e]]]
        /\ UNCHANGED <<owner, top, hot, ids, idCounts, missed>>
    BY <1>4 DEF Apply
  <2>2. page \subseteq hot
    BY <1>4 DEF Apply, SnapInv, PageInv
  <2>3. counts \in [Rollups -> [Events -> Nat]]
    BY DEF AggTypes, DbOK
  <2>4. ASSUME NEW k \in Rollups, NEW e \in 1..top, e \notin hot
        PROVE  counts'[k][e] = counts[k][e]
    <3>1. e \in Events /\ e \notin page
      BY <2>2, <2>4, AggregationAssumption DEF Events
    <3> QED
      BY <2>1, <2>3, <3>1
  <2> QED
    BY <2>1, <2>4 DEF ArchivedIsCounted
<1>5. CASE AggregateIdentities
  <2>1. /\ idCounts' = [i \in Identities |-> [e \in Events |->
                         IF i \in identityRows /\ e \in delta(i)
                         THEN idCounts[i][e] + 1 ELSE idCounts[i][e]]]
        /\ UNCHANGED <<owner, top, hot, counts, ids, missed>>
    BY <1>5 DEF AggregateIdentities
  <2>2. 1..top \subseteq Events /\ 1..ids \subseteq Identities
    BY AggregationAssumption DEF Events, Identities
  <2>3. ASSUME NEW i \in 1..ids, NEW e \in 1..top, e \notin hot
        PROVE  idCounts'[i][e] = idCounts[i][e]
    <3>1. e \notin delta(i) /\ e \in Events /\ i \in Identities
      BY <2>2, <2>3 DEF delta
    <3> QED
      BY <2>1, <3>1
  <2> QED
    <3> SUFFICES ASSUME NEW e \in 1..top, e \notin hot
                 PROVE  /\ \A k \in Rollups : counts[k][e] = 1
                        /\ \A i \in 1..ids :
                             owner[e] = i => idCounts'[i][e] = 1 \/ e \in missed[i]
      BY <2>1 DEF ArchivedIsCounted
    <3>1. /\ \A k \in Rollups : counts[k][e] = 1
          /\ \A i \in 1..ids : owner[e] = i => idCounts[i][e] = 1 \/ e \in missed[i]
      BY DEF ArchivedIsCounted
    <3> QED
      BY <2>3, <3>1
<1>6. CASE UNCHANGED dbVars
  BY <1>6 DEF ArchivedIsCounted
<1> QED
  BY <1>1, <1>2, <1>3, <1>4, <1>5, <1>6, DbFrame

\* What an aggregation of the identities leaves and changes.
LEMMA AggregateEffect ==
    ASSUME AggTypes, AggregateIdentities, NEW i \in Identities
    PROVE  /\ UNCHANGED <<owner, top, hot, ids, missed>>
           /\ idCursor[i] \in 0..top
           /\ \A e \in Events : idCounts'[i][e] = IF i \in identityRows /\ e \in delta(i)
                                                  THEN idCounts[i][e] + 1 ELSE idCounts[i][e]
           /\ idCursor'[i] = IF i \in identityRows /\ delta(i) # {}
                             THEN Max(delta(i)) ELSE idCursor[i]
           /\ identityRows \subseteq 1..ids
<1>1. /\ UNCHANGED <<owner, top, hot, ids, missed>>
      /\ idCounts' = [j \in Identities |-> [e \in Events |->
                       IF j \in identityRows /\ e \in delta(j)
                       THEN idCounts[j][e] + 1 ELSE idCounts[j][e]]]
      /\ idCursor' = [j \in Identities |-> IF j \in identityRows /\ delta(j) # {}
                                           THEN Max(delta(j)) ELSE idCursor[j]]
  BY DEF AggregateIdentities
<1>2. idCursor[i] \in 0..top /\ identityRows \subseteq 1..ids
  BY DEF AggTypes, DbOK, identityRows
<1> QED
  BY <1>1, <1>2

\* An identity that is still to appear has no totals, and none knows of an
\* event before it is committed.
LEMMA IdentityStep ==
    ASSUME AggTypes, IdentityInv, [Next]_vars
    PROVE  IdentityInv'
<1> USE Bounds DEF dbVars
<1>1. ASSUME NEW n \in 1..2, Commit(n) PROVE IdentityInv'
  <2>1. /\ top' = top + n /\ hot' = hot \cup (top + 1)..(top + n)
        /\ UNCHANGED <<ids, idCursor, idCounts, missed>>
    BY <1>1 DEF Commit
  <2>2. \A e \in Events : e > top' => e > top
    BY <2>1 DEF Events
  <2>3. ASSUME NEW i \in Identities PROVE missed'[i] \cap hot' = {}
    <3>1. missed[i] \subseteq 1..top /\ missed[i] \cap hot = {}
      BY DEF AggTypes, DbOK, IdentityInv
    <3> QED
      BY <2>1, <3>1
  <2> QED
    BY <2>1, <2>2, <2>3 DEF IdentityInv
<1>2. ASSUME NEW notify \in BOOLEAN, SyncIdentities(notify) PROVE IdentityInv'
  <2>1. /\ ids' = ids + 1
        /\ missed' = [missed EXCEPT ![ids + 1] = {e \in 1..top : e \notin hot}]
        /\ UNCHANGED <<top, hot, idCursor, idCounts>>
    BY <1>2 DEF SyncIdentities
  <2>2. missed \in [Identities -> SUBSET (1..top)]
    BY DEF AggTypes, DbOK
  <2>3. ASSUME NEW i \in Identities, i > ids' PROVE i > ids /\ missed'[i] = missed[i]
    <3>1. i > ids /\ i # ids + 1
      BY <2>1, <2>3 DEF Identities
    <3> QED
      BY <2>1, <2>2, <3>1
  <2>4. ASSUME NEW i \in Identities PROVE missed'[i] \cap hot = {}
    BY <2>1, <2>2 DEF IdentityInv
  <2> QED
    BY <2>1, <2>3, <2>4 DEF IdentityInv
<1>3. ASSUME NEW S \in SUBSET hot, Archive(S) PROVE IdentityInv'
  BY <1>3 DEF Archive, IdentityInv
<1>4. CASE Apply
  BY <1>4 DEF Apply, IdentityInv
<1>5. CASE AggregateIdentities
  <2>1. ASSUME NEW i \in Identities, i > ids
        PROVE  idCursor'[i] = idCursor[i] /\ \A e \in Events : idCounts'[i][e] = idCounts[i][e]
    <3>1. i \notin identityRows
      BY <2>1 DEF identityRows, Identities
    <3> QED
      BY <1>5, <3>1, AggregateEffect
  <2>2. ASSUME NEW i \in Identities, NEW e \in Events, e > top
        PROVE  idCounts'[i][e] = idCounts[i][e]
    <3>1. e \notin hot
      BY <2>2, HotOK DEF Events
    <3>2. e \notin delta(i)
      BY <3>1 DEF delta
    <3> QED
      BY <1>5, <3>2, AggregateEffect
  <2>3. UNCHANGED <<top, hot, ids, missed>>
    BY <1>5 DEF AggregateIdentities
  <2> QED
    BY <2>1, <2>2, <2>3 DEF IdentityInv
<1>6. CASE UNCHANGED dbVars
  BY <1>6 DEF IdentityInv
<1> QED
  BY <1>1, <1>2, <1>3, <1>4, <1>5, <1>6, DbFrame

\* An event ahead of an identity's cursor is still in the table, unless it was
\* archived before the identity appeared.
LEMMA AheadIsHot ==
    ASSUME AggTypes, IdentityCountedOnce, ArchivedIsCounted,
           NEW i \in 1..ids, NEW e \in 1..top, owner[e] = i, e > idCursor[i]
    PROVE  e \in delta(i) \/ (e \notin hot /\ e \in missed[i])
<1>1. CASE e \in hot
  BY <1>1 DEF delta
<1>2. CASE e \notin hot
  <2>1. idCounts[i][e] = 1 \/ e \in missed[i]
    BY <1>2 DEF ArchivedIsCounted
  <2>2. idCursor[i] \in Int /\ e \in Int
    BY Bounds, AggregationAssumption DEF AggTypes, DbOK, Identities
  <2>3. idCounts[i][e] = IF owner[e] = i /\ e <= idCursor[i] /\ e \notin missed[i] THEN 1 ELSE 0
    BY DEF IdentityCountedOnce
  <2> QED
    BY <1>2, <2>1, <2>2, <2>3
<1> QED
  BY <1>1, <1>2

\* The totals of an identity move with its cursor.
LEMMA IdentityCountedStep ==
    ASSUME AggTypes, IdentityInv, IdentityCountedOnce, ArchivedIsCounted, [Next]_vars
    PROVE  IdentityCountedOnce'
<1> USE Bounds DEF dbVars
<1>1. ASSUME NEW n \in 1..2, Commit(n) PROVE IdentityCountedOnce'
  <2>1. /\ top' = top + n /\ top + n <= MaxEvent
        /\ UNCHANGED <<owner, ids, idCursor, idCounts, missed>>
    BY <1>1 DEF Commit
  <2>2. ASSUME NEW i \in 1..ids, NEW e \in 1..top'
        PROVE  idCounts[i][e] = IF owner[e] = i /\ e <= idCursor[i] /\ e \notin missed[i] THEN 1 ELSE 0
    <3>1. CASE e <= top
      BY <2>1, <3>1 DEF IdentityCountedOnce
    <3>2. CASE e > top
      <4>1. e \in Events /\ i \in Identities
        BY <2>1, AggregationAssumption DEF Events, Identities
      <4>2. idCounts[i][e] = 0
        BY <3>2, <4>1 DEF IdentityInv
      <4>3. ~ (e <= idCursor[i])
        BY <2>1, <3>2, <4>1 DEF AggTypes, DbOK
      <4> QED
        BY <4>2, <4>3
    <3> QED
      BY <2>1, <3>1, <3>2
  <2> QED
    BY <2>1, <2>2 DEF IdentityCountedOnce
<1>2. ASSUME NEW notify \in BOOLEAN, SyncIdentities(notify) PROVE IdentityCountedOnce'
  <2>1. /\ ids < MaxIdentity /\ ids' = ids + 1
        /\ missed' = [missed EXCEPT ![ids + 1] = {e \in 1..top : e \notin hot}]
        /\ UNCHANGED <<owner, top, idCursor, idCounts>>
    BY <1>2 DEF SyncIdentities
  <2>2. missed \in [Identities -> SUBSET (1..top)]
    BY DEF AggTypes, DbOK
  <2>3. ASSUME NEW i \in 1..ids', NEW e \in 1..top
        PROVE  idCounts[i][e] = IF owner[e] = i /\ e <= idCursor[i] /\ e \notin missed'[i] THEN 1 ELSE 0
    <3>1. i \in Identities /\ e \in Events
      BY <2>1, AggregationAssumption DEF Events, Identities
    <3>2. CASE i = ids + 1
      <4>1. idCursor[i] = 0 /\ idCounts[i][e] = 0
        BY <3>1, <3>2 DEF IdentityInv
      <4> QED
        BY <4>1
    <3>3. CASE i # ids + 1
      <4>1. i \in 1..ids /\ missed'[i] = missed[i]
        BY <2>1, <2>2, <3>1, <3>3
      <4> QED
        BY <4>1 DEF IdentityCountedOnce
    <3> QED
      BY <3>2, <3>3
  <2> QED
    BY <2>1, <2>3 DEF IdentityCountedOnce
<1>3. ASSUME NEW S \in SUBSET hot, Archive(S) PROVE IdentityCountedOnce'
  BY <1>3 DEF Archive, IdentityCountedOnce
<1>4. CASE Apply
  BY <1>4 DEF Apply, IdentityCountedOnce
<1>5. CASE AggregateIdentities
  <2> SUFFICES ASSUME NEW i \in 1..ids, NEW e \in 1..top
               PROVE  idCounts'[i][e] = IF owner[e] = i /\ e <= idCursor'[i] /\ e \notin missed[i]
                                        THEN 1 ELSE 0
    <3>1. UNCHANGED <<owner, top, ids, missed>>
      BY <1>5 DEF AggregateIdentities
    <3> QED
      BY <3>1 DEF IdentityCountedOnce
  <2>1. i \in Identities /\ e \in Events /\ e \in Int
    BY AggregationAssumption DEF Events, Identities
  <2>2. idCounts[i][e] = IF owner[e] = i /\ e <= idCursor[i] /\ e \notin missed[i] THEN 1 ELSE 0
    BY DEF IdentityCountedOnce
  <2>3. /\ idCursor[i] \in 0..top
        /\ idCounts'[i][e] = IF i \in identityRows /\ e \in delta(i)
                             THEN idCounts[i][e] + 1 ELSE idCounts[i][e]
        /\ idCursor'[i] = IF i \in identityRows /\ delta(i) # {}
                          THEN Max(delta(i)) ELSE idCursor[i]
    BY <1>5, <2>1, AggregateEffect
  <2>4. CASE i \notin identityRows \/ delta(i) = {}
    BY <2>2, <2>3, <2>4
  <2>5. CASE i \in identityRows /\ delta(i) # {}
    <3>1. /\ Max(delta(i)) \in delta(i) /\ Max(delta(i)) \in Int
          /\ \A f \in delta(i) : f <= Max(delta(i))
      BY <2>1, <2>5, DeltaMax
    <3>2. idCursor[i] < Max(delta(i)) /\ idCursor'[i] = Max(delta(i))
      BY <2>3, <2>5, <3>1 DEF delta
    <3>3. CASE e \in delta(i)
      <4>1. owner[e] = i /\ ~ (e <= idCursor[i]) /\ e <= idCursor'[i] /\ e \in hot
        BY <2>1, <2>3, <3>1, <3>2, <3>3 DEF delta
      <4>2. e \notin missed[i]
        BY <2>1, <4>1 DEF IdentityInv
      <4> QED
        BY <2>2, <2>3, <2>5, <3>3, <4>1, <4>2
    <3>4. CASE e \notin delta(i)
      <4>1. idCounts'[i][e] = idCounts[i][e]
        BY <2>3, <3>4
      <4>2. CASE e <= idCursor[i]
        BY <2>1, <2>2, <2>3, <3>1, <3>2, <4>1, <4>2
      <4>3. CASE ~ (e <= idCursor[i])
        <5>1. e > idCursor[i]
          BY <2>1, <2>3, <4>3
        <5>2. owner[e] = i => e \in missed[i]
          BY <3>4, <5>1, AheadIsHot
        <5> QED
          BY <2>2, <4>1, <4>3, <5>2
      <4> QED
        BY <4>2, <4>3
    <3> QED
      BY <3>3, <3>4
  <2> QED
    BY <2>4, <2>5
<1>6. CASE UNCHANGED dbVars
  BY <1>6 DEF IdentityCountedOnce
<1> QED
  BY <1>1, <1>2, <1>3, <1>4, <1>5, <1>6, DbFrame

(***************************************************************************)
(* The rounds and the announcements.                                       *)
(***************************************************************************)
\* Every rollup has passed the target of a turn that says so, and the target
\* of a round that counts as reached.
LEMMA ReachedStep ==
    ASSUME AggTypes, SnapInv, PageInv, ReachedInv, [Next]_vars
    PROVE  ReachedInv'
<1>1. \A k \in Rollups : cursor[k] \in Nat /\ cursor'[k] \in Nat /\ cursor[k] <= cursor'[k]
  BY CursorGrows
<1>2. turn.target \in Nat /\ target \in Nat /\ pending \in Nat
  BY Bounds, AggregationAssumption DEF AggTypes, MemOK, DbOK
<1>3. ASSUME pc' = "finish", turn'.active, turn'.reached, NEW k \in Rollups
      PROVE  cursor'[k] >= turn'.target
  <2> USE DEF dbVars, memVars, turnVars, saidVars
  <2>1. CASE LoadSnapshot
    <3>1. /\ turn' = [turn EXCEPT !.reached = TRUE] /\ cursor' = cursor
          /\ turn.active => \A r \in Rollups : cursor[r] >= turn.target
      BY <1>3, <2>1 DEF LoadSnapshot
    <3>2. turn'.target = turn.target /\ turn'.active = turn.active
      BY <3>1 DEF AggTypes, TurnOK, Turns
    <3> QED
      BY <1>3, <3>1, <3>2
  <2>2. CASE GuardBusy
    BY <1>3, <2>2 DEF GuardBusy, SnapInv
  <2>3. CASE RollupsDone
    <3> DEFINE done == IF turn.shared THEN Max(page) >= turn.target
                       ELSE \A r \in Rollups : snap[r] >= turn.target
    <3>1. /\ pc \in {"page", "guard"} /\ at > RollupCount /\ ~errs
          /\ turn' = [turn EXCEPT !.reached = done] /\ cursor' = cursor
      BY <1>3, <2>3 DEF RollupsDone
    <3>2. turn \in Turns
      BY DEF AggTypes, TurnOK
    <3>3. turn'.target = turn.target /\ turn'.reached = done
      BY <3>1, <3>2 DEF Turns
    <3>4. at \in Nat /\ k \in 1..RollupCount
      BY AggregationAssumption DEF AggTypes, TurnOK, Rollups
    <3>5. k < at
      BY <3>1, <3>4, AggregationAssumption
    <3>6. CASE turn.shared
      <4>1. pc = "guard"
        BY <3>1, <3>4, <3>6, AggregationAssumption DEF SnapInv
      <4>2. cursor[k] = Max(page)
        BY <3>1, <3>5, <3>6, <4>1 DEF PageInv
      <4> QED
        BY <1>3, <3>1, <3>3, <3>6, <4>2
    <3>7. CASE ~turn.shared
      <4>1. cursor[k] = snap[k]
        BY <3>1, <3>7 DEF SnapInv
      <4> QED
        BY <1>3, <3>1, <3>3, <3>7, <4>1
    <3> QED
      BY <3>6, <3>7
  <2>4. CASE pc = "finish" /\ UNCHANGED turn
    <3>1. cursor[k] >= turn.target
      BY <1>3, <2>4 DEF ReachedInv
    <3> QED
      BY <1>1, <1>2, <2>4, <3>1
  <2>5. \/ LoadSnapshot \/ GuardBusy \/ RollupsDone \/ (pc = "finish" /\ UNCHANGED turn)
    <3>1. CASE UNCHANGED vars
      BY <1>3, <3>1 DEF vars
    <3>2. CASE UNCHANGED turnVars /\ UNCHANGED pc
      BY <1>3, <3>2
    <3> QED
      BY <1>3, <3>1, <3>2 DEF Next, Database, Loop, RollupsTurn, Commit, SyncIdentities, Archive,
         NotifyCommitted, LoadStartTarget, EnsureStartTarget, LoopTop, TimerFires, TakeWake,
         RetryFires, BeginTurn, AfterFailure, InboxFree, InboxBusy, TurnFails, LoadPage,
         LoadPageFails, SkipRollup, GuardFree, Apply, ApplyFails, nextRollup, FinishRollups,
         AggregateIdentities, FinishIdentities, Crash
  <2> QED
    BY <2>1, <2>2, <2>3, <2>4, <2>5
<1>4. /\ reached' => \A k \in Rollups : cursor'[k] >= target'
      /\ ~active' => target' = 0
  <2> DEFINE R == /\ reached => \A k \in Rollups : cursor[k] >= target
                  /\ ~active => target = 0
  <2>0. R
    BY DEF ReachedInv
  <2>1. CASE UNCHANGED <<active, target, reached>>
    BY <1>1, <1>2, <2>0, <2>1
  <2>2. CASE EnsureStartTarget
    <3>1. active' = TRUE /\ target' = turn.target /\ (reached' => turn.target = 0)
      BY <2>2 DEF EnsureStartTarget
    <3> QED
      BY <1>1, <3>1
  <2>3. CASE TimerFires
    BY <1>1, <1>2, <2>0, <2>3 DEF TimerFires, freezePendingTarget
  <2>4. CASE FinishRollups
    <3> DEFINE done == reached \/ (turn.active /\ active /\ target = turn.target /\ turn.reached)
    <3>1. completeRound(done) /\ pc = "finish"
      BY <2>4 DEF FinishRollups
    <3>2. CASE active /\ done
      BY <3>1, <3>2 DEF completeRound
    <3>3. CASE ~ (active /\ done)
      <4>1. reached' = done /\ UNCHANGED <<active, target>>
        BY <3>1, <3>3 DEF completeRound
      <4>2. reached' => reached
        BY <3>3, <4>1
      <4> HIDE DEF done
      <4> QED
        BY <1>1, <1>2, <2>0, <4>1, <4>2
    <3> QED
      BY <3>2, <3>3
  <2>5. CASE Crash
    BY <1>1, <2>5 DEF Crash
  <2>6. \/ EnsureStartTarget \/ TimerFires \/ FinishRollups \/ Crash
        \/ UNCHANGED <<active, target, reached>>
    BY MemFrame DEF memVars, NotifyCommitted, SyncIdentities, AfterFailure, FinishIdentities
  <2> QED
    BY <2>1, <2>2, <2>3, <2>4, <2>5, <2>6
<1> QED
  BY <1>3, <1>4 DEF ReachedInv

\* The runner is loaded from its first pass of the loop on.
LEMMA LoadedStep == ASSUME LoadedInv, [Next]_vars PROVE LoadedInv'
<1> USE DEF dbVars, memVars, turnVars, saidVars
<1>1. CASE EnsureStartTarget
  BY <1>1 DEF EnsureStartTarget, LoadedInv
<1>2. CASE Crash
  BY <1>2 DEF Crash, LoadedInv
<1>3. CASE LoadStartTarget
  BY <1>3 DEF LoadStartTarget, LoadedInv
<1>4. CASE UNCHANGED vars
  BY <1>4 DEF vars, LoadedInv
<1>5. CASE UNCHANGED <<loaded, pc>>
  BY <1>5 DEF LoadedInv
<1>6. CASE /\ UNCHANGED loaded
           /\ pc \notin {"start", "started"} /\ pc' \notin {"start", "started"}
  BY <1>6 DEF LoadedInv
<1>7. \/ EnsureStartTarget \/ Crash \/ LoadStartTarget \/ UNCHANGED vars \/ UNCHANGED <<loaded, pc>>
      \/ UNCHANGED loaded /\ pc \notin {"start", "started"} /\ pc' \notin {"start", "started"}
  BY DEF Next, Database, Loop, RollupsTurn, Commit, SyncIdentities, Archive, NotifyCommitted,
     LoopTop, TimerFires, TakeWake, RetryFires, BeginTurn, AfterFailure, InboxFree, InboxBusy,
     TurnFails, LoadSnapshot, LoadPage, LoadPageFails, SkipRollup, GuardFree, GuardBusy, Apply,
     ApplyFails, nextRollup, RollupsDone, FinishRollups, AggregateIdentities, FinishIdentities
<1> QED
  BY <1>1, <1>2, <1>3, <1>4, <1>5, <1>6, <1>7

\* The start reads the largest id of the table; what it does not see there is
\* archived, and so counted by every rollup.
LEMMA StartStep ==
    ASSUME AggTypes, SnapInv, PageInv, CountedOnce, ArchivedIsCounted, StartInv, [Next]_vars
    PROVE  StartInv'
<1> USE DEF dbVars, memVars, turnVars, saidVars
<1> SUFFICES ASSUME pc' = "started" PROVE StartInv'
  BY DEF StartInv
<1>1. \A k \in Rollups : cursor[k] \in Nat /\ cursor'[k] \in Nat /\ cursor[k] <= cursor'[k]
  BY CursorGrows
<1>2. /\ announced \in Nat /\ announced <= top /\ pending \in Nat /\ top \in Nat
      /\ top <= MaxEvent
  BY Bounds DEF AggTypes, MemOK, SaidOK
<1>3. CASE LoadStartTarget
  <2> DEFINE t == Max(hot \cup {0})
  <2>1. turn' = [turn EXCEPT !.target = t] /\ UNCHANGED <<announced, cursor>>
    BY <1>3 DEF LoadStartTarget
  <2>2. turn'.target = t
    BY <2>1 DEF AggTypes, TurnOK, Turns
  <2>3. t \in Nat /\ \A e \in hot : e <= t
    BY <1>2, StartMax
  <2> HIDE DEF t
  <2>4. ASSUME ~ (announced <= t), NEW k \in Rollups PROVE cursor[k] >= announced
    <3>1. announced \in 1..top /\ announced \notin hot
      BY <1>2, <2>3, <2>4
    <3>2. counts[k][announced] = 1 /\ announced \in Events
      BY <1>2, <3>1, AggregationAssumption DEF ArchivedIsCounted, Events
    <3>3. announced <= cursor[k]
      BY <3>2 DEF CountedOnce
    <3> QED
      BY <1>1, <1>2, <3>3
  <2> QED
    BY <2>1, <2>2, <2>4 DEF StartInv
<1>4. CASE NotifyCommitted
  <2>1. pending' = top /\ announced' = top
    BY <1>4, NotifyMax DEF NotifyCommitted
  <2> QED
    BY <1>2, <2>1 DEF StartInv
<1>5. CASE UNCHANGED <<announced, pending, turn, pc>>
  BY <1>1, <1>2, <1>5 DEF StartInv
<1>6. LoadStartTarget \/ NotifyCommitted \/ UNCHANGED <<announced, pending, turn, pc>>
  <2>1. CASE UNCHANGED vars
    BY <2>1 DEF vars
  <2> QED
    BY <2>1 DEF Next, Database, Loop, RollupsTurn, Commit, SyncIdentities, Archive,
       EnsureStartTarget, LoopTop, TimerFires, TakeWake, RetryFires, BeginTurn, AfterFailure,
       InboxFree, InboxBusy, TurnFails, LoadSnapshot, LoadPage, LoadPageFails, SkipRollup,
       GuardFree, GuardBusy, Apply, ApplyFails, nextRollup, RollupsDone, FinishRollups,
       AggregateIdentities, FinishIdentities, Crash
<1> QED
  BY <1>3, <1>4, <1>5, <1>6

\* What was announced stays in the window or below the target until every
\* rollup has passed it.
LEMMA AnnouncedStep ==
    ASSUME AggTypes, SnapInv, PageInv, ReachedInv, StartInv, AnnouncedIsTargeted, [Next]_vars
    PROVE  AnnouncedIsTargeted'
<1> USE DEF dbVars, memVars, turnVars, saidVars
<1>1. \A k \in Rollups : cursor[k] \in Nat /\ cursor'[k] \in Nat /\ cursor[k] <= cursor'[k]
  BY CursorGrows
<1>2. /\ announced \in Nat /\ pending \in Nat /\ target \in Nat /\ top \in Nat
      /\ turn.target \in Nat
  BY Bounds DEF AggTypes, MemOK, SaidOK
<1>3. CASE NotifyCommitted
  <2>1. pending' = top /\ announced' = top
    BY <1>3, NotifyMax DEF NotifyCommitted
  <2> QED
    BY <1>2, <2>1 DEF AnnouncedIsTargeted
<1>4. CASE EnsureStartTarget
  <2>1. /\ pc = "started" /\ active' = TRUE /\ target' = turn.target /\ UNCHANGED <<announced, cursor>>
        /\ pending' = IF pending <= turn.target THEN 0 ELSE pending
    BY <1>4 DEF EnsureStartTarget
  <2>2. \/ announced <= pending \/ announced <= turn.target
        \/ \A k \in Rollups : cursor[k] >= announced
    BY <2>1 DEF StartInv
  <2> QED
    BY <1>1, <1>2, <2>1, <2>2 DEF AnnouncedIsTargeted
<1>5. CASE TimerFires
  <2>1. freezePendingTarget /\ UNCHANGED <<announced, cursor, loaded>>
    BY <1>5 DEF TimerFires
  <2>2. CASE pending = 0 \/ (active /\ pending <= target)
    <3>1. UNCHANGED <<active, target>>
      BY <2>1, <2>2 DEF freezePendingTarget
    <3> QED
      BY <1>1, <1>2, <2>1, <2>2, <3>1 DEF AnnouncedIsTargeted
  <2>3. CASE ~ (pending = 0 \/ (active /\ pending <= target))
    <3>1. active' = TRUE /\ target' = pending
      BY <2>1, <2>3 DEF freezePendingTarget
    <3> QED
      BY <1>1, <1>2, <2>1, <2>3, <3>1 DEF AnnouncedIsTargeted
  <2> QED
    BY <2>2, <2>3
<1>6. CASE FinishRollups
  <2> DEFINE done == reached \/ (turn.active /\ active /\ target = turn.target /\ turn.reached)
  <2>1. completeRound(done) /\ pc = "finish" /\ UNCHANGED <<announced, cursor, loaded>>
    BY <1>6 DEF FinishRollups
  <2>2. CASE active /\ done
    <3>1. pending' = IF pending <= target THEN 0 ELSE pending
      BY <2>1, <2>2 DEF completeRound
    <3>2. \A k \in Rollups : cursor[k] >= target
      BY <2>1, <2>2 DEF ReachedInv
    <3>3. ASSUME loaded, NEW k \in Rollups, cursor[k] < announced PROVE announced <= pending'
      <4>1. announced <= pending \/ announced <= target
        BY <3>3 DEF AnnouncedIsTargeted
      <4> QED
        BY <1>1, <1>2, <3>1, <3>2, <3>3, <4>1
    <3> QED
      BY <2>1, <3>3 DEF AnnouncedIsTargeted
  <2>3. CASE ~ (active /\ done)
    <3>1. UNCHANGED <<active, target, pending>>
      BY <2>1, <2>3 DEF completeRound
    <3> QED
      BY <2>1, <3>1 DEF AnnouncedIsTargeted
  <2> QED
    BY <2>2, <2>3
<1>7. CASE Crash
  BY <1>7 DEF Crash, AnnouncedIsTargeted
<1>8. CASE UNCHANGED <<announced, loaded, active, target, pending>>
  BY <1>1, <1>2, <1>8 DEF AnnouncedIsTargeted
<1>9. \/ NotifyCommitted \/ EnsureStartTarget \/ TimerFires \/ FinishRollups \/ Crash
      \/ UNCHANGED <<announced, loaded, active, target, pending>>
  <2>1. NotifyCommitted \/ Crash \/ UNCHANGED announced
    BY SaidFrame DEF Commit, SyncIdentities
  <2> QED
    BY <2>1, MemFrame DEF SyncIdentities, AfterFailure, FinishIdentities
<1> QED
  BY <1>3, <1>4, <1>5, <1>6, <1>7, <1>8, <1>9

\* The runner goes to wait with nothing runnable and the timer set, and
\* whatever changes that leaves a token.
LEMMA WaitStep == ASSUME AggTypes, WaitInv, [Next]_vars PROVE WaitInv'
<1> USE DEF dbVars, memVars, turnVars, saidVars
<1> SUFFICES ASSUME pc' = "wait", ~wake' PROVE WaitInv'
  BY DEF WaitInv
<1>1. CASE LoopTop
  BY <1>1 DEF LoopTop, runnable, identityPending, WaitInv
<1>2. CASE UNCHANGED <<pc, wake, active, idAfter, scanGen, wantGen, pending, timer>>
  BY <1>2 DEF WaitInv, identityPending
<1>3. LoopTop \/ UNCHANGED <<pc, wake, active, idAfter, scanGen, wantGen, pending, timer>>
  <2>1. CASE UNCHANGED vars
    BY <2>1 DEF vars
  <2> QED
    BY <2>1 DEF Next, Database, Loop, RollupsTurn, Commit, SyncIdentities, Archive,
       NotifyCommitted, raiseGeneration, LoadStartTarget, EnsureStartTarget, TimerFires, TakeWake,
       RetryFires, BeginTurn, AfterFailure, InboxFree, InboxBusy, TurnFails, LoadSnapshot,
       LoadPage, LoadPageFails, SkipRollup, GuardFree, GuardBusy, Apply, ApplyFails, nextRollup,
       RollupsDone, FinishRollups, AggregateIdentities, FinishIdentities, Crash
<1> QED
  BY <1>1, <1>2, <1>3

(***************************************************************************)
(* The scans of the identities.                                            *)
(***************************************************************************)
\* What has counted the events of the last generation stays so.
LEMMA CoveredGrows ==
    ASSUME AggTypes, IdentityInv, [Next]_vars, UNCHANGED <<bumpTop, bumpIds>>
    PROVE  covered \subseteq covered'
<1> USE DEF dbVars
<1>1. /\ top \in Nat /\ ids \in Nat /\ bumpTop \in Nat /\ bumpIds \in Nat /\ bumpIds <= ids
      /\ ids <= MaxIdentity
  BY Bounds DEF AggTypes, SaidOK
<1>2. ASSUME NEW i \in 1..bumpIds
      PROVE  /\ idCursor[i] \in Nat /\ idCursor'[i] \in Nat /\ idCursor[i] <= idCursor'[i]
             /\ missed[i] \subseteq missed'[i] /\ owner' = owner
  <2>1. i \in Identities /\ i \in 1..ids
    BY <1>1, AggregationAssumption DEF Identities
  <2>2. idCursor[i] \in 0..top /\ missed \in [Identities -> SUBSET (1..top)]
    BY <2>1 DEF AggTypes, DbOK
  <2>3. CASE AggregateIdentities
    <3>1. UNCHANGED <<owner, missed>>
      BY <2>3 DEF AggregateIdentities
    <3>2. CASE delta(i) = {}
      BY <2>1, <2>2, <2>3, <3>1, <3>2, <1>1, AggregateEffect
    <3>3. CASE delta(i) # {}
      <4>1. Max(delta(i)) \in delta(i) /\ Max(delta(i)) \in Nat
        BY <1>1, <2>1, <3>3, DeltaMax
      <4>2. idCursor[i] < Max(delta(i))
        BY <1>1, <2>2, <4>1 DEF delta
      <4>3. idCursor'[i] = Max(delta(i)) \/ idCursor'[i] = idCursor[i]
        BY <2>1, <2>3, AggregateEffect
      <4> QED
        BY <1>1, <2>2, <3>1, <4>1, <4>2, <4>3
    <3> QED
      BY <3>2, <3>3
  <2>4. ASSUME NEW notify \in BOOLEAN, SyncIdentities(notify)
        PROVE  missed[i] = missed'[i] /\ UNCHANGED <<owner, idCursor>>
    <3>1. /\ missed' = [missed EXCEPT ![ids + 1] = {e \in 1..top : e \notin hot}]
          /\ UNCHANGED <<owner, idCursor>>
      BY <2>4 DEF SyncIdentities
    <3>2. i # ids + 1
      BY <1>1, <2>1
    <3> QED
      BY <2>1, <2>2, <3>1, <3>2
  <2>5. CASE UNCHANGED <<owner, idCursor, missed>>
    BY <1>1, <2>2, <2>5
  <2>6. \/ AggregateIdentities \/ (\E notify \in BOOLEAN : SyncIdentities(notify))
        \/ UNCHANGED <<owner, idCursor, missed>>
    BY DbFrame DEF Commit, Archive, Apply
  <2>7. CASE \E notify \in BOOLEAN : SyncIdentities(notify)
    BY <1>1, <2>2, <2>4, <2>7
  <2> QED
    BY <2>3, <2>5, <2>6, <2>7
<1>3. ASSUME NEW i \in 1..bumpIds, NEW e \in 1..bumpTop, owner[e] = i,
             e <= idCursor[i] \/ e \in missed[i]
      PROVE  owner'[e] = owner[e] /\ (e <= idCursor'[i] \/ e \in missed'[i])
  BY <1>1, <1>2, <1>3
<1>4. owner' = owner
  BY DbFrame DEF Commit, SyncIdentities, Archive, Apply, AggregateIdentities
<1> QED
  BY <1>3, <1>4 DEF covered

\* An identity whose rows a scan has brought up to date has counted all that
\* is in the table, and so all that it has not missed.
LEMMA RowsCovered ==
    ASSUME AggTypes, IdentityCountedOnce, ArchivedIsCounted, AggregateIdentities,
           UNCHANGED <<bumpTop, bumpIds>>, NEW i \in identityRows, i \in 1..bumpIds
    PROVE  i \in covered'
<1>1. /\ top \in Nat /\ ids \in Nat /\ bumpTop \in Nat /\ bumpIds \in Nat /\ bumpIds <= ids
      /\ bumpTop <= top /\ ids <= MaxIdentity
  BY Bounds DEF AggTypes, SaidOK
<1>2. i \in Identities /\ i \in 1..ids
  BY <1>1, AggregationAssumption DEF Identities
<1>3. UNCHANGED <<owner, missed>>
  BY DEF AggregateIdentities
<1>4. idCursor[i] \in Nat /\ idCursor'[i] = IF delta(i) # {} THEN Max(delta(i)) ELSE idCursor[i]
  BY <1>1, <1>2, AggregateEffect
<1>5. ASSUME NEW e \in 1..bumpTop, owner[e] = i PROVE e <= idCursor'[i] \/ e \in missed[i]
  <2>1. e \in 1..top /\ e \in Nat
    BY <1>1
  <2>2. CASE e \in delta(i)
    BY <1>2, <1>4, <2>2, DeltaMax
  <2>3. CASE e \notin delta(i)
    <3>1. CASE e <= idCursor[i]
      <4>1. CASE delta(i) = {}
        BY <1>4, <3>1, <4>1
      <4>2. CASE delta(i) # {}
        <5>1. Max(delta(i)) \in delta(i) /\ Max(delta(i)) \in Nat
          BY <1>1, <1>2, <4>2, DeltaMax
        <5>2. idCursor[i] < Max(delta(i))
          BY <1>4, <5>1 DEF delta
        <5> QED
          BY <1>4, <2>1, <3>1, <4>2, <5>1, <5>2
      <4> QED
        BY <4>1, <4>2
    <3>2. CASE e > idCursor[i]
      BY <1>2, <1>5, <2>1, <2>3, <3>2, AheadIsHot
    <3> QED
      BY <1>4, <2>1, <3>1, <3>2
  <2> QED
    BY <2>2, <2>3
<1> QED
  BY <1>3, <1>5 DEF covered

\* A page of identities that is not full is the last one.
LEMMA LastPage ==
    ASSUME AggTypes, Cardinality(identityRows) < IdentityPage
    PROVE  ids <= turn.after + IdentityPage
<1> USE Bounds, AggregationAssumption
<1> SUFFICES ASSUME ids > turn.after + IdentityPage PROVE FALSE
  OBVIOUS
<1>1. identityRows = (turn.after + 1)..(turn.after + IdentityPage)
  BY DEF identityRows
<1>2. Cardinality(identityRows) = IdentityPage
  <2> DEFINE a == turn.after + 1
             b == turn.after + IdentityPage
  <2>1. a \in Int /\ b \in Int /\ ~ (a > b) /\ b - a + 1 = IdentityPage
    OBVIOUS
  <2> HIDE DEF a, b
  <2>2. Cardinality(a..b) = b - a + 1
    BY <2>1, FS_Interval
  <2> QED
    BY <1>1, <2>1, <2>2 DEF a, b
<1> QED
  BY <1>2

\* The steps of a scan, and those that ask for another one.
LEMMA ScanFrame ==
    ASSUME [Next]_vars
    PROVE  \/ NotifyCommitted \/ (\E notify \in BOOLEAN : SyncIdentities(notify))
           \/ BeginTurn \/ InboxFree \/ AggregateIdentities \/ FinishIdentities \/ Crash
           \/ /\ UNCHANGED <<scanGen, wantGen, idAfter, bumpTop, bumpIds>>
              /\ pc' \in {"inbox", "identity", "scanned"} => UNCHANGED <<pc, turn, page>>
<1> USE DEF dbVars, memVars, turnVars, saidVars
<1>1. CASE UNCHANGED vars
  BY <1>1 DEF vars
<1> QED
  BY <1>1 DEF Next, Database, Loop, RollupsTurn, Commit, Archive, LoadStartTarget,
     EnsureStartTarget, LoopTop, TimerFires, TakeWake, RetryFires, AfterFailure, InboxBusy,
     TurnFails, LoadSnapshot, LoadPage, LoadPageFails, SkipRollup, GuardFree, GuardBusy, Apply,
     ApplyFails, nextRollup, RollupsDone, FinishRollups

\* A pass covers the generation that was wanted when it began: one that is
\* raised meanwhile asks for another pass.
LEMMA ScanStep ==
    ASSUME AggTypes, ScanInv, IdentityInv, IdentityCountedOnce, ArchivedIsCounted, [Next]_vars
    PROVE  ScanInv'
<1> USE DEF dbVars, memVars, turnVars, saidVars
<1>1. /\ wantGen \in Nat /\ scanGen \in Nat /\ scanGen <= wantGen /\ idAfter \in Nat
      /\ turn.pass \in Nat /\ turn.pass <= wantGen /\ turn.after \in Nat /\ ids \in Nat
      /\ bumpIds \in Nat /\ bumpIds <= ids
  BY Bounds DEF AggTypes, MemOK, SaidOK
<1>2. ASSUME wantGen' = wantGen + 1, ids' \in Nat, ids <= ids',
             UNCHANGED <<scanGen, pc, turn, page>>
      PROVE  ScanInv'
  <2>1. scanGen' # wantGen' /\ turn'.pass # wantGen'
    BY <1>1, <1>2
  <2>2. pc = "scanned" => page \subseteq 1..ids' /\ (~turn.reached => page # {})
    BY <1>1, <1>2 DEF ScanInv
  <2> QED
    BY <1>2, <2>1, <2>2 DEF ScanInv
<1>3. CASE NotifyCommitted
  BY <1>1, <1>2, <1>3 DEF NotifyCommitted, raiseGeneration
<1>4. ASSUME UNCHANGED <<scanGen, wantGen, idAfter, bumpTop, bumpIds>>,
             pc' \in {"inbox", "identity", "scanned"} => UNCHANGED <<pc, turn, page>>
      PROVE  ScanInv'
  <2>1. covered \subseteq covered'
    BY <1>4, CoveredGrows
  <2>2. ids <= ids' /\ ids' \in Nat
    BY Grows
  <2>3. scanGen' = wantGen' => CoveredTo(IF idAfter = 0 THEN bumpIds ELSE idAfter)'
    BY <1>4, <2>1 DEF ScanInv, CoveredTo
  <2>4. (pc' = "inbox" /\ turn'.kind = "identity") \/ pc' = "identity" =>
          (turn'.pass = wantGen' => CoveredTo(turn.after)')
    BY <1>4, <2>1 DEF ScanInv, CoveredTo
  <2>5. pc' = "scanned" =>
          /\ page' \subseteq 1..ids' /\ (~turn'.reached => page' # {})
          /\ turn'.pass = wantGen' =>
               CoveredTo(IF turn.reached THEN bumpIds ELSE Max(page \cup {turn.after}))'
    <3>1. ASSUME pc' = "scanned" PROVE page' \subseteq 1..ids' /\ (~turn'.reached => page' # {})
      BY <1>1, <1>4, <2>2, <3>1 DEF ScanInv
    <3>2. ASSUME pc' = "scanned", turn'.pass = wantGen'
          PROVE  CoveredTo(IF turn.reached THEN bumpIds ELSE Max(page \cup {turn.after}))'
      BY <1>4, <2>1, <3>2 DEF ScanInv, CoveredTo
    <3> QED
      BY <3>1, <3>2
  <2> QED
    BY <2>3, <2>4, <2>5 DEF ScanInv
<1>5. ASSUME NEW notify \in BOOLEAN, SyncIdentities(notify) PROVE ScanInv'
  <2>1. CASE notify
    BY <1>1, <1>2, <1>5, <2>1 DEF SyncIdentities
  <2>2. CASE ~notify
    BY <1>4, <1>5, <2>2 DEF SyncIdentities
  <2> QED
    BY <2>1, <2>2
<1>6. CASE BeginTurn
  <2>1. /\ pc' = "inbox" /\ UNCHANGED <<scanGen, wantGen, idAfter, bumpTop, bumpIds>>
        /\ turn'.after = idAfter /\ turn'.kind = nextRunnableKind
        /\ turn'.pass = IF nextRunnableKind = "identity" /\ idAfter = 0 THEN wantGen ELSE scanGen
    BY <1>6 DEF BeginTurn
  <2>2. covered \subseteq covered'
    BY <2>1, CoveredGrows
  <2>3. scanGen = wantGen => CoveredTo(IF idAfter = 0 THEN bumpIds ELSE idAfter)
    BY DEF ScanInv
  <2>4. CASE idAfter = 0
    <3>1. \A i \in 1..bumpIds : ~ (i <= idAfter)
      BY <1>1, <2>4
    <3> QED
      BY <2>1, <2>2, <2>3, <2>4, <3>1 DEF ScanInv, CoveredTo
  <2>5. CASE idAfter # 0
    BY <2>1, <2>2, <2>3, <2>5 DEF ScanInv, CoveredTo
  <2> QED
    BY <2>4, <2>5
<1>7. CASE InboxFree
  <2>1. /\ pc = "inbox" /\ pc' = (IF turn.kind = "rollups" THEN "snapshot" ELSE "identity")
        /\ UNCHANGED <<scanGen, wantGen, idAfter, bumpTop, bumpIds, turn, page>>
    BY <1>7 DEF InboxFree
  <2>2. covered \subseteq covered' /\ turn.kind \in {"rollups", "identity"}
    BY <2>1, CoveredGrows, Bounds
  <2> QED
    BY <2>1, <2>2 DEF ScanInv, CoveredTo
<1>8. CASE AggregateIdentities
  <2> DEFINE last == Cardinality(identityRows) < IdentityPage
  <2>1. /\ pc = "identity" /\ pc' = "scanned" /\ page' = identityRows
        /\ turn' = [turn EXCEPT !.reached = last]
        /\ UNCHANGED <<scanGen, wantGen, idAfter, bumpTop, bumpIds, ids>>
    BY <1>8 DEF AggregateIdentities
  <2>2. covered \subseteq covered'
    BY <2>1, CoveredGrows
  <2>3. turn \in Turns
    BY DEF AggTypes, TurnOK
  <2>4. /\ turn'.reached = last /\ turn'.pass = turn.pass /\ turn'.after = turn.after
        /\ turn'.kind = turn.kind
    BY <2>1, <2>3 DEF Turns
  <2>5. identityRows \subseteq 1..ids
    BY DEF identityRows
  <2>6. ~last => identityRows # {}
    BY FS_EmptySet, AggregationAssumption
  <2>7. scanGen' = wantGen' => CoveredTo(IF idAfter = 0 THEN bumpIds ELSE idAfter)'
    BY <2>1, <2>2 DEF ScanInv, CoveredTo
  <2>8. ASSUME turn.pass = wantGen, NEW i \in 1..bumpIds,
               i <= turn.after + IdentityPage
        PROVE  i \in covered'
    <3>1. CASE i <= turn.after
      <4>1. i \in covered
        BY <2>1, <2>8, <3>1 DEF ScanInv, CoveredTo
      <4> QED
        BY <2>2, <4>1
    <3>2. CASE ~ (i <= turn.after)
      <4>1. i \in identityRows
        BY <1>1, <2>8, <3>2 DEF identityRows
      <4> QED
        BY <1>8, <2>1, <4>1, RowsCovered
    <3> QED
      BY <3>1, <3>2
  <2>9. ASSUME turn.pass = wantGen, last, NEW i \in 1..bumpIds PROVE i \in covered'
    <3>1. i <= turn.after + IdentityPage
      BY <1>1, <2>9, LastPage, AggregationAssumption
    <3> QED
      BY <2>8, <2>9, <3>1
  <2>10. ASSUME turn.pass = wantGen, ~last, NEW i \in 1..bumpIds,
                i <= Max(identityRows \cup {turn.after})
         PROVE  i \in covered'
    <3> DEFINE m == Max(identityRows \cup {turn.after})
    <3>1. identityRows \cup {turn.after} \in SUBSET (0..ids)
      <4>1. turn.after \in 0..ids
        BY <1>1, Bounds
      <4>2. \A j \in identityRows : j \in 0..ids
        BY <1>1 DEF identityRows
      <4> QED
        BY <4>1, <4>2
    <3>2. m \in identityRows \cup {turn.after}
      BY <1>1, <3>1, MaxOfBounded
    <3>3. m <= turn.after + IdentityPage /\ m \in Nat
      BY <1>1, <3>2, AggregationAssumption DEF identityRows
    <3>4. i <= m
      BY <2>10
    <3> HIDE DEF m
    <3>5. i <= turn.after + IdentityPage
      BY <1>1, <3>3, <3>4, AggregationAssumption
    <3> QED
      BY <2>8, <2>10, <3>5
  <2> HIDE DEF last
  <2> QED
    BY <2>1, <2>4, <2>5, <2>6, <2>7, <2>9, <2>10 DEF ScanInv, CoveredTo
<1>9. CASE FinishIdentities
  <2> DEFINE m == Max(page \cup {turn.after})
  <2>1. /\ pc = "scanned" /\ pc' = "loop" /\ scanGen' = turn.pass
        /\ idAfter' = (IF turn.reached THEN 0 ELSE m)
        /\ UNCHANGED <<wantGen, bumpTop, bumpIds>>
    BY <1>9 DEF FinishIdentities
  <2>2. covered \subseteq covered'
    BY <2>1, CoveredGrows
  <2>3. m \in Nat /\ \A i \in page : i <= m
    BY <1>1, <2>1, ScanMax
  <2>4. /\ page \subseteq 1..ids /\ (~turn.reached => page # {})
        /\ turn.pass = wantGen => CoveredTo(IF turn.reached THEN bumpIds ELSE m)
    BY <2>1 DEF ScanInv
  <2> HIDE DEF m
  <2>5. ASSUME ~turn.reached PROVE m # 0
    <3>1. PICK i \in page : i \in 1..ids
      BY <2>4, <2>5
    <3>2. i <= m /\ i \in Nat /\ i > 0
      BY <2>3, <3>1
    <3> QED
      BY <2>3, <3>2
  <2> QED
    BY <2>1, <2>2, <2>4, <2>5 DEF ScanInv, CoveredTo
<1>10. CASE Crash
  BY <1>10 DEF Crash, ScanInv
<1> QED
  BY <1>3, <1>4, <1>5, <1>6, <1>7, <1>8, <1>9, <1>10, ScanFrame

(***************************************************************************)
(* The theorems.                                                           *)
(***************************************************************************)
\* The invariant holds when the process starts on an empty database.
LEMMA AggregationIndInit == Init => AggregationInd
<1> SUFFICES ASSUME Init PROVE AggregationInd
  OBVIOUS
<1> USE AggregationAssumption DEF Init
<1>1. DbOK
  BY DEF DbOK, noSnap, Rollups, Identities, Events
<1>2. MemOK
  BY DEF MemOK
<1>3. SaidOK
  BY DEF SaidOK
<1>4. TurnOK
  <2>1. turn \in Turns
    BY DEF noTurn, Turns
  <2>2. turn.target = 0 /\ turn.after = 0 /\ turn.pass = 0
    BY DEF noTurn
  <2> QED
    BY <2>1, <2>2 DEF TurnOK, noSnap, Rollups
<1>5. FlagsOK
  BY DEF FlagsOK, Steps
<1>6. SnapInv /\ PageInv /\ ReachedInv /\ StartInv /\ LoadedInv /\ AnnouncedIsTargeted /\ WaitInv
  BY DEF SnapInv, PageInv, ReachedInv, StartInv, LoadedInv, AnnouncedIsTargeted, WaitInv
<1>7. CountedOnce
  BY DEF CountedOnce, noSnap, Events
<1>8. IdentityInv /\ IdentityCountedOnce /\ ArchivedIsCounted
  BY DEF IdentityInv, IdentityCountedOnce, ArchivedIsCounted
<1>9. ScanInv
  BY DEF ScanInv
<1> QED
  BY <1>1, <1>2, <1>3, <1>4, <1>5, <1>6, <1>7, <1>8, <1>9 DEF AggregationInd, AggTypes

\* Every step preserves it.
LEMMA AggregationIndStep == AggregationInd /\ [Next]_vars => AggregationInd'
<1> SUFFICES ASSUME AggregationInd, [Next]_vars PROVE AggregationInd'
  OBVIOUS
<1>1. /\ AggTypes /\ SnapInv /\ PageInv /\ CountedOnce
      /\ ReachedInv /\ StartInv /\ LoadedInv /\ AnnouncedIsTargeted
      /\ IdentityInv /\ IdentityCountedOnce /\ ArchivedIsCounted
      /\ ScanInv /\ WaitInv
  BY DEF AggregationInd
<1>2. AggTypes' /\ SnapInv' /\ PageInv' /\ CountedOnce'
  BY <1>1, TypeStep, SnapStep, PageStep, CountedStep
<1>3. ReachedInv' /\ StartInv' /\ LoadedInv' /\ AnnouncedIsTargeted'
  BY <1>1, ReachedStep, StartStep, LoadedStep, AnnouncedStep
<1>4. IdentityInv' /\ IdentityCountedOnce' /\ ArchivedIsCounted'
  BY <1>1, IdentityStep, IdentityCountedStep, ArchivedStep
<1>5. ScanInv' /\ WaitInv'
  BY <1>1, ScanStep, WaitStep
<1> QED
  BY <1>2, <1>3, <1>4, <1>5 DEF AggregationInd

\* The inductive invariant holds of the aggregation, for any sizes.
THEOREM AggregationInvariant == Spec => []AggregationInd
<1> QED
  BY AggregationIndInit, AggregationIndStep, PTL DEF Spec

\* Rollups and identities count each event once, an announced event lies ahead
\* of the runner, and the archive takes only what all have counted (Apply...
\* AggregationPage, NotifyUsageCommitted and the archive job).
THEOREM AggregationCorrect == Spec => []AggregationInv
<1>1. AggregationInd => AggregationInv
  <2> SUFFICES ASSUME AggregationInd PROVE AggregationInv
    OBVIOUS
  <2>1. TypeOK
    <3>1. DbOK /\ MemOK /\ TurnOK /\ FlagsOK
      BY DEF AggregationInd, AggTypes
    <3>2. scanGen <= wantGen /\ target \in 0..top /\ pending \in 0..top /\ idAfter \in 0..ids
      BY <3>1 DEF MemOK
    <3>3. /\ owner \in [Events -> 0..MaxIdentity] /\ top \in 0..MaxEvent /\ hot \subseteq 1..top
          /\ cursor \in [Rollups -> 0..top] /\ ids \in 0..MaxIdentity
          /\ idCursor \in [Identities -> 0..top]
      BY <3>1 DEF DbOK
    <3>4. at \in 1..(RollupCount + 1)
      BY <3>1 DEF TurnOK
    <3>5. /\ unsaid \in BOOLEAN /\ loaded \in BOOLEAN /\ active \in BOOLEAN
          /\ reached \in BOOLEAN /\ wake \in BOOLEAN /\ timer \in BOOLEAN
      BY <3>1 DEF FlagsOK
    <3> QED
      BY <3>2, <3>3, <3>4, <3>5 DEF TypeOK
  <2> QED
    BY <2>1 DEF AggregationInd, AggregationInv
<1> QED
  BY <1>1, AggregationInvariant, PTL

\* A rollup behind the target of its turn finds an event to read, so "page is
\* empty before target" is never reported.
THEOREM PagesFilled == Spec => []PageHasEvents
<1>1. AggregationInd => PageHasEvents
  <2> SUFFICES ASSUME AggregationInd, pc = "page", at \in Rollups, ~ (snap[at] >= turn.target)
               PROVE  beyond(at) # {}
    BY DEF PageHasEvents
  <2>1. AggTypes /\ SnapInv /\ CountedOnce /\ ArchivedIsCounted
    BY DEF AggregationInd
  <2>2. /\ snap[at] \in Nat /\ turn.target \in Nat /\ turn.target <= top /\ top \in Nat
        /\ top <= MaxEvent
    BY <2>1, Bounds DEF AggTypes, TurnOK
  <2>3. cursor[at] = snap[at]
    BY <2>1, AggregationAssumption DEF SnapInv, Rollups
  <2>4. turn.target \in 1..top /\ turn.target \in Events
    BY <2>2, AggregationAssumption DEF Events
  <2>5. turn.target \in hot
    <3>1. ASSUME turn.target \notin hot PROVE FALSE
      <4>1. counts[at][turn.target] = 1
        BY <2>1, <2>4, <3>1 DEF ArchivedIsCounted
      <4>2. turn.target <= cursor[at]
        BY <2>1, <2>4, <4>1 DEF CountedOnce
      <4> QED
        BY <2>2, <2>3, <4>2
    <3> QED
      BY <3>1
  <2> QED
    BY <2>2, <2>5 DEF beyond
<1> QED
  BY <1>1, AggregationInvariant, PTL

\* When no scan of the identities is due, each one has counted every matching
\* event that was committed before the generation was last raised.
THEOREM ScansCover == Spec => []ScanCovers
<1>1. AggregationInd => ScanCovers
  <2> SUFFICES ASSUME AggregationInd, idAfter = 0, scanGen = wantGen,
                      NEW i \in 1..bumpIds
               PROVE  i \in covered
    BY DEF ScanCovers, covered
  <2>1. CoveredTo(bumpIds)
    BY DEF AggregationInd, ScanInv
  <2>2. bumpIds \in Nat
    BY Bounds DEF AggregationInd, AggTypes, SaidOK
  <2> QED
    BY <2>1, <2>2 DEF CoveredTo
<1> QED
  BY <1>1, AggregationInvariant, PTL

\* No wake-up is lost: a runner that blocks with no token and no timer has
\* brought every rollup up to what was announced, and owes no scan (Run).
THEOREM SleepCorrect == Spec => []SleepsOnlyWhenDone
<1>1. AggregationInd => SleepsOnlyWhenDone
  <2> SUFFICES ASSUME AggregationInd, pc = "wait", ~wake, ~timer
               PROVE  (\A k \in Rollups : cursor[k] >= announced) /\ ~identityPending
    BY DEF SleepsOnlyWhenDone
  <2>1. ~active /\ ~identityPending /\ ~ (pending > 0)
    BY DEF AggregationInd, WaitInv
  <2>2. loaded
    BY DEF AggregationInd, LoadedInv
  <2>3. AggTypes /\ AnnouncedIsTargeted
    BY DEF AggregationInd
  <2>4. announced \in Nat /\ pending \in Nat /\ cursor \in [Rollups -> 0..top] /\ top \in Nat
    BY <2>3, Bounds DEF AggTypes, SaidOK, MemOK, DbOK
  <2>5. ASSUME NEW k \in Rollups PROVE cursor[k] >= announced
    <3>1. cursor[k] \in Nat
      BY <2>4
    <3>2. cursor[k] < announced => announced <= pending
      BY <2>1, <2>2, <2>3 DEF AnnouncedIsTargeted
    <3> QED
      BY <2>1, <2>4, <3>1, <3>2
  <2> QED
    BY <2>1, <2>5
<1> QED
  BY <1>1, AggregationInvariant, PTL
=============================================================================
