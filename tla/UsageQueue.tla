----------------------------- MODULE UsageQueue -----------------------------
(***************************************************************************)
(* The local usage queue (internal/redisqueue/queue.go) and those who use  *)
(* it: the usage plugin that enqueues records, the RESP connections that   *)
(* subscribe (internal/api/redis_queue_protocol.go), the clients that pop  *)
(* (handlers/management/usage.go) and the forwarders that push the records *)
(* to Home, one per Home lifetime (sdk/cliproxy/service_home.go).          *)
(*                                                                         *)
(* Enqueue takes the queue's lock twice and reads enabled before: each is  *)
(* a step of its own.  The configuration says once and for all whether a   *)
(* process belongs to a Home: with one there are forwarders, the RESP port *)
(* and the management interface answer nobody, and the queue is never      *)
(* disabled; without one it is the other way round.          *)
(*                                                                         *)
(* What is popped from items[head:] is the sequence items here, compaction *)
(* is invisible.  The age of an item is left open: a prune may drop any    *)
(* prefix.                                                                 *)
(***************************************************************************)
EXTENDS Integers, Sequences, SequencesExt, FiniteSets, FiniteSetsExt

CONSTANTS
    Records,        \* usage records, each handed to the plugin once
    Subscribers,    \* RESP connections
    MaxForwarder,   \* forwarders are numbered by their Home lifetime
    Support,        \* usageSupportRefreshPayload
    Refresh,        \* usageRefreshPayload
    Buffer,         \* usageSubscriberBuffer
    Batch,          \* what the forwarder asks PopOldest for
    MaxRare         \* bound: NotifyUsageRefresh calls, SetEnabled(false) calls and
                    \* pushes that arrive and report an error, together

ASSUME QueueAssumption ==
    /\ Buffer \in Nat \ {0} /\ Batch \in Nat \ {0} /\ MaxForwarder \in Nat
    /\ MaxRare \in Nat
    /\ {Support, Refresh} \cap Records = {} /\ Support # Refresh
    /\ Records \cap 1..MaxForwarder = {}

Forwarders == 1..MaxForwarder
Enqueuers == Records \cup Forwarders

VARIABLES
    home,           \* whether the process belongs to a Home: never changes
    enabled, items, subs,   \* the package's state
    buf,            \* the buffered messages of each subscriber's channel
    closing,        \* close calls still to be made after an unlock
    closes,         \* close calls made on each channel
    todo, step,     \* what each enqueuer has still to enqueue, and where it is
    popper,         \* a client in PopOldest: past the check of enabled or not
    toggler,        \* where SetEnabled(false) is
    conn,           \* each RESP connection: "idle", "live" or "gone"
    fwd, batch,     \* where each forwarder is, and what is left of its batch
    ctxDone,        \* the lifetimes that are cancelled
    delivered,      \* history: how often each record has been handed over
    ambiguous,      \* history: arrived pushes of each record that were repeated
    lost,           \* history: how often a copy of each record was given up
    sent,           \* history: what was published while there were subscribers
    since, got,     \* history: where each subscription began, what was received
    rare            \* history: what MaxRare bounds

package == <<home, enabled, items, subs, buf, closing, closes>>
history == <<delivered, ambiguous, lost, sent, since, got>>
QueueVars == <<package, todo, step, popper, toggler, conn, fwd, batch, ctxDone,
          history, rare>>

QueueInit ==
    /\ home \in BOOLEAN
    /\ enabled = TRUE /\ items = <<>> /\ subs = {}
    /\ buf = [s \in Subscribers |-> <<>>]
    /\ closing = [s \in Subscribers |-> 0] /\ closes = [s \in Subscribers |-> 0]
    /\ todo = [a \in Enqueuers |-> <<>>] /\ step = [a \in Enqueuers |-> "idle"]
    /\ popper = "idle" /\ toggler = "idle"
    /\ conn = [s \in Subscribers |-> "idle"]
    /\ fwd = [f \in Forwarders |-> "off"] /\ batch = [f \in Forwarders |-> <<>>]
    /\ ctxDone = {}
    /\ delivered = [r \in Records |-> 0] /\ ambiguous = [r \in Records |-> 0]
    /\ lost = [r \in Records |-> 0]
    /\ sent = <<>>
    /\ since = [s \in Subscribers |-> 0] /\ got = [s \in Subscribers |-> <<>>]
    /\ rare = 0

\* How often r occurs in a sequence, and the counts of a function with those added.
occurs(r, seq) == Cardinality({i \in DOMAIN seq : seq[i] = r})
plus(count, seq) == [r \in Records |-> count[r] + occurs(r, seq)]

(***************************************************************************)
(* publishToSubscribers, under the lock: a subscriber whose buffer is full *)
(* is removed and its channel closed.                                      *)
(***************************************************************************)
full == {s \in subs : Len(buf[s]) >= Buffer}

\* Mutant of publishToSubscribers: a full subscriber just misses the message.
publishSkipsFull(payload) ==
    /\ buf' = [s \in Subscribers |-> IF s \in subs \ full THEN Append(buf[s], payload) ELSE buf[s]]
    /\ sent' = Append(sent, payload)
    /\ UNCHANGED <<subs, closes>>

publishToSubscribers(payload) ==
    /\ buf' = [s \in Subscribers |-> IF s \in subs \ full THEN Append(buf[s], payload) ELSE buf[s]]
    /\ subs' = subs \ full
    /\ closes' = [s \in Subscribers |-> closes[s] + (IF s \in full THEN 1 ELSE 0)]
    /\ sent' = Append(sent, payload)

NotifyUsageRefresh ==
    /\ rare < MaxRare
    /\ subs # {}
    /\ publishToSubscribers(Refresh)
    /\ rare' = rare + 1
    /\ UNCHANGED <<home, enabled, items, closing, todo, step, popper, toggler, conn, fwd,
                   batch, ctxDone, delivered, ambiguous, lost, since, got>>

(***************************************************************************)
(* Enqueue, called by the plugin's HandleUsage and by a forwarder.         *)
(***************************************************************************)
HandleUsage(r) ==
    /\ step[r] = "idle"
    /\ todo' = [todo EXCEPT ![r] = <<r>>]
    /\ step' = [step EXCEPT ![r] = "check"]
    /\ UNCHANGED <<package, popper, toggler, conn, fwd, batch, ctxDone, history, rare>>

\* The enqueuer is through with the first record of its list.
Enqueued(a) ==
    /\ todo' = [todo EXCEPT ![a] = Tail(@)]
    /\ step' = [step EXCEPT ![a] = IF Len(todo[a]) = 1 THEN "done" ELSE "check"]

EnqueueCheck(a) ==
    /\ step[a] = "check"
    /\ \/ /\ enabled
          /\ step' = [step EXCEPT ![a] = "publish"]
          /\ UNCHANGED <<todo, lost>>
       \/ /\ ~enabled
          /\ lost' = plus(lost, <<Head(todo[a])>>)
          /\ Enqueued(a)
    /\ UNCHANGED <<package, popper, toggler, conn, fwd, batch, ctxDone, delivered,
                   ambiguous, sent, since, got, rare>>

\* A record every subscriber is too full for is gone: Enqueue does not queue it.
EnqueuePublish(a) ==
    /\ step[a] = "publish"
    /\ \/ /\ subs = {}
          /\ step' = [step EXCEPT ![a] = "append"]
          /\ UNCHANGED <<subs, buf, closes, sent, todo, delivered, lost>>
       \/ /\ subs # {}
          /\ publishToSubscribers(Head(todo[a]))
          /\ \/ /\ full # subs /\ delivered' = plus(delivered, <<Head(todo[a])>>)
                /\ UNCHANGED lost
             \/ /\ full = subs /\ lost' = plus(lost, <<Head(todo[a])>>)
                /\ UNCHANGED delivered
          /\ Enqueued(a)
    /\ UNCHANGED <<home, enabled, items, closing, popper, toggler, conn, fwd, batch, ctxDone,
                   ambiguous, since, got, rare>>

EnqueueAppend(a, expired) ==
    /\ step[a] = "append"
    /\ items' = Append(SubSeq(items, expired + 1, Len(items)), Head(todo[a]))
    /\ lost' = plus(lost, SubSeq(items, 1, expired))
    /\ Enqueued(a)
    /\ UNCHANGED <<home, enabled, subs, buf, closing, closes, popper, toggler, conn, fwd, batch,
                   ctxDone, delivered, ambiguous, sent, since, got, rare>>

(***************************************************************************)
(* PopOldest by a client of the management interface or of the RESP        *)
(* protocol.                                                               *)
(***************************************************************************)
PopCheck ==
    /\ ~home
    /\ popper = "idle"
    /\ enabled
    /\ popper' = "pop"
    /\ UNCHANGED <<package, todo, step, toggler, conn, fwd, batch, ctxDone, history, rare>>

Pop(expired, count) ==
    /\ popper = "pop"
    /\ expired + count <= Len(items)
    /\ popper' = "idle"
    /\ items' = SubSeq(items, expired + count + 1, Len(items))
    /\ delivered' = plus(delivered, SubSeq(items, expired + 1, expired + count))
    /\ lost' = plus(lost, SubSeq(items, 1, expired))
    /\ UNCHANGED <<home, enabled, subs, buf, closing, closes, todo, step, toggler, conn, fwd,
                   batch, ctxDone, ambiguous, sent, since, got, rare>>

(***************************************************************************)
(* SetEnabled: the flag, then clear, whose close calls follow the unlock.  *)
(* It is given TRUE whenever the process belongs to a Home.                *)
(***************************************************************************)
SetEnabled(value) ==
    /\ ~home
    /\ toggler = "idle"
    /\ enabled # value
    /\ value \/ rare < MaxRare
    /\ enabled' = value
    /\ toggler' = IF value THEN "idle" ELSE "clear"
    /\ rare' = IF value THEN rare ELSE rare + 1
    /\ UNCHANGED <<home, items, subs, buf, closing, closes, todo, step, popper, conn, fwd,
                   batch, ctxDone, history>>

\* Mutant of clear: the closed channels stay in the map.
clearKeepsMap ==
    /\ toggler = "clear"
    /\ toggler' = "idle"
    /\ lost' = plus(lost, items)
    /\ items' = <<>>
    /\ closing' = [s \in Subscribers |-> closing[s] + (IF s \in subs THEN 1 ELSE 0)]
    /\ UNCHANGED <<home, enabled, subs, buf, closes, todo, step, popper, conn, fwd, batch, ctxDone,
                   delivered, ambiguous, sent, since, got, rare>>

clear ==
    /\ toggler = "clear"
    /\ toggler' = "idle"
    /\ lost' = plus(lost, items)
    /\ items' = <<>>
    /\ closing' = [s \in Subscribers |-> closing[s] + (IF s \in subs THEN 1 ELSE 0)]
    /\ subs' = {}
    /\ UNCHANGED <<home, enabled, buf, closes, todo, step, popper, conn, fwd, batch, ctxDone,
                   delivered, ambiguous, sent, since, got, rare>>

Close(s) ==
    /\ closing[s] > 0
    /\ closing' = [closing EXCEPT ![s] = @ - 1]
    /\ closes' = [closes EXCEPT ![s] = @ + 1]
    /\ UNCHANGED <<home, enabled, items, subs, buf, todo, step, popper, toggler, conn, fwd, batch,
                   ctxDone, history, rare>>

(***************************************************************************)
(* A RESP connection: subscribe, the streaming loop, and the deferred      *)
(* unsubscribe when the client leaves or the channel is closed and empty.  *)
(***************************************************************************)
Subscribe(s) ==
    /\ ~home
    /\ conn[s] = "idle"
    /\ conn' = [conn EXCEPT ![s] = "live"]
    /\ buf' = [buf EXCEPT ![s] = <<Support>>]
    /\ subs' = subs \cup {s}
    /\ since' = [since EXCEPT ![s] = Len(sent)]
    /\ UNCHANGED <<home, enabled, items, closing, closes, todo, step, popper, toggler, fwd, batch,
                   ctxDone, delivered, ambiguous, lost, sent, got, rare>>

Receive(s) ==
    /\ conn[s] = "live"
    /\ buf[s] # <<>>
    /\ buf' = [buf EXCEPT ![s] = Tail(@)]
    /\ got' = [got EXCEPT ![s] = Append(@, Head(buf[s]))]
    /\ UNCHANGED <<home, enabled, items, subs, closing, closes, todo, step, popper, toggler, conn,
                   fwd, batch, ctxDone, delivered, ambiguous, lost, sent, since, rare>>

unsubscribe(s) ==
    /\ conn[s] = "live"
    /\ conn' = [conn EXCEPT ![s] = "gone"]
    /\ subs' = subs \ {s}
    /\ closing' = [closing EXCEPT ![s] = @ + (IF s \in subs THEN 1 ELSE 0)]
    /\ UNCHANGED <<home, enabled, items, buf, closes, todo, step, popper, toggler, fwd, batch,
                   ctxDone, history, rare>>

(***************************************************************************)
(* startHomeUsageForwarder: one goroutine per Home lifetime, started when  *)
(* the lifetime before it is cancelled, not when its forwarder has ended.  *)
(***************************************************************************)
StartForwarder(f) ==
    /\ home
    /\ fwd[f] = "off"
    /\ 1..(f - 1) \subseteq ctxDone
    /\ fwd' = [fwd EXCEPT ![f] = "loop"]
    /\ UNCHANGED <<package, todo, step, popper, toggler, conn, batch, ctxDone, history, rare>>

Cancel(f) ==
    /\ fwd[f] # "off"
    /\ f < MaxForwarder
    /\ f \notin ctxDone
    /\ ctxDone' = ctxDone \cup {f}
    /\ UNCHANGED <<package, todo, step, popper, toggler, conn, fwd, batch, history, rare>>

ForwarderLoop(f, heartbeatOK) ==
    /\ fwd[f] = "loop"
    /\ fwd' = [fwd EXCEPT ![f] = IF f \in ctxDone THEN "ended"
                                 ELSE IF heartbeatOK /\ enabled THEN "pop" ELSE "asleep"]
    /\ UNCHANGED <<package, todo, step, popper, toggler, conn, batch, ctxDone, history, rare>>

\* Mutant of ForwarderPop: an empty batch is not told apart.
ForwarderPopEmpty(f, expired) ==
    LET count == Min({Batch, Len(items) - expired})
    IN  /\ fwd[f] = "pop"
        /\ fwd' = [fwd EXCEPT ![f] = "push"]
        /\ batch' = [batch EXCEPT ![f] = SubSeq(items, expired + 1, expired + count)]
        /\ items' = SubSeq(items, expired + count + 1, Len(items))
        /\ lost' = plus(lost, SubSeq(items, 1, expired))
        /\ UNCHANGED <<home, enabled, subs, buf, closing, closes, todo, step, popper, toggler, conn,
                       ctxDone, delivered, ambiguous, sent, since, got, rare>>

ForwarderPop(f, expired) ==
    LET count == Min({Batch, Len(items) - expired})
    IN  /\ fwd[f] = "pop"
        /\ fwd' = [fwd EXCEPT ![f] = IF count = 0 THEN "asleep" ELSE "push"]
        /\ batch' = [batch EXCEPT ![f] = SubSeq(items, expired + 1, expired + count)]
        /\ items' = SubSeq(items, expired + count + 1, Len(items))
        /\ lost' = plus(lost, SubSeq(items, 1, expired))
        /\ UNCHANGED <<home, enabled, subs, buf, closing, closes, todo, step, popper, toggler, conn,
                       ctxDone, delivered, ambiguous, sent, since, got, rare>>

PushOK(f) ==
    /\ fwd[f] = "push"
    /\ delivered' = plus(delivered, <<Head(batch[f])>>)
    /\ batch' = [batch EXCEPT ![f] = Tail(@)]
    /\ fwd' = [fwd EXCEPT ![f] = IF Len(batch[f]) = 1 THEN "loop" ELSE "push"]
    /\ UNCHANGED <<package, todo, step, popper, toggler, conn, ctxDone, ambiguous, lost, sent,
                   since, got, rare>>

\* Mutant of PushFails: the failed record is taken for delivered.
PushFailsSkips(f, arrived) ==
    /\ fwd[f] = "push"
    /\ ~arrived
    /\ Len(batch[f]) > 1
    /\ todo' = [todo EXCEPT ![f] = Tail(batch[f])]
    /\ step' = [step EXCEPT ![f] = "check"]
    /\ batch' = [batch EXCEPT ![f] = <<>>]
    /\ fwd' = [fwd EXCEPT ![f] = "requeue"]
    /\ UNCHANGED <<package, popper, toggler, conn, ctxDone, history, rare>>

\* An error puts this record and the rest of the batch back; the push may have
\* arrived all the same.
PushFails(f, arrived) ==
    /\ fwd[f] = "push"
    /\ todo' = [todo EXCEPT ![f] = batch[f]]
    /\ step' = [step EXCEPT ![f] = "check"]
    /\ batch' = [batch EXCEPT ![f] = <<>>]
    /\ fwd' = [fwd EXCEPT ![f] = "requeue"]
    /\ \/ ~arrived /\ UNCHANGED <<delivered, ambiguous, rare>>
       \/ /\ arrived
          /\ rare < MaxRare
          /\ rare' = rare + 1
          /\ delivered' = plus(delivered, <<Head(batch[f])>>)
          /\ ambiguous' = plus(ambiguous, <<Head(batch[f])>>)
    /\ UNCHANGED <<package, popper, toggler, conn, ctxDone, lost, sent, since, got>>

Requeued(f) ==
    /\ fwd[f] = "requeue"
    /\ step[f] = "done"
    /\ step' = [step EXCEPT ![f] = "idle"]
    /\ fwd' = [fwd EXCEPT ![f] = "asleep"]
    /\ UNCHANGED <<package, todo, popper, toggler, conn, batch, ctxDone, history, rare>>

\* Mutant of ForwarderWakes: the forwarder ends after its first pause.
ForwarderWakesToEnd(f) ==
    /\ fwd[f] = "asleep"
    /\ fwd' = [fwd EXCEPT ![f] = "ended"]
    /\ UNCHANGED <<package, todo, step, popper, toggler, conn, batch, ctxDone, history, rare>>

ForwarderWakes(f) ==
    /\ fwd[f] = "asleep"
    /\ fwd' = [fwd EXCEPT ![f] = IF f \in ctxDone THEN "ended" ELSE "loop"]
    /\ UNCHANGED <<package, todo, step, popper, toggler, conn, batch, ctxDone, history, rare>>

Enqueue(a) ==
    \/ EnqueueCheck(a)
    \/ EnqueuePublish(a)
    \/ \E expired \in 0..Len(items) : EnqueueAppend(a, expired)

QueueNext ==
    \/ NotifyUsageRefresh \/ PopCheck \/ clear
    \/ \E expired, count \in 0..Len(items) : Pop(expired, count)
    \/ \E value \in BOOLEAN : SetEnabled(value)
    \/ \E r \in Records : HandleUsage(r)
    \/ \E a \in Enqueuers : Enqueue(a)
    \/ \E s \in Subscribers : Subscribe(s) \/ Receive(s) \/ unsubscribe(s) \/ Close(s)
    \/ \E f \in Forwarders :
        \/ StartForwarder(f) \/ Cancel(f) \/ PushOK(f) \/ Requeued(f) \/ ForwarderWakes(f)
        \/ \E heartbeatOK \in BOOLEAN : ForwarderLoop(f, heartbeatOK)
        \/ \E expired \in 0..Len(items) : ForwarderPop(f, expired)
        \/ \E arrived \in BOOLEAN : PushFails(f, arrived)

QueueSpec == QueueInit /\ [][QueueNext]_QueueVars

\* Goroutines that can go on do, timers fire, a cancelled lifetime is followed by the
\* next; Home's heartbeat and its pushes succeed again and again.  The clients, of whom
\* there are some only without Home, owe nothing: none has to pop, subscribe or read.
QueueFairness ==
    /\ \A r \in Records : WF_QueueVars(Enqueue(r))
    /\ \A f \in Forwarders :
        WF_QueueVars(\/ StartForwarder(f) \/ Enqueue(f) \/ Requeued(f) \/ ForwarderWakes(f)
                \/ \E expired \in 0..Len(items) : ForwarderPop(f, expired))
    /\ SF_QueueVars(\E f \in Forwarders : ForwarderLoop(f, TRUE))
    /\ SF_QueueVars(\E f \in Forwarders : PushOK(f))

QueueLiveSpec == QueueSpec /\ QueueFairness

(***************************************************************************)
(* Properties.                                                             *)
(***************************************************************************)
QueueTypeOK ==
    /\ {home, enabled} \subseteq BOOLEAN /\ ToSet(items) \subseteq Records
    /\ subs \subseteq Subscribers
    /\ \A s \in Subscribers :
        /\ ToSet(buf[s]) \subseteq Records \cup {Support, Refresh}
        /\ Len(buf[s]) <= Buffer
    /\ closing \in [Subscribers -> Nat] /\ closes \in [Subscribers -> Nat]
    /\ \A a \in Enqueuers :
        /\ step[a] \in {"idle", "check", "publish", "append", "done"}
        /\ (todo[a] # <<>>) = (step[a] \in {"check", "publish", "append"})
    /\ popper \in {"idle", "pop"} /\ toggler \in {"idle", "clear"}
    /\ conn \in [Subscribers -> {"idle", "live", "gone"}]
    /\ \A f \in Forwarders :
        /\ fwd[f] \in {"off", "loop", "pop", "push", "requeue", "asleep", "ended"}
        /\ (batch[f] # <<>>) = (fwd[f] = "push")
        /\ (step[f] # "idle") = (fwd[f] = "requeue")

\* Where a record that is not handed over yet can be.
places(r, lists) ==
    UNION {{a} \X {i \in DOMAIN lists[a] : lists[a][i] = r} : a \in DOMAIN lists}
copies(r) ==
    occurs(r, items) + Cardinality(places(r, todo)) + Cardinality(places(r, batch))

\* Whatever publishers, poppers, forwarders and subscribers do between the steps
\* of Enqueue and around a failing push, every record is in one place, handed
\* over once, or given up for a reason the code has (the queue disabled or
\* cleared, the retention over, every subscriber full); only a push that arrived
\* and reported an error makes a second copy.
Conserved ==
    \A r \in Records : step[r] # "idle" =>
        copies(r) + delivered[r] + lost[r] = 1 + ambiguous[r]

\* publishToSubscribers, clear and unsubscribe each take a channel out of the map
\* before they close it: none is closed twice, none sent on after its close.
ClosedOnce ==
    \A s \in Subscribers : closing[s] + closes[s] <= IF s \in subs THEN 0 ELSE 1

\* A subscriber's stream has no gaps: while it is registered it gets everything
\* that is published, and a slow one is cut off rather than left to miss one.
StreamsHaveNoGaps ==
    \A s \in Subscribers : conn[s] # "idle" =>
        LET stream == got[s] \o buf[s]
            all == <<Support>> \o SubSeq(sent, since[s] + 1, Len(sent))
        IN  IF s \in subs THEN stream = all ELSE IsPrefix(stream, all)

\* With Home every record that is enqueued is pushed or expires in the end: none stays
\* in the batch of a cancelled forwarder, or in the queue after a failed push.  Without
\* Home a record may wait in the queue for a client to pop it, for good when a subscriber
\* arrives between the two halves of Enqueue and nobody pops.
RecordsSettle ==
    \A r \in Records : step[r] = "check" ~>
        \/ copies(r) = 0
        \/ ~home /\ r \in ToSet(items)

(***************************************************************************)
(* What subscribers can rely on, in one invariant: besides the types,      *)
(* their channels are closed once and their streams have no gaps.          *)
(***************************************************************************)
QueueInv ==
    /\ QueueTypeOK
    /\ ClosedOnce
    /\ StreamsHaveNoGaps
=============================================================================
