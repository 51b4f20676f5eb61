--------------------------- MODULE ReleaseFlusher ---------------------------
(***************************************************************************)
(* The release flusher (internal/home/concurrency_release.go): the sink of *)
(* the execution registry.  MarkDirty remembers the latest cumulative      *)
(* sequence of a group and hands out a ticket; Run, one goroutine per      *)
(* subscriber lifetime, sends the dirty groups to Home and completes the   *)
(* tickets that an acknowledgement covers; Flush forces a round and waits. *)
(*                                                                         *)
(* Time is left out: an armed timer may fire at any moment, a due one      *)
(* has been reset to 0.  Tickets of one group and sequence share their     *)
(* fate, so a ticket is named by the pair.                                 *)
(***************************************************************************)
EXTENDS Integers, FiniteSets

CONSTANTS
    Groups,         \* release groups (credential, model)
    MaxSeq,         \* bound: largest cumulative sequence of a group
    MaxLifetime     \* bound: subscriber lifetimes, each with its own sender

ASSUME MaxSeqAssumption == MaxSeq \in Nat
ASSUME MaxLifetimeAssumption == MaxLifetime \in Nat

Seqs == 1..MaxSeq

VARIABLES
    latest,         \* releaseState.Latest
    acked,          \* releaseState.Acked
    waiters,        \* releaseState.waiters: the sequences with an open ticket
    tickets,        \* history: every (group, sequence) MarkDirty was called with
    unsignalled,    \* MarkDirty calls between the unlock and signal()
    wake,           \* the wake channel holds a token
    force,          \* the force channel holds Flush's context
    sender,         \* releaseFlusher.send: a lifetime, or 0 for nil
    run,            \* the Run goroutine: "stopped", "select" or "flush"
    cancelled,      \* the lifetime's release context is cancelled
    timer,          \* "due" or "armed"
    backingOff,     \* Run's backingOff
    batch,          \* flush: the (group, sequence) pairs still to send
    sending,        \* flush: the pair in send() with its outcome; {} if none
    failed,         \* flush's failed
    flushCall,      \* a Flush call: "idle", "waiting", "ok" or "timeout"
    flushTarget,    \* history: latest when Flush was called
    homeSeq,        \* external: the cumulative sequence Home has recorded
    late            \* frames whose send() failed but which may still arrive

groupVars == <<latest, acked, waiters>>
runVars == <<run, cancelled, timer, backingOff, batch, sending, failed>>
flushVars == <<flushCall, flushTarget>>
homeVars == <<homeSeq, late>>
vars == <<latest, acked, waiters, tickets, unsignalled, wake, force, sender,
          run, cancelled, timer, backingOff, batch, sending, failed,
          flushCall, flushTarget, homeSeq, late>>

Larger(a, b) == IF a > b THEN a ELSE b

Init ==
    /\ latest = [g \in Groups |-> 0] /\ acked = [g \in Groups |-> 0]
    /\ waiters = [g \in Groups |-> {}]
    /\ tickets = {} /\ unsignalled = {}
    /\ wake = FALSE /\ force = FALSE
    /\ sender = 0
    /\ run = "stopped" /\ cancelled = FALSE
    /\ timer = "due" /\ backingOff = FALSE
    /\ batch = {} /\ sending = {} /\ failed = FALSE
    /\ flushCall = "idle" /\ flushTarget = [g \in Groups |-> 0]
    /\ homeSeq = [g \in Groups |-> 0] /\ late = {}

(***************************************************************************)
(* MarkDirty, the release sink: the state is updated under the lock, Run   *)
(* is woken after it.                                                      *)
(***************************************************************************)
\* Mutant of MarkDirty: the latest call wins, not the largest sequence.
MarkDirtyOverwrites(g, n) ==
    /\ <<g, n>> \notin unsignalled
    /\ tickets' = tickets \cup {<<g, n>>}
    /\ unsignalled' = unsignalled \cup {<<g, n>>}
    /\ IF n <= acked[g]
       THEN UNCHANGED groupVars
       ELSE /\ waiters' = [waiters EXCEPT ![g] = @ \cup {n}]
            /\ latest' = [latest EXCEPT ![g] = n]
            /\ UNCHANGED acked
    /\ UNCHANGED <<wake, force, sender, runVars, flushVars, homeVars>>

\* Mutant of MarkDirty: off by one, the next sequence is remembered.
MarkDirtyNext(g, n) ==
    /\ <<g, n>> \notin unsignalled
    /\ tickets' = tickets \cup {<<g, n>>}
    /\ unsignalled' = unsignalled \cup {<<g, n>>}
    /\ waiters' = [waiters EXCEPT ![g] = @ \cup {n}]
    /\ latest' = [latest EXCEPT ![g] = Larger(@, n + 1)]
    /\ UNCHANGED <<acked, wake, force, sender, runVars, flushVars, homeVars>>

MarkDirty(g, n) ==
    /\ <<g, n>> \notin unsignalled
    /\ tickets' = tickets \cup {<<g, n>>}
    /\ unsignalled' = unsignalled \cup {<<g, n>>}
    /\ IF n <= acked[g]
       THEN UNCHANGED groupVars
       ELSE /\ waiters' = [waiters EXCEPT ![g] = @ \cup {n}]
            /\ latest' = [latest EXCEPT ![g] = Larger(@, n)]
            /\ UNCHANGED acked
    /\ UNCHANGED <<wake, force, sender, runVars, flushVars, homeVars>>

\* signal(): a token is put in the channel unless it holds one.
Signal(g, n) ==
    /\ <<g, n>> \in unsignalled
    /\ unsignalled' = unsignalled \ {<<g, n>>}
    /\ wake' = TRUE
    /\ UNCHANGED <<groupVars, tickets, force, sender, runVars, flushVars, homeVars>>

(***************************************************************************)
(* A subscriber lifetime: SetConfigProvider and SetSender (both signal),   *)
(* then a Run goroutine with a fresh timer; it ends when the lifetime's    *)
(* context is cancelled, at its next select.                               *)
(***************************************************************************)
RunStart ==
    /\ run = "stopped"
    /\ sender < MaxLifetime
    /\ sender' = sender + 1
    /\ wake' = TRUE
    /\ run' = "select" /\ cancelled' = FALSE
    /\ timer' = "due" /\ backingOff' = FALSE
    /\ UNCHANGED <<groupVars, tickets, unsignalled, force, batch, sending,
                   failed, flushVars, homeVars>>

RunCancel ==
    /\ run # "stopped" /\ ~cancelled
    /\ cancelled' = TRUE
    /\ UNCHANGED <<groupVars, tickets, unsignalled, wake, force, sender, run,
                   timer, backingOff, batch, sending, failed, flushVars, homeVars>>

RunStop ==
    /\ run = "select" /\ cancelled
    /\ run' = "stopped"
    /\ UNCHANGED <<groupVars, tickets, unsignalled, wake, force, sender,
                   cancelled, timer, backingOff, batch, sending, failed,
                   flushVars, homeVars>>

\* Mutant of TakeWake: the token is taken, the timer not reset.
TakeWakeOnly ==
    /\ run = "select" /\ wake
    /\ wake' = FALSE
    /\ UNCHANGED <<groupVars, tickets, unsignalled, force, sender, runVars,
                   flushVars, homeVars>>

TakeWake ==
    /\ run = "select" /\ wake
    /\ wake' = FALSE
    /\ timer' = IF backingOff THEN timer ELSE "due"
    /\ UNCHANGED <<groupVars, tickets, unsignalled, force, sender, run,
                   cancelled, backingOff, batch, sending, failed, flushVars,
                   homeVars>>

(***************************************************************************)
(* flush: the dirty groups are copied under the lock, sent without it and  *)
(* acknowledged under it, one by one in map order.                         *)
(***************************************************************************)
startFlush ==
    /\ run' = "flush"
    /\ batch' = {<<g, latest[g]>> : g \in {h \in Groups : latest[h] > acked[h]}}
    /\ failed' = FALSE
    /\ UNCHANGED <<groupVars, tickets, unsignalled, wake, sender, cancelled,
                   timer, backingOff, sending, flushVars, homeVars>>

TakeForce == run = "select" /\ force /\ force' = FALSE /\ startFlush

TimerFires == run = "select" /\ UNCHANGED force /\ startFlush

\* send() of one frame: Home may record it or not, and may record it only
\* after send() gave up; an error never tells which.
SendAcked(g, n) ==
    /\ run = "flush" /\ sending = {} /\ <<g, n>> \in batch
    /\ homeSeq' = [homeSeq EXCEPT ![g] = Larger(@, n)]
    /\ batch' = batch \ {<<g, n>>}
    /\ sending' = {<<g, n>>}
    /\ UNCHANGED <<groupVars, tickets, unsignalled, wake, force, sender, run,
                   cancelled, timer, backingOff, failed, flushVars, late>>

\* Mutant of SendFailed: the error is ignored and the pair acknowledged.
SendErrorIgnored(g, n) ==
    /\ run = "flush" /\ sending = {} /\ <<g, n>> \in batch
    /\ batch' = batch \ {<<g, n>>}
    /\ sending' = {<<g, n>>}
    /\ UNCHANGED <<groupVars, tickets, unsignalled, wake, force, sender, run,
                   cancelled, timer, backingOff, failed, flushVars, homeVars>>

SendFailed(g, n) ==
    /\ run = "flush" /\ sending = {} /\ <<g, n>> \in batch
    /\ batch' = batch \ {<<g, n>>}
    /\ failed' = TRUE
    /\ late' \in {late, late \cup {<<g, n>>}}
    /\ UNCHANGED <<groupVars, tickets, unsignalled, wake, force, sender, run,
                   cancelled, timer, backingOff, sending, flushVars, homeSeq>>

LateFrame(g, n) ==
    /\ <<g, n>> \in late
    /\ homeSeq' = [homeSeq EXCEPT ![g] = Larger(@, n)]
    /\ late' = late \ {<<g, n>>}
    /\ UNCHANGED <<groupVars, tickets, unsignalled, wake, force, sender,
                   runVars, flushVars>>

\* Mutant of Acknowledge: the latest sequence is acknowledged, not the one sent.
AcknowledgeLatest(g, n) ==
    /\ <<g, n>> \in sending
    /\ acked' = [acked EXCEPT ![g] = latest[g]]
    /\ waiters' = [waiters EXCEPT ![g] = {m \in @ : m > acked'[g]}]
    /\ sending' = {}
    /\ UNCHANGED <<latest, tickets, unsignalled, wake, force, sender, run,
                   cancelled, timer, backingOff, batch, failed, flushVars, homeVars>>

\* Mutant of Acknowledge: off by one, the ticket of the sent sequence stays open.
AcknowledgeBelow(g, n) ==
    /\ <<g, n>> \in sending
    /\ acked' = [acked EXCEPT ![g] = Larger(@, n)]
    /\ waiters' = [waiters EXCEPT ![g] = {m \in @ : m >= acked'[g]}]
    /\ sending' = {}
    /\ UNCHANGED <<latest, tickets, unsignalled, wake, force, sender, run,
                   cancelled, timer, backingOff, batch, failed, flushVars, homeVars>>

Acknowledge(g, n) ==
    /\ <<g, n>> \in sending
    /\ acked' = [acked EXCEPT ![g] = Larger(@, n)]
    /\ waiters' = [waiters EXCEPT ![g] = {m \in @ : m > acked'[g]}]
    /\ sending' = {}
    /\ UNCHANGED <<latest, tickets, unsignalled, wake, force, sender, run,
                   cancelled, timer, backingOff, batch, failed, flushVars, homeVars>>

\* nextDelay: a failure backs off, so that only the timer starts a new round.
FlushEnd ==
    /\ run = "flush" /\ batch = {} /\ sending = {}
    /\ run' = "select"
    /\ timer' = "armed"
    /\ backingOff' = failed
    /\ UNCHANGED <<groupVars, tickets, unsignalled, wake, force, sender,
                   cancelled, batch, sending, failed, flushVars, homeVars>>

(***************************************************************************)
(* Flush: force a round, then poll until no group is dirty or the context  *)
(* expires.                                                                *)
(***************************************************************************)
idle == \A g \in Groups : latest[g] <= acked[g]

FlushStart ==
    /\ flushCall = "idle"
    /\ flushCall' = "waiting"
    /\ flushTarget' = latest
    /\ force' = TRUE
    /\ UNCHANGED <<groupVars, tickets, unsignalled, wake, sender, runVars, homeVars>>

\* Mutant of FlushReturns: Flush does not look whether a group is dirty.
FlushReturnsAtOnce ==
    /\ flushCall = "waiting"
    /\ flushCall' = "ok"
    /\ UNCHANGED <<groupVars, tickets, unsignalled, wake, force, sender,
                   runVars, flushTarget, homeVars>>

FlushReturns ==
    /\ flushCall = "waiting"
    /\ \/ idle /\ flushCall' = "ok"
       \/ flushCall' = "timeout"
    /\ UNCHANGED <<groupVars, tickets, unsignalled, wake, force, sender,
                   runVars, flushTarget, homeVars>>

Rounds ==
    \/ TakeWake \/ TakeForce \/ TimerFires \/ FlushEnd
    \/ \E g \in Groups, n \in Seqs :
          SendAcked(g, n) \/ SendFailed(g, n) \/ Acknowledge(g, n)

Next ==
    \/ \E g \in Groups, n \in Seqs : MarkDirty(g, n) \/ Signal(g, n) \/ LateFrame(g, n)
    \/ RunStart \/ RunCancel \/ RunStop
    \/ Rounds
    \/ FlushStart \/ FlushReturns

Spec == Init /\ [][Next]_vars

(***************************************************************************)
(* Fairness.  The Run goroutine keeps taking rounds and a new lifetime     *)
(* follows a cancelled one; a pending signal is sent.  Home answers: the   *)
(* sends of a group do not fail for ever.                                  *)
(***************************************************************************)
Fairness ==
    /\ WF_vars(RunStart) /\ WF_vars(RunStop)
    /\ SF_vars(TimerFires) /\ WF_vars(FlushEnd)
    /\ \A g \in Groups, n \in Seqs :
          /\ WF_vars(SendAcked(g, n) \/ SendFailed(g, n))
          /\ SF_vars(SendAcked(g, n))
          /\ WF_vars(Acknowledge(g, n))

FairSpec == Spec /\ Fairness

-----------------------------------------------------------------------------
\* The values the variables take (concurrency_release.go, releaseState).
TypeOK ==
    /\ latest \in [Groups -> 0..MaxSeq] /\ acked \in [Groups -> 0..MaxSeq]
    /\ waiters \in [Groups -> SUBSET Seqs]
    /\ tickets \subseteq Groups \X Seqs /\ unsignalled \subseteq Groups \X Seqs
    /\ wake \in BOOLEAN /\ force \in BOOLEAN
    /\ sender \in 0..MaxLifetime
    /\ run \in {"stopped", "select", "flush"} /\ cancelled \in BOOLEAN
    /\ timer \in {"due", "armed"} /\ backingOff \in BOOLEAN
    /\ batch \subseteq Groups \X Seqs /\ sending \subseteq Groups \X Seqs
    /\ failed \in BOOLEAN
    /\ flushCall \in {"idle", "waiting", "ok", "timeout"}
    /\ flushTarget \in [Groups -> 0..MaxSeq]
    /\ homeSeq \in [Groups -> 0..MaxSeq] /\ late \subseteq Groups \X Seqs

\* A ticket is completed only when Home has recorded a sequence that covers it,
\* although new sequences are marked while an older one is being sent and
\* although calls may arrive out of order (concurrency_release.go 85, 216-228).
DoneTicketsAreRecorded ==
    \A t \in tickets : t[2] \notin waiters[t[1]] => homeSeq[t[1]] >= t[2]

\* An open ticket is always covered by a send still to come: it is beyond what
\* was acknowledged and not beyond the latest sequence.
OpenTicketsArePending ==
    \A g \in Groups : \A n \in waiters[g] : acked[g] < n /\ n <= latest[g]

\* Unless Run is backing off after a failure, a dirty group never has to wait
\* for the flush interval: the timer is due, or a wake-up is in the channel or
\* about to be put there by the MarkDirty that made it dirty.
DirtyIsPrompt ==
    run = "select" /\ ~backingOff /\ ~idle
        => wake \/ timer = "due" \/ unsignalled # {}

\* Flush returns nil only when everything that was marked before it was called
\* has been acknowledged by Home.
FlushCovers ==
    flushCall = "ok" => \A g \in Groups : acked[g] >= flushTarget[g] /\ homeSeq[g] >= flushTarget[g]

\* Every ticket is eventually completed as long as Home answers and some
\* lifetime stays up, whatever failed, was cancelled or backed off before.
TicketsComplete ==
    \A g \in Groups, n \in Seqs :
        <<g, n>> \in tickets ~> (n \notin waiters[g] \/ (run = "stopped" /\ sender = MaxLifetime))

-----------------------------------------------------------------------------
\* The tickets whose channel was closed.
DoneTickets == {t \in tickets : t[2] \notin waiters[t[1]]}

Channel == INSTANCE ReleaseChannel
             WITH marked <- tickets, recorded <- homeSeq, done <- DoneTickets

\* The flusher keeps the promise of a release sink: Home's record of a group
\* only grows, and only to a sequence that was marked; a ticket once completed
\* stays so and was covered by Home's record when it was completed.
ImplementsChannel == Channel!Spec

(***************************************************************************)
(* The safety of the flusher, in one invariant: besides the types, tickets *)
(* are completed for what Home has recorded, open ones are still to be     *)
(* sent, and a Flush that returned nil covers what was marked before it.   *)
(***************************************************************************)
FlusherInv ==
    /\ TypeOK
    /\ DoneTicketsAreRecorded
    /\ OpenTicketsArePending
    /\ FlushCovers
=============================================================================
