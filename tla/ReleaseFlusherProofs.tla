------------------------ MODULE ReleaseFlusherProofs ------------------------
(***************************************************************************)
(* Machine-checked proofs about ReleaseFlusher, for any number of groups,  *)
(* sequences and lifetimes: the tickets are honest, and the flusher        *)
(* implements ReleaseChannel.                                              *)
(***************************************************************************)
EXTENDS ReleaseFlusher, TLAPS

USE DEF Seqs

\* What is acknowledged was recorded; what is being sent or may still arrive
\* was marked and is not beyond the latest sequence.
FrameInv ==
    /\ \A g \in Groups : acked[g] <= homeSeq[g] /\ acked[g] <= latest[g]
    /\ \A g \in Groups : latest[g] > 0 => <<g, latest[g]>> \in tickets
    /\ \A t \in batch \cup sending \cup late : t \in tickets /\ t[2] <= latest[t[1]]
    /\ \A t \in sending : t[2] <= homeSeq[t[1]]

\* A ticket is open exactly when its sequence is beyond the acknowledged one.
TicketInv ==
    /\ \A t \in tickets : t[2] \in waiters[t[1]] <=> t[2] > acked[t[1]]
    /\ \A g \in Groups : \A n \in waiters[g] : <<g, n>> \in tickets /\ acked[g] < n /\ n <= latest[g]

\* Flush waits for no more than was marked, and for no less.
FlushInv ==
    /\ \A g \in Groups : flushTarget[g] <= latest[g]
    /\ flushCall = "ok" => \A g \in Groups : acked[g] >= flushTarget[g]

\* A round that has not failed still has to acknowledge every dirty group, or
\* has been overtaken by a MarkDirty whose token will start the next one.
RoundInv ==
    /\ \A s, t \in sending : s = t
    /\ run = "flush" /\ ~failed /\ ~wake /\ unsignalled = {} =>
        \A g \in Groups : latest[g] > acked[g] => <<g, latest[g]>> \in batch \cup sending

IndInv == TypeOK /\ FrameInv /\ TicketInv /\ FlushInv /\ RoundInv /\ DirtyIsPrompt

\* A step keeps every variable in its type.
LEMMA TypeStep == ASSUME TypeOK, [Next]_vars PROVE TypeOK'
<1> USE MaxSeqAssumption, MaxLifetimeAssumption DEF groupVars, runVars, flushVars, homeVars
<1>1. ASSUME NEW g \in Groups, NEW n \in Seqs, MarkDirty(g, n) PROVE TypeOK'
  BY <1>1 DEF MarkDirty, Larger, TypeOK
<1>2. ASSUME NEW g \in Groups, NEW n \in Seqs, Signal(g, n) PROVE TypeOK'
  BY <1>2 DEF Signal, TypeOK
<1>3. ASSUME NEW g \in Groups, NEW n \in Seqs, LateFrame(g, n) PROVE TypeOK'
  BY <1>3 DEF LateFrame, Larger, TypeOK
<1>4. ASSUME RunStart PROVE TypeOK'
  <2>1. sender' \in 0..MaxLifetime
    BY <1>4 DEF RunStart, TypeOK
  <2>2. UNCHANGED <<groupVars, tickets, unsignalled, force, batch, sending, failed, flushVars, homeVars>>
    BY <1>4 DEF RunStart
  <2>3. wake' \in BOOLEAN /\ run' = "select" /\ cancelled' \in BOOLEAN /\ timer' = "due"
        /\ backingOff' \in BOOLEAN
    BY <1>4 DEF RunStart
  <2> QED
    BY <2>1, <2>2, <2>3 DEF TypeOK
<1>5. ASSUME RunCancel PROVE TypeOK'
  BY <1>5 DEF RunCancel, TypeOK
<1>6. ASSUME RunStop PROVE TypeOK'
  BY <1>6 DEF RunStop, TypeOK
<1>7. ASSUME TakeWake PROVE TypeOK'
  BY <1>7 DEF TakeWake, TypeOK
<1>8. ASSUME TakeForce PROVE TypeOK'
  <2>1. batch' \subseteq Groups \X Seqs
    BY <1>8 DEF TakeForce, startFlush, TypeOK
  <2>2. run' = "flush" /\ failed' = FALSE /\ force' \in BOOLEAN
        /\ UNCHANGED <<groupVars, tickets, unsignalled, wake, sender, cancelled, timer,
                       backingOff, sending, flushVars, homeVars>>
    BY <1>8 DEF TakeForce, startFlush, TypeOK
  <2> QED
    BY <2>1, <2>2 DEF TypeOK
<1>9. ASSUME TimerFires PROVE TypeOK'
  <2>1. batch' \subseteq Groups \X Seqs
    BY <1>9 DEF TimerFires, startFlush, TypeOK
  <2>2. run' = "flush" /\ failed' = FALSE /\ force' \in BOOLEAN
        /\ UNCHANGED <<groupVars, tickets, unsignalled, wake, sender, cancelled, timer,
                       backingOff, sending, flushVars, homeVars>>
    BY <1>9 DEF TimerFires, startFlush, TypeOK
  <2> QED
    BY <2>1, <2>2 DEF TypeOK
<1>10. ASSUME FlushEnd PROVE TypeOK'
  BY <1>10 DEF FlushEnd, TypeOK
<1>11. ASSUME NEW g \in Groups, NEW n \in Seqs, SendAcked(g, n) PROVE TypeOK'
  BY <1>11 DEF SendAcked, Larger, TypeOK
<1>12. ASSUME NEW g \in Groups, NEW n \in Seqs, SendFailed(g, n) PROVE TypeOK'
  BY <1>12 DEF SendFailed, TypeOK
<1>13. ASSUME NEW g \in Groups, NEW n \in Seqs, Acknowledge(g, n) PROVE TypeOK'
  BY <1>13 DEF Acknowledge, Larger, TypeOK
<1>14. ASSUME FlushStart PROVE TypeOK'
  BY <1>14 DEF FlushStart, TypeOK
<1>15. ASSUME FlushReturns PROVE TypeOK'
  BY <1>15 DEF FlushReturns, TypeOK
<1>16. CASE UNCHANGED vars
  BY <1>16 DEF vars, TypeOK
<1> QED
  BY <1>1, <1>2, <1>3, <1>4, <1>5, <1>6, <1>7, <1>8, <1>9, <1>10, <1>11, <1>12, <1>13,
      <1>14, <1>15, <1>16 DEF Next, Rounds

\* Frames in flight stay within what was marked.
LEMMA FrameStep == ASSUME TypeOK, FrameInv, [Next]_vars PROVE FrameInv'
<1> USE MaxSeqAssumption, MaxLifetimeAssumption DEF groupVars, runVars, flushVars, homeVars
<1>1. ASSUME NEW g \in Groups, NEW n \in Seqs, MarkDirty(g, n) PROVE FrameInv'
  BY <1>1 DEF MarkDirty, Larger, TypeOK, FrameInv
<1>2. ASSUME NEW g \in Groups, NEW n \in Seqs, Signal(g, n) PROVE FrameInv'
  BY <1>2 DEF Signal, TypeOK, FrameInv
<1>3. ASSUME NEW g \in Groups, NEW n \in Seqs, LateFrame(g, n) PROVE FrameInv'
  BY <1>3 DEF LateFrame, Larger, TypeOK, FrameInv
<1>4. ASSUME RunStart PROVE FrameInv'
  BY <1>4 DEF RunStart, TypeOK, FrameInv
<1>5. ASSUME RunCancel PROVE FrameInv'
  BY <1>5 DEF RunCancel, TypeOK, FrameInv
<1>6. ASSUME RunStop PROVE FrameInv'
  BY <1>6 DEF RunStop, TypeOK, FrameInv
<1>7. ASSUME TakeWake PROVE FrameInv'
  BY <1>7 DEF TakeWake, TypeOK, FrameInv
<1>8. ASSUME TakeForce PROVE FrameInv'
  BY <1>8 DEF TakeForce, startFlush, TypeOK, FrameInv
<1>9. ASSUME TimerFires PROVE FrameInv'
  BY <1>9 DEF TimerFires, startFlush, TypeOK, FrameInv
<1>10. ASSUME FlushEnd PROVE FrameInv'
  BY <1>10 DEF FlushEnd, TypeOK, FrameInv
<1>11. ASSUME NEW g \in Groups, NEW n \in Seqs, SendAcked(g, n) PROVE FrameInv'
  BY <1>11 DEF SendAcked, Larger, TypeOK, FrameInv
<1>12. ASSUME NEW g \in Groups, NEW n \in Seqs, SendFailed(g, n) PROVE FrameInv'
  BY <1>12 DEF SendFailed, TypeOK, FrameInv
<1>13. ASSUME NEW g \in Groups, NEW n \in Seqs, Acknowledge(g, n) PROVE FrameInv'
  BY <1>13 DEF Acknowledge, Larger, TypeOK, FrameInv
<1>14. ASSUME FlushStart PROVE FrameInv'
  BY <1>14 DEF FlushStart, TypeOK, FrameInv
<1>15. ASSUME FlushReturns PROVE FrameInv'
  BY <1>15 DEF FlushReturns, TypeOK, FrameInv
<1>16. CASE UNCHANGED vars
  BY <1>16 DEF vars, FrameInv
<1> QED
  BY <1>1, <1>2, <1>3, <1>4, <1>5, <1>6, <1>7, <1>8, <1>9, <1>10, <1>11, <1>12, <1>13,
      <1>14, <1>15, <1>16 DEF Next, Rounds

\* An acknowledgement completes exactly the tickets it covers.
LEMMA TicketStep == ASSUME TypeOK, FrameInv, TicketInv, [Next]_vars PROVE TicketInv'
<1> USE MaxSeqAssumption, MaxLifetimeAssumption DEF groupVars, runVars, flushVars, homeVars
<1>1. ASSUME NEW g \in Groups, NEW n \in Seqs, MarkDirty(g, n) PROVE TicketInv'
  BY <1>1 DEF MarkDirty, Larger, TypeOK, FrameInv, TicketInv
<1>2. ASSUME NEW g \in Groups, NEW n \in Seqs, Signal(g, n) PROVE TicketInv'
  BY <1>2 DEF Signal, TypeOK, FrameInv, TicketInv
<1>3. ASSUME NEW g \in Groups, NEW n \in Seqs, LateFrame(g, n) PROVE TicketInv'
  BY <1>3 DEF LateFrame, Larger, TypeOK, FrameInv, TicketInv
<1>4. ASSUME RunStart PROVE TicketInv'
  BY <1>4 DEF RunStart, TypeOK, FrameInv, TicketInv
<1>5. ASSUME RunCancel PROVE TicketInv'
  BY <1>5 DEF RunCancel, TypeOK, FrameInv, TicketInv
<1>6. ASSUME RunStop PROVE TicketInv'
  BY <1>6 DEF RunStop, TypeOK, FrameInv, TicketInv
<1>7. ASSUME TakeWake PROVE TicketInv'
  BY <1>7 DEF TakeWake, TypeOK, FrameInv, TicketInv
<1>8. ASSUME TakeForce PROVE TicketInv'
  BY <1>8 DEF TakeForce, startFlush, TypeOK, FrameInv, TicketInv
<1>9. ASSUME TimerFires PROVE TicketInv'
  BY <1>9 DEF TimerFires, startFlush, TypeOK, FrameInv, TicketInv
<1>10. ASSUME FlushEnd PROVE TicketInv'
  BY <1>10 DEF FlushEnd, TypeOK, FrameInv, TicketInv
<1>11. ASSUME NEW g \in Groups, NEW n \in Seqs, SendAcked(g, n) PROVE TicketInv'
  BY <1>11 DEF SendAcked, Larger, TypeOK, FrameInv, TicketInv
<1>12. ASSUME NEW g \in Groups, NEW n \in Seqs, SendFailed(g, n) PROVE TicketInv'
  BY <1>12 DEF SendFailed, TypeOK, FrameInv, TicketInv
<1>13. ASSUME NEW g \in Groups, NEW n \in Seqs, Acknowledge(g, n) PROVE TicketInv'
  BY <1>13 DEF Acknowledge, Larger, TypeOK, FrameInv, TicketInv
<1>14. ASSUME FlushStart PROVE TicketInv'
  BY <1>14 DEF FlushStart, TypeOK, FrameInv, TicketInv
<1>15. ASSUME FlushReturns PROVE TicketInv'
  BY <1>15 DEF FlushReturns, TypeOK, FrameInv, TicketInv
<1>16. CASE UNCHANGED vars
  BY <1>16 DEF vars, TicketInv
<1> QED
  BY <1>1, <1>2, <1>3, <1>4, <1>5, <1>6, <1>7, <1>8, <1>9, <1>10, <1>11, <1>12, <1>13,
      <1>14, <1>15, <1>16 DEF Next, Rounds

\* What Flush returned for stays acknowledged.
LEMMA FlushStep == ASSUME TypeOK, FrameInv, FlushInv, [Next]_vars PROVE FlushInv'
<1> USE MaxSeqAssumption, MaxLifetimeAssumption DEF groupVars, runVars, flushVars, homeVars
<1>1. ASSUME NEW g \in Groups, NEW n \in Seqs, MarkDirty(g, n) PROVE FlushInv'
  BY <1>1 DEF MarkDirty, Larger, TypeOK, FrameInv, FlushInv, idle
<1>2. ASSUME NEW g \in Groups, NEW n \in Seqs, Signal(g, n) PROVE FlushInv'
  BY <1>2 DEF Signal, TypeOK, FrameInv, FlushInv, idle
<1>3. ASSUME NEW g \in Groups, NEW n \in Seqs, LateFrame(g, n) PROVE FlushInv'
  BY <1>3 DEF LateFrame, Larger, TypeOK, FrameInv, FlushInv, idle
<1>4. ASSUME RunStart PROVE FlushInv'
  BY <1>4 DEF RunStart, TypeOK, FrameInv, FlushInv, idle
<1>5. ASSUME RunCancel PROVE FlushInv'
  BY <1>5 DEF RunCancel, TypeOK, FrameInv, FlushInv, idle
<1>6. ASSUME RunStop PROVE FlushInv'
  BY <1>6 DEF RunStop, TypeOK, FrameInv, FlushInv, idle
<1>7. ASSUME TakeWake PROVE FlushInv'
  BY <1>7 DEF TakeWake, TypeOK, FrameInv, FlushInv, idle
<1>8. ASSUME TakeForce PROVE FlushInv'
  BY <1>8 DEF TakeForce, startFlush, TypeOK, FrameInv, FlushInv, idle
<1>9. ASSUME TimerFires PROVE FlushInv'
  BY <1>9 DEF TimerFires, startFlush, TypeOK, FrameInv, FlushInv, idle
<1>10. ASSUME FlushEnd PROVE FlushInv'
  BY <1>10 DEF FlushEnd, TypeOK, FrameInv, FlushInv, idle
<1>11. ASSUME NEW g \in Groups, NEW n \in Seqs, SendAcked(g, n) PROVE FlushInv'
  BY <1>11 DEF SendAcked, Larger, TypeOK, FrameInv, FlushInv, idle
<1>12. ASSUME NEW g \in Groups, NEW n \in Seqs, SendFailed(g, n) PROVE FlushInv'
  BY <1>12 DEF SendFailed, TypeOK, FrameInv, FlushInv, idle
<1>13. ASSUME NEW g \in Groups, NEW n \in Seqs, Acknowledge(g, n) PROVE FlushInv'
  BY <1>13 DEF Acknowledge, Larger, TypeOK, FrameInv, FlushInv, idle
<1>14. ASSUME FlushStart PROVE FlushInv'
  BY <1>14 DEF FlushStart, TypeOK, FrameInv, FlushInv, idle
<1>15. ASSUME FlushReturns PROVE FlushInv'
  BY <1>15 DEF FlushReturns, TypeOK, FrameInv, FlushInv, idle
<1>16. CASE UNCHANGED vars
  BY <1>16 DEF vars, FlushInv
<1> QED
  BY <1>1, <1>2, <1>3, <1>4, <1>5, <1>6, <1>7, <1>8, <1>9, <1>10, <1>11, <1>12, <1>13,
      <1>14, <1>15, <1>16 DEF Next, Rounds

\* A round starts with every dirty group, and an acknowledgement takes one off
\* only when it covers it.
LEMMA RoundStep == ASSUME TypeOK, FrameInv, RoundInv, [Next]_vars PROVE RoundInv'
<1> USE MaxSeqAssumption, MaxLifetimeAssumption DEF groupVars, runVars, flushVars, homeVars
<1>1. ASSUME NEW g \in Groups, NEW n \in Seqs, MarkDirty(g, n) PROVE RoundInv'
  BY <1>1 DEF MarkDirty, RoundInv
<1>2. ASSUME NEW g \in Groups, NEW n \in Seqs, Signal(g, n) PROVE RoundInv'
  BY <1>2 DEF Signal, RoundInv
<1>3. ASSUME NEW g \in Groups, NEW n \in Seqs, LateFrame(g, n) PROVE RoundInv'
  BY <1>3 DEF LateFrame, RoundInv
<1>4. ASSUME startFlush PROVE RoundInv'
  BY <1>4 DEF startFlush, RoundInv
<1>5. ASSUME NEW g \in Groups, NEW n \in Seqs, SendAcked(g, n) PROVE RoundInv'
  BY <1>5 DEF SendAcked, RoundInv
<1>6. ASSUME NEW g \in Groups, NEW n \in Seqs, SendFailed(g, n) PROVE RoundInv'
  BY <1>6 DEF SendFailed, RoundInv
<1>7. ASSUME NEW g \in Groups, NEW n \in Seqs, Acknowledge(g, n) PROVE RoundInv'
  <2>1. /\ sending = {<<g, n>>} /\ sending' = {} /\ acked' = [acked EXCEPT ![g] = Larger(@, n)]
        /\ UNCHANGED <<run, failed, wake, unsignalled, latest, batch>>
    BY <1>7 DEF Acknowledge, RoundInv
  <2>2. ASSUME NEW h \in Groups, latest[h] > acked'[h] PROVE latest[h] > acked[h] /\ <<h, latest[h]>> # <<g, n>>
    BY <2>1, <2>2 DEF Larger, TypeOK
  <2> QED
    BY <2>1, <2>2 DEF RoundInv
<1>8. CASE UNCHANGED <<run, failed, wake, unsignalled, latest, acked, batch, sending>>
  BY <1>8 DEF RoundInv
<1>9. CASE UNCHANGED sending /\ run' # "flush"
  BY <1>9 DEF RoundInv
<1> QED
  BY <1>1, <1>2, <1>3, <1>4, <1>5, <1>6, <1>7, <1>8, <1>9 DEF Next, Rounds, vars, RunStart,
     RunCancel, RunStop, TakeWake, TakeForce, TimerFires, FlushEnd, FlushStart, FlushReturns

\* Between two rounds a dirty group has a token, or one on its way, or the
\* timer is due.
LEMMA PromptStep ==
    ASSUME TypeOK, RoundInv, DirtyIsPrompt, [Next]_vars
    PROVE  DirtyIsPrompt'
<1> USE MaxSeqAssumption, MaxLifetimeAssumption DEF groupVars, runVars, flushVars, homeVars
<1>1. ASSUME NEW g \in Groups, NEW n \in Seqs, MarkDirty(g, n) PROVE DirtyIsPrompt'
  BY <1>1 DEF MarkDirty, DirtyIsPrompt
<1>2. ASSUME NEW g \in Groups, NEW n \in Seqs, Signal(g, n) PROVE DirtyIsPrompt'
  BY <1>2 DEF Signal, DirtyIsPrompt
<1>3. CASE RunStart
  BY <1>3 DEF RunStart, DirtyIsPrompt
<1>4. CASE TakeWake
  BY <1>4 DEF TakeWake, DirtyIsPrompt, idle
<1>5. CASE FlushEnd
  <2>1. /\ run = "flush" /\ batch = {} /\ sending = {} /\ backingOff' = failed
        /\ UNCHANGED <<latest, acked, wake, unsignalled>>
    BY <1>5 DEF FlushEnd
  <2>2. ASSUME ~failed, ~wake, unsignalled = {} PROVE idle
    <3>1. \A g \in Groups : ~(latest[g] > acked[g])
      BY <2>1, <2>2 DEF RoundInv
    <3>2. \A g \in Groups : latest[g] \in Int /\ acked[g] \in Int
      BY DEF TypeOK
    <3> QED
      BY <3>1, <3>2 DEF idle
  <2> QED
    BY <2>1, <2>2 DEF DirtyIsPrompt, idle
<1>6. ASSUME NEW g \in Groups, NEW n \in Seqs, Acknowledge(g, n) PROVE DirtyIsPrompt'
  <2>1. idle => idle'
    BY <1>6 DEF Acknowledge, Larger, idle, TypeOK
  <2> QED
    BY <1>6, <2>1 DEF Acknowledge, DirtyIsPrompt
<1>7. CASE UNCHANGED <<run, backingOff, latest, acked, wake, timer, unsignalled>>
  BY <1>7 DEF DirtyIsPrompt, idle
<1>8. CASE run' # "select"
  BY <1>8 DEF DirtyIsPrompt
<1> QED
  BY <1>1, <1>2, <1>3, <1>4, <1>5, <1>6, <1>7, <1>8 DEF Next, Rounds, vars, LateFrame, RunCancel,
     RunStop, TakeForce, TimerFires, startFlush, SendAcked, SendFailed, FlushStart, FlushReturns

\* The parts hold initially and are preserved together.
THEOREM InvariantHolds == Spec => []IndInv
<1>1. Init => IndInv
  <2> SUFFICES ASSUME Init PROVE IndInv
    OBVIOUS
  <2>1. TypeOK
    <3> USE MaxSeqAssumption, MaxLifetimeAssumption DEF Init
    <3>1. /\ latest \in [Groups -> 0..MaxSeq] /\ acked \in [Groups -> 0..MaxSeq]
          /\ flushTarget \in [Groups -> 0..MaxSeq] /\ homeSeq \in [Groups -> 0..MaxSeq]
      OBVIOUS
    <3>2. waiters \in [Groups -> SUBSET Seqs]
      OBVIOUS
    <3>3. sender \in 0..MaxLifetime
      OBVIOUS
    <3>4. /\ tickets = {} /\ unsignalled = {} /\ wake = FALSE /\ force = FALSE
          /\ run = "stopped" /\ cancelled = FALSE /\ timer = "due" /\ backingOff = FALSE
          /\ batch = {} /\ sending = {} /\ failed = FALSE /\ flushCall = "idle" /\ late = {}
      OBVIOUS
    <3> HIDE DEF Init
    <3> QED
      BY <3>1, <3>2, <3>3, <3>4 DEF TypeOK
  <2>2. FrameInv /\ TicketInv /\ FlushInv
    BY DEF Init, FrameInv, TicketInv, FlushInv
  <2>3. RoundInv /\ DirtyIsPrompt
    BY DEF Init, RoundInv, DirtyIsPrompt
  <2> QED
    BY <2>1, <2>2, <2>3 DEF IndInv
<1>2. IndInv /\ [Next]_vars => IndInv'
  BY TypeStep, FrameStep, TicketStep, FlushStep, RoundStep, PromptStep DEF IndInv
<1> QED
  BY <1>1, <1>2, PTL DEF Spec

\* Every variable of the flusher keeps its type.
THEOREM TypeCorrect == Spec => []TypeOK
<1>1. IndInv => TypeOK
  BY DEF IndInv
<1> QED
  BY <1>1, InvariantHolds, PTL

\* A completed ticket was recorded by Home; an open one is still to be sent.
THEOREM TicketsCorrect == Spec => [](DoneTicketsAreRecorded /\ OpenTicketsArePending)
<1>1. IndInv => DoneTicketsAreRecorded /\ OpenTicketsArePending
  <2> SUFFICES ASSUME IndInv PROVE DoneTicketsAreRecorded /\ OpenTicketsArePending
    OBVIOUS
  <2>1. ASSUME NEW t \in tickets, t[2] \notin waiters[t[1]] PROVE homeSeq[t[1]] >= t[2]
    <3>1. t[1] \in Groups /\ t[2] \in Int /\ acked[t[1]] \in Int /\ homeSeq[t[1]] \in Int
      BY MaxSeqAssumption DEF IndInv, TypeOK
    <3>2. ~(t[2] > acked[t[1]])
      BY <2>1 DEF IndInv, TicketInv
    <3> QED
      BY <3>1, <3>2 DEF IndInv, FrameInv
  <2>2. OpenTicketsArePending
    BY DEF IndInv, TicketInv, OpenTicketsArePending
  <2> QED
    BY <2>1, <2>2 DEF DoneTicketsAreRecorded
<1> QED
  BY <1>1, InvariantHolds, PTL

\* Flush returns nil only when what was marked before it is recorded by Home.
THEOREM FlushCorrect == Spec => []FlushCovers
<1>1. IndInv => FlushCovers
  BY DEF IndInv, TypeOK, FrameInv, FlushInv, FlushCovers
<1> QED
  BY <1>1, InvariantHolds, PTL

\* No lost wake-up: unless Run is backing off, a dirty group never waits for
\* the flush interval (MarkDirty, signal, nextDelay).
THEOREM PromptCorrect == Spec => []DirtyIsPrompt
<1>1. IndInv => DirtyIsPrompt
  BY DEF IndInv
<1> QED
  BY <1>1, InvariantHolds, PTL

\* A step that leaves tickets, waiters and Home's record alone is a stutter.
LEMMA ChannelStutter ==
    ASSUME UNCHANGED <<tickets, waiters, homeSeq>>
    PROVE  UNCHANGED Channel!channelVars
  BY DEF Channel!channelVars, DoneTickets

\* Home records a marked sequence, or has recorded a later one already.
LEMMA ChannelRecords ==
    ASSUME TypeOK, NEW g \in Groups, NEW n \in Seqs, <<g, n>> \in tickets,
           homeSeq' = [homeSeq EXCEPT ![g] = Larger(@, n)], UNCHANGED <<tickets, waiters>>
    PROVE  [Channel!Next]_Channel!channelVars
<1>1. DoneTickets' = DoneTickets
  BY DEF DoneTickets
<1>2. CASE n > homeSeq[g]
  <2>1. homeSeq' = [homeSeq EXCEPT ![g] = n]
    <3>1. homeSeq[g] \in Int /\ n \in Int
      BY MaxSeqAssumption DEF TypeOK
    <3>2. Larger(homeSeq[g], n) = n
      BY <1>2, <3>1 DEF Larger
    <3> QED
      BY <3>2
  <2>2. Channel!Record(g, n)
    BY <1>1, <1>2, <2>1 DEF Channel!Record
  <2> QED
    BY <2>2 DEF Channel!Next
<1>3. CASE ~(n > homeSeq[g])
  <2>1. homeSeq' = homeSeq
    BY <1>3 DEF TypeOK, Larger
  <2> QED
    BY <2>1, ChannelStutter
<1> QED
  BY <1>2, <1>3

\* Every step of the flusher is a step of the channel or a stutter.
LEMMA ChannelStep == ASSUME IndInv, [Next]_vars PROVE [Channel!Next]_Channel!channelVars
<1> USE MaxSeqAssumption, MaxLifetimeAssumption DEF groupVars, runVars, flushVars, homeVars
<1>1. ASSUME NEW g \in Groups, NEW n \in Seqs, MarkDirty(g, n)
      PROVE  [Channel!Next]_Channel!channelVars
  <2>1. UNCHANGED <<acked, homeSeq>> /\ tickets' = tickets \cup {<<g, n>>}
    BY <1>1 DEF MarkDirty
  <2>2. CASE n <= acked[g]
    <3>1. UNCHANGED waiters
      BY <1>1, <2>2 DEF MarkDirty
    <3>2. n \notin waiters[g] /\ n <= homeSeq[g]
      <4>1. acked[g] \in Int /\ homeSeq[g] \in Int /\ n \in Int /\ waiters[g] \subseteq Int
        BY DEF IndInv, TypeOK
      <4>2. acked[g] <= homeSeq[g] /\ \A m \in waiters[g] : acked[g] < m
        BY DEF IndInv, FrameInv, TicketInv
      <4> QED
        BY <2>2, <4>1, <4>2
    <3>3. DoneTickets' = DoneTickets \cup {<<g, n>>}
      BY <2>1, <3>1, <3>2 DEF DoneTickets
    <3>4. Channel!Mark(g, n)
      BY <2>1, <3>2, <3>3 DEF Channel!Mark, Channel!Covered
    <3> QED
      BY <3>4 DEF Channel!Next
  <2>3. CASE ~(n <= acked[g])
    <3>1. waiters' = [waiters EXCEPT ![g] = waiters[g] \cup {n}]
      BY <1>1, <2>3 DEF MarkDirty
    <3>2. DoneTickets' = DoneTickets
      BY <2>1, <2>3, <3>1 DEF DoneTickets, IndInv, TypeOK, TicketInv
    <3>3. Channel!Mark(g, n)
      BY <2>1, <3>2 DEF Channel!Mark
    <3> QED
      BY <3>3 DEF Channel!Next
  <2> QED
    BY <2>2, <2>3
<1>2. ASSUME NEW g \in Groups, NEW n \in Seqs, Signal(g, n)
      PROVE  [Channel!Next]_Channel!channelVars
  BY <1>2, ChannelStutter DEF Signal
<1>3. ASSUME NEW g \in Groups, NEW n \in Seqs, LateFrame(g, n)
      PROVE  [Channel!Next]_Channel!channelVars
  BY <1>3, ChannelRecords DEF LateFrame, IndInv, FrameInv
<1>4. ASSUME RunStart PROVE [Channel!Next]_Channel!channelVars
  BY <1>4, ChannelStutter DEF RunStart
<1>5. ASSUME RunCancel PROVE [Channel!Next]_Channel!channelVars
  BY <1>5, ChannelStutter DEF RunCancel
<1>6. ASSUME RunStop PROVE [Channel!Next]_Channel!channelVars
  BY <1>6, ChannelStutter DEF RunStop
<1>7. ASSUME TakeWake PROVE [Channel!Next]_Channel!channelVars
  BY <1>7, ChannelStutter DEF TakeWake
<1>8. ASSUME TakeForce PROVE [Channel!Next]_Channel!channelVars
  BY <1>8, ChannelStutter DEF TakeForce, startFlush
<1>9. ASSUME TimerFires PROVE [Channel!Next]_Channel!channelVars
  BY <1>9, ChannelStutter DEF TimerFires, startFlush
<1>10. ASSUME FlushEnd PROVE [Channel!Next]_Channel!channelVars
  BY <1>10, ChannelStutter DEF FlushEnd
<1>11. ASSUME NEW g \in Groups, NEW n \in Seqs, SendAcked(g, n)
       PROVE  [Channel!Next]_Channel!channelVars
  BY <1>11, ChannelRecords DEF SendAcked, IndInv, FrameInv
<1>12. ASSUME NEW g \in Groups, NEW n \in Seqs, SendFailed(g, n)
       PROVE  [Channel!Next]_Channel!channelVars
  BY <1>12, ChannelStutter DEF SendFailed
<1>13. ASSUME NEW g \in Groups, NEW n \in Seqs, Acknowledge(g, n)
       PROVE  [Channel!Next]_Channel!channelVars
  <2> DEFINE ts == {t \in tickets : t[2] \notin waiters'[t[1]]}
  <2>1. UNCHANGED <<tickets, homeSeq>> /\ DoneTickets' = ts
    BY <1>13 DEF Acknowledge, DoneTickets
  <2>2. (TypeOK /\ FrameInv /\ TicketInv)'
    BY TypeStep, FrameStep, TicketStep DEF IndInv
  <2>3. \A t \in ts : Channel!Covered(t)
    BY <2>1, <2>2 DEF Channel!Covered, TypeOK, FrameInv, TicketInv
  <2>4. DoneTickets \subseteq ts
    BY <1>13 DEF Acknowledge, DoneTickets, IndInv, TypeOK
  <2>5. Channel!Complete(ts)
    BY <2>1, <2>3, <2>4 DEF Channel!Complete
  <2>6. ts \in SUBSET tickets
    OBVIOUS
  <2> QED
    BY <2>5, <2>6 DEF Channel!Next
<1>14. ASSUME FlushStart PROVE [Channel!Next]_Channel!channelVars
  BY <1>14, ChannelStutter DEF FlushStart
<1>15. ASSUME FlushReturns PROVE [Channel!Next]_Channel!channelVars
  BY <1>15, ChannelStutter DEF FlushReturns
<1>16. CASE UNCHANGED vars
  BY <1>16, ChannelStutter DEF vars
<1> QED
  BY <1>1, <1>2, <1>3, <1>4, <1>5, <1>6, <1>7, <1>8, <1>9, <1>10, <1>11, <1>12, <1>13,
      <1>14, <1>15, <1>16 DEF Next, Rounds

\* The flusher implements the release channel the registry relies on.
THEOREM FlusherImplementsChannel == Spec => ImplementsChannel
<1>1. Init => Channel!Init
  BY DEF Init, Channel!Init, DoneTickets
<1>2. IndInv /\ [Next]_vars => [Channel!Next]_Channel!channelVars
  BY ChannelStep
<1> QED
  BY <1>1, <1>2, InvariantHolds, PTL DEF Spec, ImplementsChannel, Channel!Spec

\* All of the flusher's safety at once.
THEOREM FlusherCorrect == Spec => []FlusherInv
<1>1. TypeOK /\ DoneTicketsAreRecorded /\ OpenTicketsArePending /\ FlushCovers => FlusherInv
  BY DEF FlusherInv
<1> QED
  BY <1>1, TypeCorrect, TicketsCorrect, FlushCorrect, PTL
=============================================================================
