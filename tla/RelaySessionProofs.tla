------------------------- MODULE RelaySessionProofs -------------------------
(***************************************************************************)
(* Machine-checked proofs about RelaySession, for any set of requests, any *)
(* channel capacity and any length of the streams: a channel is closed once, *)
(* a caller sees its stream in order and whole until something is displaced, *)
(* and a session that has ended keeps nothing.                             *)
(***************************************************************************)
EXTENDS RelaySession, SequenceTheorems, TLAPS

(***************************************************************************)
(* The inductive invariant.                                                *)
(***************************************************************************)
Messages == 1..Error

\* The read loop has taken r's last message from the connection and not delivered it.
delivering(r) == disp.at \in {"deliver", "select"} /\ disp.r = r
finishing(r) == disp.at = "terminal" /\ disp.r = r

\* What has been sent to the channel of r, and the last message that was due to be.
stream(r) == got[r] \o ch[r]
due(r) == IF delivering(r) THEN sentBy[r] - 1 ELSE sentBy[r]
below(seq, n) == \A i \in DOMAIN seq : isChunk(seq[i]) => seq[i] <= n
complete(seq) == \A i \in DOMAIN seq : seq[i] = i

\* Outside read the loop has a request and a message in hand.
DispInv ==
    /\ disp.at \in {"read", "deliver", "select", "terminal", "delete", "close"}
    /\ disp = [at |-> disp.at, r |-> disp.r, msg |-> disp.msg]
    /\ disp.at # "read" => disp.r \in Requests /\ disp.msg \in 1..End

\* Types; closed is closed with the start of cleanup, whose Range cancels one at a time.
RelayTypes ==
    /\ pending \subseteq Requests /\ late \subseteq Requests
    /\ sessClosed \in BOOLEAN /\ connOpen \in BOOLEAN
    /\ cleaner \in {"none", "range", "done"}
    /\ req \in [Requests -> {"idle", "stored", "armed", "write", "sent", "undo", "close", "failed"}]
    /\ after \in [Requests -> {"none", "armed", "cancel", "stopped"}]
    /\ lock \in [Requests -> {Free, "dispatcher"}]
    /\ sentBy \in [Requests -> 0..End]
    /\ caller \in [Requests -> {"none", "waits", "end", "error", "closed", "cancelled"}]
    /\ ch \in [Requests -> Seq(Messages)] /\ got \in [Requests -> Seq(Messages)]
    /\ closed \in [Requests -> BOOLEAN] /\ terminal \in [Requests -> BOOLEAN]
    /\ closes \in [Requests -> Nat]
    /\ DispInv
    /\ sessClosed = (cleaner # "none")
    /\ ending = {} \/ (cleaner = "range" /\ \E r \in Requests : ending = {r})

\* The read loop alone holds the lock, on an open channel, and a channel is closed once.
ChannelInv(r) ==
    /\ Len(ch[r]) <= Buffer
    /\ lock[r] # Free <=> disp.at = "select" /\ disp.r = r
    /\ lock[r] # Free => ~closed[r] /\ ~terminal[r]
    /\ closes[r] = IF closed[r] THEN 1 ELSE 0

\* A request is in the map, or closed, or someone who took it out is to close it; the
\* Range misses those only that were stored late, and their sends are undone.
RequestInv(r) ==
    /\ req[r] \in {"idle", "stored"} => after[r] = "none"
    /\ after[r] = "cancel" => r \in ctxDone
    /\ r \in pending => req[r] \in {"stored", "armed", "write", "sent", "undo"}
    /\ r \in late => sessClosed /\ req[r] \in {"stored", "armed", "undo", "close", "failed"}
    /\ cleaner = "done" /\ r \in pending => r \in late
    /\ disp.at # "read" /\ disp.r = r => req[r] = "sent"
    /\ disp.at \in {"delete", "close"} /\ disp.r = r => terminal[r] \/ closed[r]
    /\ req[r] # "idle" /\ r \notin pending =>
        \/ closed[r] \/ after[r] = "cancel" \/ r \in ending \/ req[r] = "close"
        \/ disp.at = "close" /\ disp.r = r

\* The stream is in order, behind what was read from the connection, and whole while
\* nothing has ended the request.
OrderInv(r) ==
    /\ delivering(r) => disp.msg = sentBy[r] /\ disp.msg \in 1..MaxChunk
    /\ finishing(r) => disp.msg = End
    /\ ordered(stream(r))
    /\ below(stream(r), due(r))
    /\ intact(r) => complete(stream(r))
    /\ intact(r) /\ ~finishing(r) => Len(stream(r)) = due(r)

RelayInd == RelayTypes /\ \A r \in Requests : ChannelInv(r) /\ RequestInv(r) /\ OrderInv(r)

\* The messages: chunks, then the terminal message and the error frame.
LEMMA Numbers ==
    /\ MaxChunk \in Nat /\ End = MaxChunk + 1 /\ Error = MaxChunk + 2
    /\ End \in Messages /\ Error \in Messages /\ Buffer \in Nat \ {0}
    /\ ~isChunk(End) /\ ~isChunk(Error) /\ \A m \in 1..MaxChunk : isChunk(m) /\ m \in Messages
BY RelayAssumption DEF End, Error, Messages, isChunk

\* A message that is newer than what is there keeps the order.
LEMMA AppendOrdered ==
    ASSUME NEW s \in Seq(Messages), NEW x \in Messages, NEW n \in Nat, NEW m \in Nat,
           ordered(s), below(s, n), n <= m, isChunk(x) => n < x /\ x <= m
    PROVE  ordered(Append(s, x)) /\ below(Append(s, x), m)
<1> DEFINE t == Append(s, x)
<1>1. /\ Len(s) \in Nat /\ DOMAIN s = 1..Len(s) /\ DOMAIN t = 1..(Len(s) + 1)
      /\ \A i \in 1..Len(s) : t[i] = s[i] /\ s[i] \in Messages
      /\ t[Len(s) + 1] = x
  BY AppendProperties, LenProperties, ElementOfSeq
<1> HIDE DEF t
<1>2. Messages \subseteq Nat
  BY Numbers DEF Messages
<1>3. ordered(t)
  <2> SUFFICES ASSUME NEW i \in DOMAIN t, NEW j \in DOMAIN t, i < j, isChunk(t[i]), isChunk(t[j])
               PROVE  t[i] < t[j]
    BY DEF ordered
  <2>1. i \in DOMAIN s /\ t[i] = s[i] /\ s[i] \in Nat
    <3>1. i \in 1..Len(s)
      BY <1>1
    <3> QED BY <1>1, <1>2, <3>1
  <2>2. CASE j \in DOMAIN s
    BY <1>1, <2>1, <2>2 DEF ordered
  <2>3. CASE j \notin DOMAIN s
    <3>1. t[j] = x
      BY <1>1, <2>3
    <3>2. s[i] <= n /\ n < x
      BY <2>1, <3>1 DEF below
    <3> QED BY <1>2, <2>1, <3>1, <3>2
  <2> QED BY <2>2, <2>3
<1>4. below(t, m)
  <2> SUFFICES ASSUME NEW i \in DOMAIN t, isChunk(t[i]) PROVE t[i] <= m
    BY DEF below
  <2>1. CASE i \in DOMAIN s
    <3>1. t[i] = s[i] /\ s[i] \in Nat
      BY <1>1, <1>2, <2>1
    <3>2. s[i] <= n
      BY <2>1, <3>1 DEF below
    <3> QED BY <3>1, <3>2
  <2>2. CASE i \notin DOMAIN s
    BY <1>1, <2>2
  <2> QED BY <2>1, <2>2
<1> QED BY <1>3, <1>4 DEF t

\* What is below a number is below a greater one.
LEMMA BelowMore ==
    ASSUME NEW s \in Seq(Messages), NEW n \in Nat, NEW m \in Nat, below(s, n), n <= m
    PROVE  below(s, m)
<1>1. \A i \in DOMAIN s : s[i] \in Nat
  BY LenProperties, ElementOfSeq, Numbers DEF Messages
<1> QED BY <1>1 DEF below

\* Appending to a channel appends to the stream.
LEMMA ConcatAppend ==
    ASSUME NEW g \in Seq(Messages), NEW b \in Seq(Messages), NEW x \in Messages
    PROVE  /\ g \o b \in Seq(Messages) /\ Append(b, x) \in Seq(Messages)
           /\ Len(Append(b, x)) = Len(b) + 1
           /\ g \o Append(b, x) = Append(g \o b, x)
<1> DEFINE e == <<x>>   u == g \o b
<1>1. e \in Seq(Messages) /\ u \in Seq(Messages)
  BY ConcatProperties
<1>2. Append(b, x) = b \o e /\ Append(b, x) \in Seq(Messages) /\ Len(Append(b, x)) = Len(b) + 1
  BY AppendProperties, AppendIsConcat
<1>3. Append(u, x) = u \o e
  BY <1>1, AppendIsConcat
<1> HIDE DEF e
<1>4. (g \o b) \o e = g \o (b \o e)
  BY <1>1, ConcatAssociative
<1> QED BY <1>1, <1>2, <1>3, <1>4

\* What remains when the oldest buffered message is dropped is in order.
LEMMA DropOrdered ==
    ASSUME NEW g \in Seq(Messages), NEW b \in Seq(Messages), b # <<>>, NEW n \in Nat,
           ordered(g \o b), below(g \o b, n)
    PROVE  ordered(g \o Tail(b)) /\ below(g \o Tail(b), n)
<1> DEFINE u == g \o b   t == Tail(b)   v == g \o t   k == Len(g)
<1>1. /\ t \in Seq(Messages) /\ Len(t) = Len(b) - 1 /\ Len(b) \in Nat \ {0} /\ k \in Nat
      /\ \A i \in 1..Len(t) : t[i] = b[i + 1]
  BY HeadTailProperties, LenProperties, EmptySeq
<1>2. /\ u \in Seq(Messages) /\ Len(u) = k + Len(b)
      /\ \A i \in 1..(k + Len(b)) : u[i] = IF i <= k THEN g[i] ELSE b[i - k]
  BY ConcatProperties
<1> HIDE DEF t
<1>3. /\ v \in Seq(Messages) /\ Len(v) = k + Len(t)
      /\ \A i \in 1..(k + Len(t)) : v[i] = IF i <= k THEN g[i] ELSE t[i - k]
  BY <1>1, ConcatProperties
<1>4. DOMAIN u = 1..(k + Len(b)) /\ DOMAIN v = 1..(k + Len(b) - 1)
  BY <1>1, <1>2, <1>3, LenProperties
<1> HIDE DEF u, v, k
<1> DEFINE back(i) == IF i <= k THEN i ELSE i + 1
<1>5. \A i \in DOMAIN v : back(i) \in DOMAIN u /\ v[i] = u[back(i)]
  <2> TAKE i \in DOMAIN v
  <2>1. CASE i <= k
    <3>1. i \in 1..(k + Len(b)) /\ i \in 1..(k + Len(t))
      BY <1>1, <1>4
    <3> QED BY <1>2, <1>3, <1>4, <2>1, <3>1
  <2>2. CASE ~(i <= k)
    <3>1. i - k \in 1..Len(t) /\ (i - k) + 1 = (i + 1) - k /\ i + 1 \in 1..(k + Len(b))
          /\ ~(i + 1 <= k) /\ i \in 1..(k + Len(t))
      BY <1>1, <1>4, <2>2
    <3>2. v[i] = t[i - k] /\ t[i - k] = b[(i - k) + 1] /\ u[i + 1] = b[(i + 1) - k]
      BY <1>1, <1>2, <1>3, <2>2, <3>1
    <3> QED BY <1>4, <2>2, <3>1, <3>2
  <2> QED BY <2>1, <2>2
<1>6. \A i, j \in DOMAIN v : i < j => back(i) < back(j)
  BY <1>1, <1>4
<1>7. ordered(v)
  <2> HIDE DEF back
  <2> SUFFICES ASSUME NEW i \in DOMAIN v, NEW j \in DOMAIN v, i < j, isChunk(v[i]), isChunk(v[j])
               PROVE  v[i] < v[j]
    BY DEF ordered
  <2>1. ordered(u) /\ back(i) \in DOMAIN u /\ back(j) \in DOMAIN u /\ back(i) < back(j)
        /\ v[i] = u[back(i)] /\ v[j] = u[back(j)]
    BY <1>5, <1>6 DEF u
  <2> QED BY <2>1 DEF ordered
<1>8. below(v, n)
  <2> HIDE DEF back
  <2>1. below(u, n)
    BY DEF u
  <2> QED BY <1>5, <2>1 DEF below
<1> QED BY <1>7, <1>8 DEF t, u, v

\* There is room for a message that is forced into a channel.
LEMMA ForcedFits ==
    ASSUME NEW b \in Seq(Messages), Len(b) <= Buffer, NEW x \in Messages
    PROVE  forced(b, x) \in Seq(Messages) /\ Len(forced(b, x)) <= Buffer
<1> DEFINE c == IF Len(b) < Buffer THEN b ELSE Tail(b)
<1>1. Len(b) \in Nat /\ Buffer \in Nat \ {0}
  BY LenProperties, Numbers
<1>2. c \in Seq(Messages) /\ Len(c) < Buffer
  <2>1. CASE ~(Len(b) < Buffer)
    <3>1. b # <<>>
      BY <1>1, <2>1, EmptySeq
    <3>2. Tail(b) \in Seq(Messages) /\ Len(Tail(b)) = Len(b) - 1
      BY <3>1, HeadTailProperties
    <3> QED BY <1>1, <2>1, <3>2
  <2> QED BY <2>1
<1> HIDE DEF c
<1>3. Append(c, x) \in Seq(Messages) /\ Len(Append(c, x)) = Len(c) + 1 /\ Len(c) \in Nat
  BY <1>2, AppendProperties, LenProperties
<1>4. Len(c) + 1 <= Buffer
  BY <1>1, <1>2, <1>3
<1>5. forced(b, x) = Append(c, x)
  BY DEF forced, c
<1> QED BY <1>3, <1>4, <1>5

\* A message that is forced into a channel displaces one at most.
LEMMA Forced ==
    ASSUME NEW g \in Seq(Messages), NEW b \in Seq(Messages), Len(b) <= Buffer,
           NEW x \in Messages, NEW n \in Nat, ~isChunk(x),
           ordered(g \o b), below(g \o b, n)
    PROVE  /\ forced(b, x) \in Seq(Messages) /\ Len(forced(b, x)) <= Buffer
           /\ ordered(g \o forced(b, x)) /\ below(g \o forced(b, x), n)
<1> DEFINE c == IF Len(b) < Buffer THEN b ELSE Tail(b)
<1>1. c \in Seq(Messages) /\ ordered(g \o c) /\ below(g \o c, n)
  <2>1. CASE Len(b) < Buffer
    BY <2>1
  <2>2. CASE ~(Len(b) < Buffer)
    <3>1. b # <<>>
      BY <2>2, EmptySeq, Numbers
    <3> QED BY <2>2, <3>1, HeadTailProperties, DropOrdered
  <2> QED BY <2>1, <2>2
<1> HIDE DEF c
<1>2. g \o c \in Seq(Messages) /\ g \o Append(c, x) = Append(g \o c, x)
  BY <1>1, ConcatAppend
<1>3. ordered(Append(g \o c, x)) /\ below(Append(g \o c, x), n)
  <2>1. (isChunk(x) => n < x /\ x <= n) /\ n <= n
    OBVIOUS
  <2> QED BY <1>1, <1>2, <2>1, AppendOrdered
<1>4. forced(b, x) = Append(c, x)
  BY DEF forced, c
<1> QED BY <1>2, <1>3, <1>4, ForcedFits

\* Receiving moves a message and changes no stream.
LEMMA ReceiveMoves ==
    ASSUME NEW g \in Seq(Messages), NEW b \in Seq(Messages), b # <<>>
    PROVE  /\ Append(g, Head(b)) \o Tail(b) = g \o b
           /\ Append(g, Head(b)) \in Seq(Messages) /\ Tail(b) \in Seq(Messages)
           /\ Len(Tail(b)) < Len(b)
<1> DEFINE x == Head(b)   t == Tail(b)   e == <<x>>
<1>1. x \in Messages /\ t \in Seq(Messages) /\ e \in Seq(Messages) /\ Len(t) < Len(b)
  BY HeadTailProperties, LenProperties
<1>2. b = e \o t
  <2>1. Len(b) \in Nat \ {0} /\ x = b[1] /\ t = SubSeq(b, 2, Len(b))
    BY EmptySeq, TailIsSubSeq
  <2>2. SubSeq(b, 1, Len(b)) = <<b[1]>> \o SubSeq(b, 1 + 1, Len(b))
    <3>1. 1 \in 1..Len(b) /\ Len(b) \in 1..Len(b)
      BY <2>1
    <3> QED BY <3>1, SubSeqRecursiveFirst
  <2> QED BY <2>1, <2>2, SubSeqFull
<1>3. Append(g, x) = g \o e /\ Append(g, x) \in Seq(Messages)
  BY <1>1, AppendProperties, AppendIsConcat
<1> HIDE DEF x, t, e
<1>4. Append(g, x) \o t = g \o b
  BY <1>1, <1>2, <1>3, ConcatAssociative
<1> QED BY <1>1, <1>3, <1>4 DEF x, t

\* A message delivered in its turn leaves the stream complete.
LEMMA AppendComplete ==
    ASSUME NEW s \in Seq(Messages), NEW x \in Messages, complete(s), x = Len(s) + 1
    PROVE  complete(Append(s, x)) /\ Len(Append(s, x)) = x
<1>1. /\ Len(s) \in Nat /\ DOMAIN s = 1..Len(s) /\ DOMAIN Append(s, x) = 1..(Len(s) + 1)
      /\ \A i \in 1..Len(s) : Append(s, x)[i] = s[i]
      /\ Append(s, x)[Len(s) + 1] = x /\ Len(Append(s, x)) = Len(s) + 1
  BY AppendProperties, LenProperties
<1> QED BY <1>1 DEF complete

\* What closeChannel does: the channel is closed, and its content is last at most.
LEMMA CloseEffect ==
    ASSUME RelayTypes, NEW r \in Requests, ChannelInv(r), NEW last \in Seq(Messages),
           closeChannel(r, last)
    PROVE  /\ lock[r] = Free
           /\ ch' \in [Requests -> Seq(Messages)] /\ closed' \in [Requests -> BOOLEAN]
           /\ closes' \in [Requests -> Nat]
           /\ after' \in [Requests -> {"none", "armed", "cancel", "stopped"}]
           /\ \A q \in Requests \ {r} : /\ ch'[q] = ch[q] /\ closed'[q] = closed[q]
                                        /\ closes'[q] = closes[q] /\ after'[q] = after[q]
           /\ closed'[r] /\ closes'[r] = 1
           /\ ch'[r] \in {ch[r], last}
           /\ after'[r] = after[r] \/ (after[r] = "armed" /\ after'[r] = "stopped")
<1>1. /\ ch \in [Requests -> Seq(Messages)] /\ closed \in [Requests -> BOOLEAN]
      /\ closes \in [Requests -> Nat]
      /\ after \in [Requests -> {"none", "armed", "cancel", "stopped"}]
      /\ closes[r] = IF closed[r] THEN 1 ELSE 0
  BY DEF RelayTypes, ChannelInv
<1>2. CASE closed[r] /\ UNCHANGED <<ch, closed, closes, after>>
  BY <1>1, <1>2 DEF closeChannel
<1>3. CASE /\ ~closed[r]
           /\ closed' = [closed EXCEPT ![r] = TRUE]
           /\ closes' = [closes EXCEPT ![r] = closes[r] + 1]
           /\ after' = [after EXCEPT ![r] = IF after[r] = "armed" THEN "stopped" ELSE after[r]]
           /\ ch' = [ch EXCEPT ![r] = IF terminal[r] THEN ch[r] ELSE last]
  BY <1>1, <1>3 DEF closeChannel
<1> QED BY <1>2, <1>3 DEF closeChannel

\* The steps that close a channel, and its content then.
closing(r, last) ==
    \/ UndoClose(r) /\ last = ch[r]
    \/ TerminalClose /\ disp.r = r /\ last = ch[r]
    \/ RangeCancel(r) /\ last = forced(ch[r], Error)

\* Every step that closes a channel is one of these.
LEMMA ClosingSteps ==
    ASSUME RelayInd, TerminalClose \/ \E r \in Requests : UndoClose(r) \/ RangeCancel(r)
    PROVE  \E r \in Requests : \E last : closing(r, last)
<1>1. CASE TerminalClose
  <2>1. disp.r \in Requests
    BY <1>1 DEF TerminalClose, RelayInd, RelayTypes, DispInv
  <2> QED BY <1>1, <2>1 DEF closing
<1>2. CASE \E r \in Requests : UndoClose(r)
  BY <1>2 DEF closing
<1>3. CASE \E r \in Requests : RangeCancel(r)
  BY <1>3 DEF closing
<1> QED BY <1>1, <1>2, <1>3

\* What they leave in the channel fits and is in order.
LEMMA ClosingFacts ==
    ASSUME RelayInd, NEW r \in Requests, NEW last, closing(r, last)
    PROVE  /\ last \in Seq(Messages) /\ Len(last) <= Buffer
           /\ ordered(got[r] \o last) /\ below(got[r] \o last, due(r))
           /\ closeChannel(r, last)
<1>1. /\ ch[r] \in Seq(Messages) /\ got[r] \in Seq(Messages) /\ Len(ch[r]) <= Buffer
      /\ ordered(got[r] \o ch[r]) /\ below(got[r] \o ch[r], due(r))
      /\ due(r) \in Nat
  <2>1. RelayTypes /\ ChannelInv(r) /\ OrderInv(r)
    BY DEF RelayInd
  <2>2. due(r) \in Nat
    BY <2>1, Numbers DEF RelayTypes, OrderInv, due
  <2> QED BY <2>1, <2>2 DEF RelayTypes, ChannelInv, OrderInv, stream
<1>2. CASE last = ch[r]
  BY <1>1, <1>2 DEF closing, UndoClose, TerminalClose, RangeCancel
<1>3. CASE last = forced(ch[r], Error) /\ RangeCancel(r)
  <2>1. Error \in Messages /\ ~isChunk(Error)
    BY Numbers
  <2> QED BY <1>1, <1>3, <2>1, Forced DEF RangeCancel
<1> QED BY <1>2, <1>3 DEF closing

\* The read loop goes on with its message.
LEMMA DispUpdate ==
    ASSUME DispInv, disp.at # "read",
           NEW at \in {"read", "deliver", "select", "terminal", "delete", "close"},
           disp' = [disp EXCEPT !.at = at]
    PROVE  DispInv' /\ disp'.at = at /\ disp'.r = disp.r /\ disp'.msg = disp.msg
BY DEF DispInv

\* The read loop goes on to the next message.
LEMMA DispIdle == disp' = Idle => DispInv' /\ disp'.at = "read"
BY DEF DispInv, Idle

\* A step keeps the types.
LEMMA TypesStep == RelayInd /\ [Next]_vars => RelayTypes'
<1> SUFFICES ASSUME RelayInd, [Next]_vars PROVE RelayTypes'
  OBVIOUS
<1>1. RelayTypes /\ DispInv /\ \A r \in Requests : ChannelInv(r)
  BY DEF RelayInd, RelayTypes
<1>2. CASE UNCHANGED vars
  BY <1>1, <1>2 DEF vars, requestVars, channelVars, callerVars, sessionVars, RelayTypes, DispInv
<1>3. ASSUME NEW r \in Requests,
             \/ Store(r) \/ ArmCancel(r) \/ SendCheck(r) \/ (\E ok \in BOOLEAN : Write(r, ok))
             \/ UndoDelete(r) \/ CancelContext(r) \/ AfterDelete(r) \/ SeesClose(r) \/ GivesUp(r)
      PROVE  RelayTypes'
  <2>1. /\ UNCHANGED <<sessionVars, lock, disp, sentBy, got, ch, closed, terminal, closes>>
        /\ pending' \subseteq Requests /\ late' \subseteq Requests
    BY <1>1, <1>3 DEF Store, ArmCancel, SendCheck, Write, UndoDelete, CancelContext, AfterDelete,
       SeesClose, GivesUp, RelayTypes, channelVars, callerVars
  <2>2. /\ req' \in [Requests -> {"idle", "stored", "armed", "write", "sent", "undo", "close",
                                "failed"}]
        /\ after' \in [Requests -> {"none", "armed", "cancel", "stopped"}]
        /\ caller' \in [Requests -> {"none", "waits", "end", "error", "closed", "cancelled"}]
    BY <1>1, <1>3 DEF Store, ArmCancel, SendCheck, Write, UndoDelete, CancelContext, AfterDelete,
       SeesClose, GivesUp, RelayTypes, channelVars, callerVars, requestVars
  <2> QED BY <1>1, <2>1, <2>2 DEF RelayTypes, sessionVars, DispInv
<1>4. ASSUME NEW r \in Requests, NEW last, closing(r, last) PROVE RelayTypes'
  <2>1. /\ ch' \in [Requests -> Seq(Messages)] /\ closed' \in [Requests -> BOOLEAN]
        /\ closes' \in [Requests -> Nat]
        /\ after' \in [Requests -> {"none", "armed", "cancel", "stopped"}]
    BY <1>1, <1>4, ClosingFacts, CloseEffect
  <2>2. CASE UndoClose(r)
    BY <1>1, <2>1, <2>2 DEF UndoClose, RelayTypes, sessionVars, callerVars, DispInv
  <2>3. CASE TerminalClose
    <3>1. DispInv'
      BY <2>3, DispIdle DEF TerminalClose
    <3> QED BY <1>1, <2>1, <2>3, <3>1 DEF TerminalClose, RelayTypes, sessionVars, callerVars
  <2>4. CASE RangeCancel(r)
    <3>1. DispInv'
      BY <1>1, <2>4 DEF RangeCancel, DispInv
    <3> QED BY <1>1, <2>1, <2>4, <3>1 DEF RangeCancel, RelayTypes, sessionVars, callerVars
  <2> QED BY <1>4, <2>2, <2>3, <2>4 DEF closing
<1>5. ASSUME NEW r \in Requests, AfterCancel(r) PROVE RelayTypes'
  <2>1. DispInv'
    BY <1>1, <1>5 DEF AfterCancel, DispInv
  <2>2. /\ closed' \in [Requests -> BOOLEAN] /\ closes' \in [Requests -> Nat]
        /\ after' \in [Requests -> {"none", "armed", "cancel", "stopped"}]
    <3>1. /\ closed \in [Requests -> BOOLEAN] /\ closes \in [Requests -> Nat]
          /\ after \in [Requests -> {"none", "armed", "cancel", "stopped"}]
      BY <1>1 DEF RelayTypes
    <3>2. /\ after' = [after EXCEPT ![r] = "stopped"]
          /\ closed' = closed \/ closed' = [closed EXCEPT ![r] = TRUE]
          /\ closes' = closes \/ closes' = [closes EXCEPT ![r] = closes[r] + 1]
      BY <1>5 DEF AfterCancel
    <3>3. closed' \in [Requests -> BOOLEAN]
      <4>1. CASE closed' = [closed EXCEPT ![r] = TRUE]
        BY <3>1, <4>1
      <4> QED BY <3>1, <3>2, <4>1
    <3>5. closes' \in [Requests -> Nat]
      <4>1. CASE closes' = [closes EXCEPT ![r] = closes[r] + 1]
        BY <3>1, <4>1
      <4> QED BY <3>1, <3>2, <4>1
    <3>4. after' \in [Requests -> {"none", "armed", "cancel", "stopped"}]
      BY <3>1, <3>2
    <3> QED BY <3>3, <3>4, <3>5
  <2> QED BY <1>1, <1>5, <2>1, <2>2 DEF AfterCancel, RelayTypes, sessionVars, callerVars
<1>6. ASSUME NEW r \in Requests, Receive(r) PROVE RelayTypes'
  <2>1. DispInv'
    BY <1>1, <1>6 DEF Receive, DispInv
  <2>2. /\ ch' = [ch EXCEPT ![r] = Tail(ch[r])]
        /\ got' = [got EXCEPT ![r] = Append(got[r], Head(ch[r]))]
        /\ Tail(ch[r]) \in Seq(Messages) /\ Append(got[r], Head(ch[r])) \in Seq(Messages)
    <3>1. ch[r] \in Seq(Messages) /\ got[r] \in Seq(Messages) /\ ch[r] # <<>>
      BY <1>1, <1>6 DEF Receive, RelayTypes
    <3> QED BY <1>6, <3>1, ReceiveMoves DEF Receive
  <2>3. ch' \in [Requests -> Seq(Messages)] /\ got' \in [Requests -> Seq(Messages)]
    BY <1>1, <2>2 DEF RelayTypes
  <2>4. caller' \in [Requests -> {"none", "waits", "end", "error", "closed", "cancelled"}]
    BY <1>1, <1>6 DEF Receive, RelayTypes
  <2> QED BY <1>1, <1>6, <2>1, <2>3, <2>4 DEF Receive, RelayTypes, sessionVars, requestVars
<1>7. ASSUME NEW r \in Requests, NEW msg \in 1..End, Read(r, msg) PROVE RelayTypes'
  <2>1. DispInv'
    BY <1>7 DEF Read, DispInv, Idle
  <2>2. sentBy' \in [Requests -> 0..End]
    BY <1>1, <1>7, Numbers DEF Read, RelayTypes
  <2> QED BY <1>1, <1>7, <2>1, <2>2 DEF Read, RelayTypes, sessionVars, requestVars, channelVars,
             callerVars
<1>8. CASE Deliver
  <2>1. DispInv' /\ disp.r \in Requests
    BY <1>1, <1>8, DispIdle DEF Deliver, DispInv
  <2>2. lock' \in [Requests -> {Free, "dispatcher"}]
    <3>1. lock \in [Requests -> {Free, "dispatcher"}]
      BY <1>1 DEF RelayTypes
    <3>2. lock' = lock \/ lock' = [lock EXCEPT ![disp.r] = "dispatcher"]
      BY <1>8 DEF Deliver
    <3> QED BY <3>1, <3>2
  <2> QED BY <1>1, <1>8, <2>1, <2>2 DEF Deliver, RelayTypes, sessionVars, requestVars, channelVars,
             callerVars
<1>9. CASE DeliverSelect
  <2>1. DispInv' /\ disp.r \in Requests /\ disp.msg \in Messages
    BY <1>1, <1>9, DispIdle, Numbers DEF DeliverSelect, DispInv, Messages
  <2>2. ch' \in [Requests -> Seq(Messages)]
    <3>1. Append(ch[disp.r], disp.msg) \in Seq(Messages) /\ ch \in [Requests -> Seq(Messages)]
      BY <1>1, <2>1, AppendProperties DEF RelayTypes
    <3> QED BY <1>9, <3>1 DEF DeliverSelect
  <2>3. lock' \in [Requests -> {Free, "dispatcher"}]
    BY <1>1, <1>9, <2>1 DEF DeliverSelect, RelayTypes
  <2> QED BY <1>1, <1>9, <2>1, <2>2, <2>3 DEF DeliverSelect, RelayTypes, sessionVars, requestVars,
             callerVars
<1>10. CASE DeliverTerminal
  <2>1. DispInv' /\ disp.r \in Requests /\ disp.msg \in Messages
    <3>1. disp.at # "read" /\ disp' = [disp EXCEPT !.at = "delete"]
      BY <1>10 DEF DeliverTerminal
    <3> QED BY <1>1, <3>1, DispUpdate, Numbers DEF DispInv, Messages
  <2>2. ch' \in [Requests -> Seq(Messages)]
    <3>1. /\ forced(ch[disp.r], disp.msg) \in Seq(Messages)
          /\ ch \in [Requests -> Seq(Messages)]
      <4> DEFINE b == ch[disp.r]   c == IF Len(b) < Buffer THEN b ELSE Tail(b)
      <4>1. b \in Seq(Messages) /\ (~(Len(b) < Buffer) => b # <<>>)
        <5>1. b \in Seq(Messages)
          BY <1>1, <2>1 DEF RelayTypes
        <5> QED BY <5>1, EmptySeq, Numbers
      <4>2. c \in Seq(Messages)
        BY <4>1, HeadTailProperties
      <4>3. Append(c, disp.msg) \in Seq(Messages)
        <5> HIDE DEF c
        <5> QED BY <2>1, <4>2, AppendProperties
      <4> QED BY <1>1, <4>3 DEF forced, RelayTypes
    <3> QED BY <1>10, <3>1 DEF DeliverTerminal
  <2>3. terminal' \in [Requests -> BOOLEAN]
    BY <1>1, <1>10, <2>1 DEF DeliverTerminal, RelayTypes
  <2> QED BY <1>1, <1>10, <2>1, <2>2, <2>3 DEF DeliverTerminal, RelayTypes, sessionVars,
             requestVars, callerVars
<1>11. CASE TerminalDelete
  <2>1. DispInv'
    <3>1. CASE disp.r \in pending
      <4>1. disp.at # "read" /\ disp' = [disp EXCEPT !.at = "close"]
        BY <1>11, <3>1 DEF TerminalDelete
      <4> QED BY <1>1, <4>1, DispUpdate
    <3>2. CASE disp.r \notin pending
      BY <1>11, <3>2, DispIdle DEF TerminalDelete
    <3> QED BY <3>1, <3>2
  <2> QED BY <1>1, <1>11, <2>1 DEF TerminalDelete, RelayTypes, sessionVars, requestVars,
             channelVars, callerVars
<1>12. CASE Cleanup \/ RangeEnds \/ \E r \in Requests : RangeDelete(r)
  <2>1. DispInv'
    BY <1>1, <1>12 DEF Cleanup, RangeEnds, RangeDelete, DispInv
  <2> QED BY <1>1, <1>12, <2>1 DEF Cleanup, RangeEnds, RangeDelete, RelayTypes, requestVars,
             channelVars, callerVars
<1>13. CASE TerminalClose \/ \E r \in Requests : UndoClose(r) \/ RangeCancel(r)
  BY <1>4, <1>13, ClosingSteps
<1> QED
  BY <1>2, <1>3, <1>5, <1>6, <1>7, <1>8, <1>9, <1>10, <1>11, <1>12, <1>13
  DEF Next, Request, AfterFunc, Dispatch, CleanupRange

\* A channel nothing happens to keeps its invariant.
LEMMA ChannelFrame ==
    ASSUME NEW r \in Requests, ChannelInv(r),
           /\ Len(ch'[r]) <= Buffer /\ closed'[r] = closed[r] /\ terminal'[r] = terminal[r]
           /\ closes'[r] = closes[r] /\ lock'[r] = lock[r]
           /\ (disp'.at = "select" /\ disp'.r = r) = (disp.at = "select" /\ disp.r = r)
    PROVE  ChannelInv(r)'
BY DEF ChannelInv

\* The channels, their locks and the calls that close them.
LEMMA ChannelStep == RelayInd /\ [Next]_vars => \A r \in Requests : ChannelInv(r)'
<1> SUFFICES ASSUME RelayInd, [Next]_vars, NEW q \in Requests PROVE ChannelInv(q)'
  OBVIOUS
<1>1. /\ RelayTypes /\ DispInv /\ ChannelInv(q) /\ \A r \in Requests : ChannelInv(r)
      /\ ch \in [Requests -> Seq(Messages)] /\ got \in [Requests -> Seq(Messages)]
      /\ closed \in [Requests -> BOOLEAN] /\ terminal \in [Requests -> BOOLEAN]
      /\ closes \in [Requests -> Nat] /\ lock \in [Requests -> {Free, "dispatcher"}]
      /\ Len(ch[q]) <= Buffer
  BY DEF RelayInd, RelayTypes, ChannelInv
<1>2. CASE \/ UNCHANGED vars
           \/ \E r \in Requests :
                \/ Store(r) \/ ArmCancel(r) \/ SendCheck(r) \/ (\E ok \in BOOLEAN : Write(r, ok))
                \/ UndoDelete(r) \/ CancelContext(r) \/ AfterDelete(r) \/ SeesClose(r)
                \/ GivesUp(r) \/ RangeDelete(r)
           \/ Cleanup \/ RangeEnds
  <2>1. UNCHANGED <<ch, closed, terminal, closes, lock, disp>>
    BY <1>2 DEF vars, Store, ArmCancel, SendCheck, Write, UndoDelete, CancelContext, AfterDelete,
       SeesClose, GivesUp, RangeDelete, Cleanup, RangeEnds, channelVars
  <2> QED BY <1>1, <2>1, ChannelFrame
<1>3. ASSUME NEW r \in Requests, NEW last, closing(r, last) PROVE ChannelInv(q)'
  <2>1. /\ lock[r] = Free
        /\ \A p \in Requests \ {r} : ch'[p] = ch[p] /\ closed'[p] = closed[p] /\ closes'[p] = closes[p]
        /\ closed'[r] /\ closes'[r] = 1
        /\ ch'[r] \in {ch[r], last} /\ Len(last) <= Buffer
    BY <1>1, <1>3, ClosingFacts, CloseEffect
  <2>2. /\ terminal' = terminal /\ lock' = lock
        /\ (disp'.at = "select" /\ disp'.r = q) = (disp.at = "select" /\ disp.r = q)
    BY <1>3 DEF closing, UndoClose, TerminalClose, RangeCancel, Idle
  <2>3. CASE q # r
    BY <1>1, <2>1, <2>2, <2>3, ChannelFrame
  <2>4. CASE q = r
    BY <1>1, <2>1, <2>2, <2>4 DEF ChannelInv
  <2> QED BY <2>3, <2>4
<1>4. ASSUME NEW r \in Requests, AfterCancel(r) PROVE ChannelInv(q)'
  <2>1. UNCHANGED <<ch, terminal, lock, disp>> /\ lock[r] = Free
    BY <1>4 DEF AfterCancel
  <2>2. CASE q # r
    <3>1. closed'[q] = closed[q] /\ closes'[q] = closes[q]
      BY <1>1, <1>4, <2>2 DEF AfterCancel
    <3> QED BY <1>1, <2>1, <3>1, ChannelFrame
  <2>3. CASE q = r
    <3>1. closed'[r] /\ closes'[r] = 1
      BY <1>1, <1>4, <2>3 DEF AfterCancel, ChannelInv
    <3> QED BY <1>1, <2>1, <2>3, <3>1 DEF ChannelInv
  <2> QED BY <2>2, <2>3
<1>5. ASSUME NEW r \in Requests, Receive(r) PROVE ChannelInv(q)'
  <2>1. /\ ch[r] # <<>> /\ ch' = [ch EXCEPT ![r] = Tail(ch[r])]
        /\ UNCHANGED <<closed, terminal, closes, lock, disp>>
    BY <1>5 DEF Receive
  <2>2. /\ ch[r] \in Seq(Messages) /\ Len(ch[r]) \in Nat /\ Len(Tail(ch[r])) = Len(ch[r]) - 1
        /\ Len(ch[r]) <= Buffer /\ Buffer \in Nat
    BY <1>1, <2>1, HeadTailProperties, LenProperties, Numbers DEF ChannelInv
  <2>3. Len(ch'[q]) <= Buffer
    BY <1>1, <2>1, <2>2
  <2> QED BY <1>1, <2>1, <2>3, ChannelFrame
<1>6. ASSUME NEW r \in Requests, NEW msg \in 1..End, Read(r, msg) PROVE ChannelInv(q)'
  <2>1. /\ UNCHANGED <<ch, closed, terminal, closes, lock>>
        /\ disp.at # "select" /\ disp'.at # "select"
    BY <1>6 DEF Read, channelVars, Idle
  <2> QED BY <1>1, <2>1, ChannelFrame
<1>7. CASE Deliver
  <2>1. disp.at = "deliver" /\ lock[disp.r] = Free /\ UNCHANGED <<ch, closed, terminal, closes>>
    BY <1>7 DEF Deliver, channelVars
  <2>2. CASE disp' = Idle /\ UNCHANGED lock
    BY <1>1, <2>1, <2>2, ChannelFrame DEF Idle
  <2>3. CASE /\ ~closed[disp.r] /\ ~terminal[disp.r]
             /\ lock' = [lock EXCEPT ![disp.r] = "dispatcher"]
             /\ disp' = [disp EXCEPT !.at = "select"]
    <3>1. disp'.at = "select" /\ disp'.r = disp.r /\ disp.r \in Requests
      BY <1>1, <2>1, <2>3, DispUpdate DEF DispInv
    <3>2. CASE q # disp.r
      BY <1>1, <2>1, <2>3, <3>1, <3>2, ChannelFrame
    <3>3. CASE q = disp.r
      <4>1. lock'[q] = "dispatcher" /\ "dispatcher" # Free
        BY <1>1, <2>3, <3>1, <3>3 DEF Free
      <4> QED BY <1>1, <2>1, <2>3, <3>1, <3>3, <4>1 DEF ChannelInv
    <3> QED BY <3>2, <3>3
  <2> QED BY <1>7, <2>2, <2>3 DEF Deliver
<1>8. CASE DeliverSelect
  <2>1. /\ disp.at = "select" /\ disp.r \in Requests /\ disp.msg \in Messages
        /\ lock' = [lock EXCEPT ![disp.r] = Free] /\ disp'.at = "read"
        /\ UNCHANGED <<closed, terminal, closes>>
        /\ \/ Len(ch[disp.r]) < Buffer /\ ch' = [ch EXCEPT ![disp.r] = Append(ch[disp.r], disp.msg)]
           \/ ch' = ch
    BY <1>1, <1>8, Numbers DEF DeliverSelect, DispInv, Idle, Messages
  <2>2. Len(ch'[q]) <= Buffer
    <3>1. CASE ch' = ch
      BY <1>1, <3>1
    <3>2. CASE /\ Len(ch[disp.r]) < Buffer
               /\ ch' = [ch EXCEPT ![disp.r] = Append(ch[disp.r], disp.msg)]
      <4>1. ch[disp.r] \in Seq(Messages)
        BY <1>1, <2>1
      <4>2. /\ Len(Append(ch[disp.r], disp.msg)) = Len(ch[disp.r]) + 1
            /\ Len(ch[disp.r]) \in Nat /\ Buffer \in Nat
        BY <2>1, <4>1, AppendProperties, LenProperties, Numbers
      <4> QED BY <1>1, <3>2, <4>2
    <3> QED BY <2>1, <3>1, <3>2
  <2>3. CASE q # disp.r
    BY <1>1, <2>1, <2>2, <2>3, ChannelFrame
  <2>4. CASE q = disp.r
    <3>1. lock'[q] = Free
      BY <1>1, <2>1, <2>4
    <3> QED BY <1>1, <2>1, <2>2, <2>4, <3>1 DEF ChannelInv
  <2> QED BY <2>3, <2>4
<1>9. CASE DeliverTerminal
  <2>1. /\ disp.at = "terminal" /\ disp.r \in Requests /\ disp.msg \in Messages
        /\ lock[disp.r] = Free
        /\ disp'.at = "delete" /\ UNCHANGED <<closed, closes, lock>>
        /\ \/ UNCHANGED <<ch, terminal>>
           \/ /\ terminal' = [terminal EXCEPT ![disp.r] = TRUE]
              /\ ch' = [ch EXCEPT ![disp.r] = forced(ch[disp.r], disp.msg)]
    BY <1>1, <1>9, Numbers DEF DeliverTerminal, DispInv, Messages
  <2>2. Len(ch'[q]) <= Buffer
    <3>1. CASE UNCHANGED ch
      BY <1>1, <3>1
    <3>2. CASE ch' = [ch EXCEPT ![disp.r] = forced(ch[disp.r], disp.msg)]
      <4>1. ch[disp.r] \in Seq(Messages) /\ Len(ch[disp.r]) <= Buffer
        BY <1>1, <2>1 DEF ChannelInv
      <4>2. Len(forced(ch[disp.r], disp.msg)) <= Buffer
        BY <2>1, <4>1, ForcedFits
      <4> QED BY <1>1, <3>2, <4>2
    <3> QED BY <2>1, <3>1, <3>2
  <2>3. CASE q # disp.r
    <3>1. terminal'[q] = terminal[q]
      BY <1>1, <2>1, <2>3
    <3> QED BY <1>1, <2>1, <2>2, <2>3, <3>1, ChannelFrame
  <2>4. CASE q = disp.r
    BY <1>1, <2>1, <2>2, <2>4 DEF ChannelInv
  <2> QED BY <2>3, <2>4
<1>10. CASE TerminalDelete
  <2>1. /\ disp.at = "delete" /\ disp'.at # "select"
        /\ UNCHANGED <<ch, closed, terminal, closes, lock>>
    BY <1>1, <1>10 DEF TerminalDelete, channelVars, DispInv, Idle
  <2> QED BY <1>1, <2>1, ChannelFrame
<1>11. CASE TerminalClose \/ \E r \in Requests : UndoClose(r) \/ RangeCancel(r)
  BY <1>3, <1>11, ClosingSteps
<1> QED
  BY <1>2, <1>4, <1>5, <1>6, <1>7, <1>8, <1>9, <1>10, <1>11
  DEF Next, Request, AfterFunc, Dispatch, CleanupRange

\* The entries of the pending map, and who is to close what has been removed from it.
LEMMA RequestStep == RelayInd /\ [Next]_vars => \A r \in Requests : RequestInv(r)'
<1> SUFFICES ASSUME RelayInd, [Next]_vars, NEW q \in Requests PROVE RequestInv(q)'
  OBVIOUS
<1>1. /\ RelayTypes /\ DispInv /\ ChannelInv(q) /\ RequestInv(q) /\ OrderInv(q)
      /\ closed \in [Requests -> BOOLEAN] /\ terminal \in [Requests -> BOOLEAN]
      /\ req \in [Requests -> {"idle", "stored", "armed", "write", "sent", "undo", "close", "failed"}]
      /\ after \in [Requests -> {"none", "armed", "cancel", "stopped"}]
      /\ sessClosed = (cleaner # "none")
      /\ ending = {} \/ (cleaner = "range" /\ \E r \in Requests : ending = {r})
  BY DEF RelayInd, RelayTypes
<1>2. CASE UNCHANGED vars
  BY <1>1, <1>2 DEF vars, sessionVars, requestVars, channelVars, RequestInv
<1>3. ASSUME NEW r \in Requests, Store(r) PROVE RequestInv(q)'
  BY <1>1, <1>3 DEF Store, sessionVars, channelVars, RequestInv
<1>4. ASSUME NEW r \in Requests, ArmCancel(r) PROVE RequestInv(q)'
  BY <1>1, <1>4 DEF ArmCancel, sessionVars, channelVars, RequestInv
<1>5. ASSUME NEW r \in Requests, SendCheck(r) PROVE RequestInv(q)'
  BY <1>1, <1>5 DEF SendCheck, sessionVars, channelVars, RequestInv
<1>6. ASSUME NEW r \in Requests, NEW ok \in BOOLEAN, Write(r, ok) PROVE RequestInv(q)'
  BY <1>1, <1>6 DEF Write, sessionVars, channelVars, RequestInv
<1>7. ASSUME NEW r \in Requests, UndoDelete(r) PROVE RequestInv(q)'
  BY <1>1, <1>7 DEF UndoDelete, sessionVars, channelVars, RequestInv
<1>8. ASSUME NEW r \in Requests, CancelContext(r) PROVE RequestInv(q)'
  BY <1>1, <1>8 DEF CancelContext, sessionVars, channelVars, RequestInv
<1>9. ASSUME NEW r \in Requests, AfterDelete(r) PROVE RequestInv(q)'
  BY <1>1, <1>9 DEF AfterDelete, sessionVars, channelVars, RequestInv
<1>10. ASSUME NEW r \in Requests, AfterCancel(r) PROVE RequestInv(q)'
  BY <1>1, <1>10 DEF AfterCancel, sessionVars, RequestInv
<1>11. ASSUME NEW r \in Requests, Receive(r) \/ SeesClose(r) \/ GivesUp(r) PROVE RequestInv(q)'
  BY <1>1, <1>11 DEF Receive, SeesClose, GivesUp, sessionVars, requestVars, channelVars, RequestInv
<1>12. ASSUME NEW r \in Requests, NEW msg \in 1..End, Read(r, msg) PROVE RequestInv(q)'
  BY <1>1, <1>12 DEF Read, sessionVars, requestVars, channelVars, RequestInv, Idle
<1>13. CASE Deliver
  BY <1>1, <1>13, DispUpdate DEF Deliver, sessionVars, requestVars, channelVars, RequestInv, Idle
<1>14. CASE DeliverSelect
  BY <1>1, <1>14 DEF DeliverSelect, sessionVars, requestVars, RequestInv, Idle
<1>15. CASE DeliverTerminal
  BY <1>1, <1>15, DispUpdate DEF DeliverTerminal, sessionVars, requestVars, RequestInv, DispInv
<1>16. CASE TerminalDelete
  BY <1>1, <1>16, DispUpdate DEF TerminalDelete, sessionVars, requestVars, channelVars, RequestInv,
     Idle
<1>17. CASE Cleanup
  BY <1>1, <1>17 DEF Cleanup, requestVars, channelVars, RequestInv
<1>18. ASSUME NEW r \in Requests, RangeDelete(r) PROVE RequestInv(q)'
  BY <1>1, <1>18 DEF RangeDelete, requestVars, channelVars, RequestInv
<1>19. CASE RangeEnds
  BY <1>1, <1>19 DEF RangeEnds, requestVars, channelVars, RequestInv
<1>20. ASSUME NEW r \in Requests, NEW last, closing(r, last) PROVE RequestInv(q)'
  <2>1. /\ \A p \in Requests \ {r} : closed'[p] = closed[p] /\ after'[p] = after[p]
        /\ closed'[r]
        /\ after'[r] = after[r] \/ (after[r] = "armed" /\ after'[r] = "stopped")
    BY <1>1, <1>20, ClosingFacts, CloseEffect DEF RelayInd
  <2>2. CASE UndoClose(r)
    BY <1>1, <2>1, <2>2 DEF UndoClose, sessionVars, RequestInv
  <2>3. CASE TerminalClose /\ disp.r = r
    BY <1>1, <2>1, <2>3 DEF TerminalClose, sessionVars, RequestInv, Idle
  <2>4. CASE RangeCancel(r)
    BY <1>1, <2>1, <2>4 DEF RangeCancel, RequestInv
  <2> QED BY <1>20, <2>2, <2>3, <2>4 DEF closing
<1>21. CASE TerminalClose \/ \E r \in Requests : UndoClose(r) \/ RangeCancel(r)
  BY <1>20, <1>21, ClosingSteps
<1> QED
  BY <1>2, <1>3, <1>4, <1>5, <1>6, <1>7, <1>8, <1>9, <1>10, <1>11, <1>12, <1>13, <1>14, <1>15,
     <1>16, <1>17, <1>18, <1>19, <1>21
  DEF Next, Request, AfterFunc, Dispatch, CleanupRange

\* A step that sends nothing to a channel and takes nothing from the connection for it.
LEMMA OrderFrame ==
    ASSUME NEW r \in Requests, OrderInv(r), stream(r)' = stream(r), sentBy'[r] = sentBy[r],
           delivering(r)' <=> delivering(r), finishing(r)' <=> finishing(r),
           delivering(r) \/ finishing(r) => disp'.msg = disp.msg,
           intact(r)' => intact(r)
    PROVE  OrderInv(r)'
<1>1. due(r)' = due(r)
  BY DEF due
<1> QED BY <1>1 DEF OrderInv

\* A channel that is closed or has its last message is not extended by chunks.
LEMMA BrokenOrder ==
    ASSUME NEW r \in Requests, ~intact(r)',
           delivering(r)' => disp'.msg = sentBy'[r] /\ disp'.msg \in 1..MaxChunk,
           finishing(r)' => disp'.msg = End,
           ordered(stream(r)'), below(stream(r)', due(r)')
    PROVE  OrderInv(r)'
BY DEF OrderInv

\* The last due chunk is a number.
LEMMA DueType == RelayInd => \A r \in Requests : due(r) \in Nat
<1> SUFFICES ASSUME RelayInd, NEW r \in Requests PROVE due(r) \in Nat
  OBVIOUS
<1>1. OrderInv(r) /\ sentBy[r] \in 0..End
  BY DEF RelayInd, RelayTypes
<1> QED BY <1>1, Numbers DEF due, OrderInv

\* A message goes from the provider to the read loop.
LEMMA ReadOrder ==
    ASSUME RelayInd, NEW r \in Requests, NEW msg \in 1..End, Read(r, msg), NEW q \in Requests
    PROVE  OrderInv(q)'
<1>1. /\ disp.at = "read" /\ req[r] = "sent" /\ sentBy[r] <= MaxChunk
      /\ msg = End \/ msg = sentBy[r] + 1
      /\ sentBy' = [sentBy EXCEPT ![r] = msg]
      /\ disp' = IF r \notin pending THEN Idle
                 ELSE [at |-> IF msg = End THEN "terminal" ELSE "deliver", r |-> r, msg |-> msg]
      /\ UNCHANGED <<ch, got, closed, terminal, sessClosed, ctxDone>>
  BY DEF Read, sessionVars, requestVars, channelVars, callerVars
<1>2. /\ RelayTypes /\ OrderInv(q) /\ RequestInv(q) /\ sentBy \in [Requests -> 0..End]
      /\ sessClosed = (cleaner # "none")
      /\ ending = {} \/ (cleaner = "range" /\ \E p \in Requests : ending = {p})
  BY DEF RelayInd, RelayTypes
<1>3. /\ stream(q)' = stream(q) /\ (intact(q)' <=> intact(q))
      /\ ~delivering(q) /\ ~finishing(q) /\ due(q) = sentBy[q]
  BY <1>1 DEF stream, intact, delivering, finishing, due
<1>4. CASE q # r
  <2>1. /\ sentBy'[q] = sentBy[q] /\ ~delivering(q)' /\ ~finishing(q)'
    BY <1>1, <1>2, <1>4 DEF delivering, finishing, Idle
  <2> QED BY <1>2, <1>3, <2>1, OrderFrame
<1>5. CASE q = r /\ r \notin pending
  <2>1. /\ sentBy'[r] = msg /\ ~delivering(r)' /\ ~finishing(r)'
    BY <1>1, <1>2, <1>5 DEF delivering, finishing, Idle
  <2>2. ~intact(r)
    BY <1>1, <1>2, <1>5 DEF RequestInv, intact
  <2>3. due(r)' = msg /\ sentBy[r] <= msg
    BY <1>1, <1>2, <2>1, Numbers DEF due
  <2>4. ordered(stream(r)') /\ below(stream(r)', due(r)')
    <3>1. ordered(stream(r)) /\ below(stream(r), sentBy[r])
      BY <1>2, <1>3, <1>5 DEF OrderInv
    <3> DEFINE s == stream(r)
    <3>2. below(s, msg)
      <4>1. s \in Seq(Messages) /\ below(s, sentBy[r]) /\ sentBy[r] \in Nat /\ msg \in Nat
        BY <1>2, <3>1, ConcatProperties, Numbers DEF stream, RelayTypes
      <4> HIDE DEF s
      <4> QED BY <2>3, <4>1, BelowMore
    <3> QED BY <1>3, <1>5, <2>3, <3>1, <3>2
  <2> QED BY <1>3, <1>5, <2>1, <2>2, <2>4, BrokenOrder
<1>6. CASE q = r /\ r \in pending
  <2>1. /\ sentBy'[r] = msg /\ disp'.r = r /\ disp'.msg = msg
        /\ disp'.at = IF msg = End THEN "terminal" ELSE "deliver"
    BY <1>1, <1>2, <1>6
  <2>2. /\ delivering(r)' <=> msg # End
        /\ finishing(r)' <=> msg = End
    BY <2>1 DEF delivering, finishing
  <2>3. /\ ordered(stream(r)) /\ below(stream(r), sentBy[r])
        /\ intact(r) => complete(stream(r)) /\ Len(stream(r)) = sentBy[r]
    BY <1>2, <1>3, <1>6 DEF OrderInv
  <2>4. CASE msg = End
    <3>1. due(r)' = msg /\ sentBy[r] <= msg
      BY <1>1, <1>2, <2>1, <2>2, <2>4, Numbers DEF due
    <3> DEFINE s == stream(r)
    <3>2. below(s, msg)
      <4>1. s \in Seq(Messages) /\ below(s, sentBy[r]) /\ sentBy[r] \in Nat /\ msg \in Nat
        BY <1>2, <2>3, ConcatProperties, Numbers DEF stream, RelayTypes
      <4> HIDE DEF s
      <4> QED BY <3>1, <4>1, BelowMore
    <3> QED BY <1>3, <1>6, <2>1, <2>2, <2>3, <2>4, <3>1, <3>2 DEF OrderInv
  <2>5. CASE msg # End
    <3>1. msg = sentBy[r] + 1 /\ msg \in 1..MaxChunk /\ due(r)' = sentBy[r]
      BY <1>1, <1>2, <2>1, <2>2, <2>5, Numbers DEF due
    <3> QED BY <1>3, <1>6, <2>1, <2>2, <2>3, <2>5, <3>1 DEF OrderInv
  <2> QED BY <2>4, <2>5
<1> QED BY <1>4, <1>5, <1>6

\* A chunk reaches the channel, or it is dropped with the request.
LEMMA SelectOrder ==
    ASSUME RelayInd, DeliverSelect, NEW r \in Requests, r = disp.r, NEW x, x = disp.msg,
           NEW q \in Requests
    PROVE  OrderInv(q)'
<1>1. /\ disp.at = "select" /\ disp'.at = "read"
      /\ \/ ch' = [ch EXCEPT ![r] = Append(ch[r], x)]
         \/ (sessClosed \/ r \in ctxDone) /\ ch' = ch
      /\ UNCHANGED <<got, closed, terminal, sessClosed, ctxDone, sentBy>>
  BY DEF DeliverSelect, sessionVars, requestVars, callerVars, Idle
<1>2. /\ RelayTypes /\ DispInv /\ OrderInv(q) /\ r \in Requests
      /\ ch \in [Requests -> Seq(Messages)] /\ got \in [Requests -> Seq(Messages)]
      /\ sentBy \in [Requests -> 0..End]
  BY <1>1 DEF RelayInd, RelayTypes, DispInv
<1>3. (intact(q)' <=> intact(q)) /\ ~delivering(q)' /\ ~finishing(q)' /\ ~finishing(q)
  BY <1>1 DEF intact, delivering, finishing
<1>4. CASE q # r
  <2>1. stream(q)' = stream(q) /\ ~delivering(q)
    BY <1>1, <1>2, <1>4 DEF stream, delivering
  <2>2. sentBy'[q] = sentBy[q]
    BY <1>1
  <2> QED BY <1>2, <1>3, <2>1, <2>2, OrderFrame
<1>5. CASE q = r
  <2> DEFINE n == sentBy[r]
  <2>1. delivering(r) /\ x = n /\ x \in 1..MaxChunk /\ due(r) = n - 1 /\ due(r)' = n
    BY <1>1, <1>2, <1>3, <1>5 DEF delivering, OrderInv, due
  <2>2. /\ ordered(stream(r)) /\ below(stream(r), n - 1)
        /\ intact(r) => complete(stream(r)) /\ Len(stream(r)) = n - 1
    BY <1>2, <1>3, <1>5, <2>1 DEF OrderInv
  <2>3. CASE ch' = [ch EXCEPT ![r] = Append(ch[r], x)]
    <3> DEFINE s == got[r] \o ch[r]
    <3>1. x \in Messages /\ n \in Nat /\ n - 1 \in Nat
      BY <2>1, Numbers
    <3>2. s \in Seq(Messages) /\ stream(r)' = Append(s, x) /\ stream(r) = s
      <4>1. ch[r] \in Seq(Messages) /\ got[r] \in Seq(Messages) /\ ch'[r] = Append(ch[r], x)
        BY <1>2, <2>3
      <4>2. s \in Seq(Messages) /\ got[r] \o Append(ch[r], x) = Append(s, x)
        BY <3>1, <4>1, ConcatAppend
      <4> QED BY <1>1, <4>1, <4>2 DEF stream
    <3> HIDE DEF s
    <3>3. ordered(Append(s, x)) /\ below(Append(s, x), n)
      <4> DEFINE m == n - 1
      <4>1. /\ ordered(s) /\ below(s, m) /\ m \in Nat /\ m <= n
            /\ isChunk(x) => m < x /\ x <= n
        BY <2>1, <2>2, <3>1, <3>2
      <4> HIDE DEF m, n
      <4> QED BY <3>1, <3>2, <4>1, AppendOrdered
    <3>4. intact(r) => complete(Append(s, x)) /\ Len(Append(s, x)) = n
      <4> HAVE intact(r)
      <4>1. complete(s) /\ x = Len(s) + 1
        BY <2>1, <2>2, <3>1, <3>2
      <4> QED BY <2>1, <3>1, <3>2, <4>1, AppendComplete
    <3> QED BY <1>3, <1>5, <2>1, <3>2, <3>3, <3>4 DEF OrderInv
  <2>4. CASE (sessClosed \/ r \in ctxDone) /\ ch' = ch
    <3>1. ~intact(r) /\ stream(r)' = stream(r)
      BY <1>1, <2>4 DEF intact, stream
    <3> DEFINE s == stream(r)
    <3>2. below(s, n)
      <4>1. /\ s \in Seq(Messages) /\ below(s, n - 1) /\ n - 1 \in Nat /\ n \in Nat
            /\ n - 1 <= n
        BY <1>2, <2>1, <2>2, ConcatProperties, Numbers DEF stream
      <4> HIDE DEF s
      <4> QED BY <4>1, BelowMore
    <3> QED BY <1>3, <1>5, <2>1, <2>2, <3>1, <3>2, BrokenOrder
  <2> QED BY <1>1, <2>3, <2>4
<1> QED BY <1>4, <1>5

\* The last message reaches the channel, unless it is closed.
LEMMA TerminalOrder ==
    ASSUME RelayInd, DeliverTerminal, NEW r \in Requests, r = disp.r, NEW x, x = disp.msg,
           NEW q \in Requests
    PROVE  OrderInv(q)'
<1>1. /\ disp.at = "terminal" /\ disp'.at = "delete"
      /\ \/ closed[r] /\ UNCHANGED <<ch, terminal>>
         \/ /\ terminal' = [terminal EXCEPT ![r] = TRUE]
            /\ ch' = [ch EXCEPT ![r] = forced(ch[r], x)]
      /\ UNCHANGED <<got, closed, sessClosed, ctxDone, sentBy>>
  BY DEF DeliverTerminal, sessionVars, requestVars, callerVars, RelayInd, RelayTypes, DispInv
<1>2. /\ RelayTypes /\ DispInv /\ OrderInv(q) /\ r \in Requests /\ ChannelInv(q)
      /\ ch \in [Requests -> Seq(Messages)] /\ got \in [Requests -> Seq(Messages)]
      /\ sentBy \in [Requests -> 0..End] /\ terminal \in [Requests -> BOOLEAN]
      /\ due(q) \in Nat
  BY <1>1, DueType DEF RelayInd, RelayTypes, DispInv
<1>3. /\ ~delivering(q)' /\ ~finishing(q)' /\ ~delivering(q) /\ due(q)' = due(q)
  BY <1>1 DEF delivering, finishing, due
<1>4. CASE q # r
  <2>1. stream(q)' = stream(q) /\ ~finishing(q) /\ (intact(q)' <=> intact(q))
    BY <1>1, <1>2, <1>4 DEF stream, finishing, intact
  <2> QED BY <1>1, <1>2, <1>3, <2>1, OrderFrame
<1>5. CASE q = r
  <2>1. finishing(r) /\ x = End /\ ordered(stream(r)) /\ below(stream(r), due(r))
    BY <1>1, <1>2, <1>5 DEF finishing, OrderInv
  <2>2. ~intact(r)' /\ ordered(stream(r)') /\ below(stream(r)', due(r))
    <3>1. CASE closed[r] /\ UNCHANGED <<ch, terminal>>
      BY <1>1, <2>1, <3>1 DEF intact, stream
    <3>2. CASE /\ terminal' = [terminal EXCEPT ![r] = TRUE]
               /\ ch' = [ch EXCEPT ![r] = forced(ch[r], x)]
      <4>1. terminal'[r] /\ ch'[r] = forced(ch[r], x) /\ got' = got
        BY <1>1, <1>2, <3>2
      <4>2. /\ got[r] \in Seq(Messages) /\ ch[r] \in Seq(Messages) /\ Len(ch[r]) <= Buffer
            /\ x \in Messages /\ ~isChunk(x) /\ due(r) \in Nat
            /\ ordered(got[r] \o ch[r]) /\ below(got[r] \o ch[r], due(r))
        BY <1>2, <1>5, <2>1, Numbers DEF ChannelInv, stream
      <4>3. ordered(got[r] \o forced(ch[r], x)) /\ below(got[r] \o forced(ch[r], x), due(r))
        BY <4>2, Forced
      <4> QED BY <4>1, <4>3 DEF intact, stream
    <3> QED BY <1>1, <3>1, <3>2
  <2> QED BY <1>3, <1>5, <2>2, BrokenOrder
<1> QED BY <1>4, <1>5

\* A step keeps every stream in order, and whole while nothing has displaced a chunk.
LEMMA OrderStep == RelayInd /\ [Next]_vars => \A r \in Requests : OrderInv(r)'
<1> SUFFICES ASSUME RelayInd, [Next]_vars, NEW q \in Requests PROVE OrderInv(q)'
  OBVIOUS
<1>1. /\ RelayTypes /\ DispInv /\ OrderInv(q) /\ ChannelInv(q)
      /\ ch \in [Requests -> Seq(Messages)] /\ got \in [Requests -> Seq(Messages)]
      /\ closed \in [Requests -> BOOLEAN] /\ terminal \in [Requests -> BOOLEAN]
  BY DEF RelayInd, RelayTypes
<1>2. CASE \/ UNCHANGED vars
           \/ \E r \in Requests :
                \/ Store(r) \/ ArmCancel(r) \/ SendCheck(r) \/ (\E ok \in BOOLEAN : Write(r, ok))
                \/ UndoDelete(r) \/ CancelContext(r) \/ AfterDelete(r) \/ SeesClose(r)
                \/ GivesUp(r) \/ RangeDelete(r) \/ AfterCancel(r)
           \/ Cleanup \/ RangeEnds
  <2>1. UNCHANGED <<ch, got, terminal, disp, sentBy>>
    BY <1>2 DEF vars, Store, ArmCancel, SendCheck, Write, UndoDelete, CancelContext, AfterDelete,
       SeesClose, GivesUp, RangeDelete, Cleanup, RangeEnds, channelVars, callerVars, AfterCancel
  <2>2. closed[q] => closed'[q]
    BY <1>1, <1>2 DEF vars, Store, ArmCancel, SendCheck, Write, UndoDelete, CancelContext,
       AfterDelete, SeesClose, GivesUp, RangeDelete, Cleanup, RangeEnds, channelVars, AfterCancel
  <2>3. (sessClosed => sessClosed') /\ ctxDone \subseteq ctxDone'
    BY <1>1, <1>2 DEF vars, Store, ArmCancel, SendCheck, Write, UndoDelete, CancelContext,
       AfterDelete, SeesClose, GivesUp, RangeDelete, Cleanup, RangeEnds, AfterCancel,
       sessionVars, requestVars
  <2>4. /\ stream(q)' = stream(q) /\ (delivering(q)' <=> delivering(q))
        /\ (finishing(q)' <=> finishing(q)) /\ (intact(q)' => intact(q))
    BY <2>1, <2>2, <2>3 DEF stream, delivering, finishing, intact
  <2> QED BY <1>1, <2>1, <2>4, OrderFrame
<1>3. ASSUME NEW r \in Requests, Receive(r) PROVE OrderInv(q)'
  <2>1. /\ ch[r] # <<>> /\ ch' = [ch EXCEPT ![r] = Tail(ch[r])]
        /\ got' = [got EXCEPT ![r] = Append(got[r], Head(ch[r]))]
        /\ UNCHANGED <<closed, terminal, sessClosed, ctxDone, disp, sentBy>>
    BY <1>3 DEF Receive, sessionVars, requestVars
  <2>2. stream(q)' = stream(q)
    <3>1. CASE q = r
      <4>1. Append(got[r], Head(ch[r])) \o Tail(ch[r]) = got[r] \o ch[r]
        BY <1>1, <2>1, ReceiveMoves
      <4>2. ch'[r] = Tail(ch[r]) /\ got'[r] = Append(got[r], Head(ch[r]))
        BY <1>1, <2>1
      <4> QED BY <3>1, <4>1, <4>2 DEF stream
    <3>2. CASE q # r
      BY <1>1, <2>1, <3>2 DEF stream
    <3> QED BY <3>1, <3>2
  <2>3. /\ (delivering(q)' <=> delivering(q)) /\ (finishing(q)' <=> finishing(q))
        /\ intact(q)' => intact(q)
    BY <2>1 DEF delivering, finishing, intact
  <2> QED BY <1>1, <2>1, <2>2, <2>3, OrderFrame
<1>4. CASE \E r \in Requests : \E msg \in 1..End : Read(r, msg)
  BY <1>4, ReadOrder
<1>5. CASE Deliver
  <2>1. /\ UNCHANGED <<ch, got, closed, terminal, sessClosed, ctxDone, sentBy>>
        /\ disp.at = "deliver"
        /\ \/ (closed[disp.r] \/ terminal[disp.r]) /\ disp' = Idle
           \/ disp' = [disp EXCEPT !.at = "select"]
    BY <1>5 DEF Deliver, sessionVars, requestVars, channelVars, callerVars
  <2>2. stream(q)' = stream(q) /\ (intact(q)' <=> intact(q)) /\ ~finishing(q)
    BY <2>1 DEF stream, intact, finishing
  <2>3. CASE disp' = [disp EXCEPT !.at = "select"]
    <3>1. disp'.at = "select" /\ disp'.r = disp.r /\ disp'.msg = disp.msg
      BY <1>1, <2>1, <2>3, DispUpdate
    <3>2. (delivering(q)' <=> delivering(q)) /\ ~finishing(q)'
      BY <2>1, <3>1 DEF delivering, finishing
    <3> QED BY <1>1, <2>1, <2>2, <3>1, <3>2, OrderFrame
  <2>4. CASE (closed[disp.r] \/ terminal[disp.r]) /\ disp' = Idle
    <3>1. ~delivering(q)' /\ ~finishing(q)'
      BY <2>4 DEF delivering, finishing, Idle
    <3>2. CASE disp.r # q
      BY <1>1, <2>1, <2>2, <3>1, <3>2, OrderFrame DEF delivering
    <3>3. CASE disp.r = q
      <4>1. delivering(q) /\ due(q) = sentBy[q] - 1 /\ due(q)' = sentBy[q] /\ ~intact(q)
        BY <2>1, <2>4, <3>1, <3>3 DEF delivering, due, intact
      <4>2. /\ ordered(stream(q)) /\ below(stream(q), due(q)) /\ due(q) \in Nat
            /\ stream(q) \in Seq(Messages) /\ sentBy[q] \in Nat
        BY <1>1, <4>1, DueType, ConcatProperties, Numbers DEF OrderInv, RelayTypes, stream
      <4>3. below(stream(q), sentBy[q])
        <5> DEFINE s == stream(q)   n == due(q)   m == sentBy[q]
        <5>1. s \in Seq(Messages) /\ below(s, n) /\ n \in Nat /\ m \in Nat /\ n <= m
          BY <4>1, <4>2
        <5> HIDE DEF s, n, m
        <5>2. below(s, m)
          BY <5>1, BelowMore
        <5> QED BY <5>2 DEF s, m
      <4> QED BY <2>2, <3>1, <4>1, <4>2, <4>3, BrokenOrder
    <3> QED BY <3>2, <3>3
  <2> QED BY <2>1, <2>3, <2>4
<1>6. CASE DeliverSelect
  <2>1. disp.r \in Requests
    BY <1>1, <1>6 DEF DeliverSelect, DispInv
  <2> QED BY <1>6, <2>1, SelectOrder
<1>7. CASE DeliverTerminal
  <2>1. disp.r \in Requests
    BY <1>1, <1>7 DEF DeliverTerminal, DispInv
  <2> QED BY <1>7, <2>1, TerminalOrder
<1>8. CASE TerminalDelete
  <2>1. /\ UNCHANGED <<ch, got, closed, terminal, sessClosed, ctxDone, sentBy>>
        /\ disp.at = "delete" /\ disp'.at \in {"close", "read"}
    BY <1>1, <1>8 DEF TerminalDelete, sessionVars, requestVars, channelVars, callerVars, DispInv,
       Idle
  <2>2. /\ stream(q)' = stream(q) /\ (intact(q)' => intact(q))
        /\ ~delivering(q) /\ ~finishing(q) /\ ~delivering(q)' /\ ~finishing(q)'
    BY <2>1 DEF stream, intact, delivering, finishing
  <2> QED BY <1>1, <2>1, <2>2, OrderFrame
<1>9. ASSUME NEW r \in Requests, NEW last, closing(r, last) PROVE OrderInv(q)'
  <2>1. /\ UNCHANGED <<got, terminal, sessClosed, ctxDone, sentBy>>
        /\ disp' = disp \/ (disp.at = "close" /\ disp' = Idle)
    BY <1>9 DEF closing, UndoClose, TerminalClose, RangeCancel, sessionVars, callerVars
  <2>2. /\ (delivering(q)' <=> delivering(q)) /\ (finishing(q)' <=> finishing(q)) /\ due(q)' = due(q)
        /\ delivering(q) \/ finishing(q) => disp' = disp
    BY <2>1 DEF delivering, finishing, Idle, due
  <2>3. /\ \A p \in Requests \ {r} : ch'[p] = ch[p] /\ closed'[p] = closed[p]
        /\ closed'[r] /\ ch'[r] \in {ch[r], last}
        /\ ordered(got[r] \o last) /\ below(got[r] \o last, due(r))
    BY <1>9, ClosingFacts, CloseEffect DEF RelayInd
  <2>4. CASE q # r
    <3>1. stream(q)' = stream(q) /\ (intact(q)' => intact(q))
      BY <2>1, <2>3, <2>4 DEF stream, intact
    <3> QED BY <1>1, <2>1, <2>2, <3>1, OrderFrame
  <2>5. CASE q = r
    <3>1. ~intact(r)' /\ ordered(stream(r)') /\ below(stream(r)', due(r))
      BY <1>1, <2>1, <2>3, <2>5 DEF intact, stream, OrderInv
    <3>2. /\ delivering(r)' => disp'.msg = sentBy'[r] /\ disp'.msg \in 1..MaxChunk
          /\ finishing(r)' => disp'.msg = End
      BY <1>1, <2>1, <2>2, <2>5 DEF OrderInv
    <3> QED BY <2>2, <2>5, <3>1, <3>2, BrokenOrder
  <2> QED BY <2>4, <2>5
<1>10. CASE TerminalClose \/ \E r \in Requests : UndoClose(r) \/ RangeCancel(r)
  BY <1>9, <1>10, ClosingSteps
<1> QED
  BY <1>2, <1>3, <1>4, <1>5, <1>6, <1>7, <1>8, <1>10
  DEF Next, Request, AfterFunc, Dispatch, CleanupRange

\* No request is stored in a session at the start.
LEMMA RelayInit == Init => RelayInd
<1> SUFFICES ASSUME Init PROVE RelayInd
  OBVIOUS
<1>1. <<>> \in Seq(Messages) /\ Len(<<>>) = 0 /\ DOMAIN <<>> = {} /\ <<>> \o <<>> = <<>>
  BY EmptySeq, LenProperties, ConcatEmptySeq
<1>2. RelayTypes
  <2>1. DispInv
    BY DEF Init, DispInv, Idle
  <2>2. sentBy \in [Requests -> 0..End] /\ closes \in [Requests -> Nat]
    BY Numbers DEF Init
  <2>3. ch \in [Requests -> Seq(Messages)] /\ got \in [Requests -> Seq(Messages)]
    BY <1>1 DEF Init
  <2> QED BY <2>1, <2>2, <2>3 DEF Init, RelayTypes
<1>3. ASSUME NEW r \in Requests PROVE ChannelInv(r) /\ RequestInv(r)
  BY <1>1, Numbers DEF Init, ChannelInv, RequestInv, Idle
<1>4. ASSUME NEW r \in Requests PROVE OrderInv(r)
  <2>1. stream(r) = <<>> /\ ~delivering(r) /\ ~finishing(r) /\ due(r) = 0
    BY <1>1 DEF Init, stream, delivering, finishing, due, Idle
  <2> QED BY <1>1, <2>1 DEF OrderInv, ordered, below, complete
<1> QED BY <1>2, <1>3, <1>4 DEF RelayInd

\* The safety of a session in every state of every behaviour.
THEOREM RelayCorrect == Spec => []RelayInv
<1>1. RelayInd /\ [Next]_vars => RelayInd'
  BY TypesStep, ChannelStep, RequestStep, OrderStep DEF RelayInd
<1>2. RelayInd => RelayInv
  <2> SUFFICES ASSUME RelayInd PROVE RelayInv
    OBVIOUS
  <2>1. /\ RelayTypes
        /\ \A r \in Requests : ChannelInv(r) /\ RequestInv(r) /\ OrderInv(r)
    BY DEF RelayInd
  <2>2. TypeOK
    BY <2>1 DEF RelayTypes, ChannelInv, TypeOK
  <2>3. ChannelClosedOnce
    <3> SUFFICES ASSUME NEW r \in Requests
                 PROVE  closes[r] <= (IF lock[r] = Free THEN 1 ELSE 0)
      BY DEF ChannelClosedOnce
    <3>1. closes[r] = (IF closed[r] THEN 1 ELSE 0) /\ (lock[r] # Free => ~closed[r])
      BY <2>1 DEF ChannelInv
    <3> QED BY <3>1
  <2>4. InOrder
    BY <2>1 DEF OrderInv, InOrder, stream, complete
  <2>5. NothingLeaks
    <3> SUFFICES ASSUME cleaner = "done", \A r \in Requests : req[r] \in {"idle", "sent", "failed"}
                 PROVE  /\ pending = {}
                        /\ \A r \in Requests :
                            req[r] = "sent" /\ disp.r # r /\ after[r] # "cancel" => closed[r]
      BY DEF NothingLeaks
    <3>1. pending = {}
      BY <2>1 DEF RelayTypes, RequestInv
    <3>2. ending = {}
      BY <2>1 DEF RelayTypes
    <3> QED BY <2>1, <3>1, <3>2 DEF RequestInv
  <2> QED BY <2>2, <2>3, <2>4, <2>5 DEF RelayInv
<1> QED BY RelayInit, <1>1, <1>2, PTL DEF Spec
=============================================================================
