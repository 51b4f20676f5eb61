---------------------------- MODULE RelaySession ----------------------------
(***************************************************************************)
(* A session of the WebSocket relay (internal/wsrelay/session.go) and the  *)
(* callers that wait for its answers (http.go).  A request is stored in    *)
(* the pending map and written to the connection; the session's read loop  *)
(* dispatches what the provider sends to the channel of the request it     *)
(* names; cleanup ends the session and what is still pending.              *)
(*                                                                         *)
(* The channel, the flags and the lock of a pendingRequest are indexed by  *)
(* the request.  A deliver that finds the channel full waits in its select *)
(* with the lock held.                                                     *)
(***************************************************************************)
EXTENDS Naturals, Sequences

CONSTANTS
    Requests,       \* requests sent over the session, by message ID
    Streams,        \* those that are answered by a stream, not by one response
    Buffer,         \* pendingChannelBuffer
    MaxChunk        \* bound: stream chunks the provider sends for a request

ASSUME RelayAssumption ==
    Buffer \in Nat \ {0} /\ MaxChunk \in Nat /\ Streams \subseteq Requests

\* Chunks are numbered; the messages that are not chunks come after them.
End == MaxChunk + 1     \* a terminal message: stream end, response or error
Error == MaxChunk + 2   \* the error frame of cancelWithError
Free == "free"

VARIABLES
    pending,        \* session.pending
    sessClosed,     \* session.closed is closed
    connOpen,       \* the connection
    cleaner,        \* where cleanup is
    late,           \* stored after cleanup began: the Range may miss them
    ending,         \* what the Range has removed and has to cancel
    req,            \* where request() is
    ctxDone,        \* requests whose context is cancelled
    after,          \* context.AfterFunc of each request
    ch, closed, terminal,   \* of each pendingRequest
    lock,           \* who holds pendingRequest.mu across steps
    disp,           \* the read loop: where it is, for which request and message
    sentBy,         \* the last message the provider has sent
    caller,         \* the reader of the channel: "waits", or how it has ended
    got,            \* history: what the caller has received
    closes          \* history: close calls on the channel

requestVars == <<req, ctxDone, after>>
channelVars == <<ch, closed, terminal, closes>>
callerVars == <<caller, got>>
sessionVars == <<sessClosed, connOpen, cleaner, ending>>
vars == <<pending, sessionVars, late, requestVars, channelVars, lock, disp, sentBy, callerVars>>

Idle == [at |-> "read", r |-> Free, msg |-> 0]

Init ==
    /\ pending = {} /\ sessClosed = FALSE /\ connOpen = TRUE
    /\ cleaner = "none" /\ late = {} /\ ending = {}
    /\ req = [r \in Requests |-> "idle"] /\ ctxDone = {}
    /\ after = [r \in Requests |-> "none"]
    /\ ch = [r \in Requests |-> <<>>]
    /\ closed = [r \in Requests |-> FALSE] /\ terminal = [r \in Requests |-> FALSE]
    /\ lock = [r \in Requests |-> Free]
    /\ disp = Idle
    /\ sentBy = [r \in Requests |-> 0]
    /\ caller = [r \in Requests |-> "none"] /\ got = [r \in Requests |-> <<>>]
    /\ closes = [r \in Requests |-> 0]

(***************************************************************************)
(* pendingRequest.                                                         *)
(***************************************************************************)
\* The newest message takes the place of the oldest when the channel is full.
forced(seq, msg) == Append(IF Len(seq) < Buffer THEN seq ELSE Tail(seq), msg)

\* Mutant of closeChannel: without the lock.
closeChannelUnlocked(r, last) ==
    \/ closed[r] /\ UNCHANGED <<ch, closed, closes, after>>
    \/ /\ ~closed[r]
       /\ closed' = [closed EXCEPT ![r] = TRUE]
       /\ closes' = [closes EXCEPT ![r] = @ + 1]
       /\ after' = [after EXCEPT ![r] = IF @ = "armed" THEN "stopped" ELSE @]
       /\ ch' = [ch EXCEPT ![r] = IF terminal[r] THEN @ ELSE last]

\* close, cancel and cancelWithError, under mu: once; last is the channel's
\* content with the error frame of cancelWithError, if there is one.
closeChannel(r, last) ==
    /\ lock[r] = Free
    /\ \/ closed[r] /\ UNCHANGED <<ch, closed, closes, after>>
       \/ /\ ~closed[r]
          /\ closed' = [closed EXCEPT ![r] = TRUE]
          /\ closes' = [closes EXCEPT ![r] = @ + 1]
          /\ after' = [after EXCEPT ![r] = IF @ = "armed" THEN "stopped" ELSE @]
          /\ ch' = [ch EXCEPT ![r] = IF terminal[r] THEN @ ELSE last]

(***************************************************************************)
(* request and send.                                                       *)
(***************************************************************************)
Store(r) ==
    /\ req[r] = "idle"
    /\ req' = [req EXCEPT ![r] = "stored"]
    /\ pending' = pending \cup {r}
    /\ late' = IF cleaner # "none" THEN late \cup {r} ELSE late
    /\ UNCHANGED <<sessionVars, ctxDone, after, channelVars, lock, disp, sentBy, callerVars>>

ArmCancel(r) ==
    /\ req[r] = "stored"
    /\ lock[r] = Free
    /\ req' = [req EXCEPT ![r] = "armed"]
    /\ after' = [after EXCEPT ![r] = "armed"]
    /\ UNCHANGED <<pending, sessionVars, late, ctxDone, channelVars, lock, disp, sentBy,
                   callerVars>>

SendCheck(r) ==
    /\ req[r] = "armed"
    /\ req' = [req EXCEPT ![r] = IF sessClosed THEN "undo" ELSE "write"]
    /\ UNCHANGED <<pending, sessionVars, late, ctxDone, after, channelVars, lock, disp, sentBy,
                   callerVars>>

\* The write succeeds, also into a connection that has just broken, or fails.
Write(r, ok) ==
    /\ req[r] = "write"
    /\ req' = [req EXCEPT ![r] = IF ok THEN "sent" ELSE "undo"]
    /\ ok => connOpen
    /\ caller' = [caller EXCEPT ![r] = IF ok THEN "waits" ELSE @]
    /\ UNCHANGED <<pending, sessionVars, late, ctxDone, after, channelVars, lock, disp, sentBy,
                   got>>

\* Mutant of UndoDelete: the entry stays in the map.
UndoKeepsEntry(r) ==
    /\ req[r] = "undo"
    /\ req' = [req EXCEPT ![r] = "failed"]
    /\ UNCHANGED <<pending, sessionVars, late, ctxDone, after, channelVars, lock, disp, sentBy,
                   callerVars>>

UndoDelete(r) ==
    /\ req[r] = "undo"
    /\ req' = [req EXCEPT ![r] = IF r \in pending THEN "close" ELSE "failed"]
    /\ pending' = pending \ {r}
    /\ UNCHANGED <<sessionVars, late, ctxDone, after, channelVars, lock, disp, sentBy, callerVars>>

UndoClose(r) ==
    /\ req[r] = "close"
    /\ closeChannel(r, ch[r])
    /\ req' = [req EXCEPT ![r] = "failed"]
    /\ UNCHANGED <<pending, sessionVars, late, ctxDone, terminal, lock, disp, sentBy, callerVars>>

CancelContext(r) ==
    /\ req[r] # "idle" /\ r \notin ctxDone
    /\ ctxDone' = ctxDone \cup {r}
    /\ UNCHANGED <<pending, sessionVars, late, req, after, channelVars, lock, disp, sentBy,
                   callerVars>>

\* The function given to AfterFunc.
AfterDelete(r) ==
    /\ after[r] = "armed" /\ r \in ctxDone
    /\ after' = [after EXCEPT ![r] = IF r \in pending THEN "cancel" ELSE "stopped"]
    /\ pending' = pending \ {r}
    /\ UNCHANGED <<sessionVars, late, req, ctxDone, channelVars, lock, disp, sentBy, callerVars>>

AfterCancel(r) ==
    /\ after[r] = "cancel"
    /\ lock[r] = Free
    /\ after' = [after EXCEPT ![r] = "stopped"]
    /\ \/ closed[r] /\ UNCHANGED <<closed, closes>>
       \/ /\ ~closed[r]
          /\ closed' = [closed EXCEPT ![r] = TRUE]
          /\ closes' = [closes EXCEPT ![r] = @ + 1]
    /\ UNCHANGED <<pending, sessionVars, late, req, ctxDone, ch, terminal, lock, disp, sentBy,
                   callerVars>>

(***************************************************************************)
(* The caller reads until a terminal message, the close or its context.    *)
(***************************************************************************)
Receive(r) ==
    /\ caller[r] = "waits"
    /\ ch[r] # <<>>
    /\ ch' = [ch EXCEPT ![r] = Tail(@)]
    /\ got' = [got EXCEPT ![r] = Append(@, Head(ch[r]))]
    /\ caller' = [caller EXCEPT ![r] = IF Head(ch[r]) = End THEN "end"
                                          ELSE IF Head(ch[r]) = Error THEN "error" ELSE @]
    /\ UNCHANGED <<pending, sessionVars, late, requestVars, closed, terminal, closes, lock, disp,
                   sentBy>>

SeesClose(r) ==
    /\ caller[r] = "waits"
    /\ ch[r] = <<>> /\ closed[r]
    /\ caller' = [caller EXCEPT ![r] = "closed"]
    /\ UNCHANGED <<pending, sessionVars, late, requestVars, channelVars, lock, disp, sentBy, got>>

GivesUp(r) ==
    /\ caller[r] = "waits"
    /\ r \in ctxDone
    /\ caller' = [caller EXCEPT ![r] = "cancelled"]
    /\ UNCHANGED <<pending, sessionVars, late, requestVars, channelVars, lock, disp, sentBy, got>>

(***************************************************************************)
(* The read loop: run and dispatch.  The provider answers what was         *)
(* written: chunks in their order, then a terminal message.                *)
(***************************************************************************)
Read(r, msg) ==
    /\ disp.at = "read" /\ connOpen
    /\ req[r] = "sent"
    /\ sentBy[r] <= MaxChunk
    /\ msg = End \/ (r \in Streams /\ msg = sentBy[r] + 1)
    /\ sentBy' = [sentBy EXCEPT ![r] = msg]
    /\ disp' = IF r \notin pending THEN Idle
               ELSE [at |-> IF msg = End THEN "terminal" ELSE "deliver", r |-> r, msg |-> msg]
    /\ UNCHANGED <<pending, sessionVars, late, requestVars, channelVars, lock, callerVars>>

Deliver ==
    LET r == disp.r
    IN  /\ disp.at = "deliver"
        /\ lock[r] = Free
        /\ \/ (closed[r] \/ terminal[r]) /\ disp' = Idle /\ UNCHANGED lock
           \/ /\ ~closed[r] /\ ~terminal[r]
              /\ lock' = [lock EXCEPT ![r] = "dispatcher"]
              /\ disp' = [disp EXCEPT !.at = "select"]
        /\ UNCHANGED <<pending, sessionVars, late, requestVars, channelVars, sentBy, callerVars>>

\* Mutant of DeliverSelect: the lock is not released.
DeliverSelectKeepsLock ==
    LET r == disp.r
    IN  /\ disp.at = "select"
        /\ \/ /\ Len(ch[r]) < Buffer
              /\ ch' = [ch EXCEPT ![r] = Append(@, disp.msg)]
           \/ (sessClosed \/ r \in ctxDone) /\ UNCHANGED ch
        /\ disp' = Idle
        /\ UNCHANGED <<pending, sessionVars, late, requestVars, closed, terminal, closes, lock,
                       sentBy, callerVars>>

\* Mutant of DeliverSelect: a chunk the channel has no room for is dropped.
DeliverSelectDrops ==
    LET r == disp.r
    IN  /\ disp.at = "select"
        /\ ch' = [ch EXCEPT ![r] = IF Len(@) < Buffer THEN Append(@, disp.msg) ELSE @]
        /\ lock' = [lock EXCEPT ![r] = Free]
        /\ disp' = Idle
        /\ UNCHANGED <<pending, sessionVars, late, requestVars, closed, terminal, closes, sentBy,
                       callerVars>>

\* Mutant of DeliverSelect: the request's context is not among the cases.
DeliverSelectNoContext ==
    LET r == disp.r
    IN  /\ disp.at = "select"
        /\ \/ /\ Len(ch[r]) < Buffer
              /\ ch' = [ch EXCEPT ![r] = Append(@, disp.msg)]
           \/ sessClosed /\ UNCHANGED ch
        /\ lock' = [lock EXCEPT ![r] = Free]
        /\ disp' = Idle
        /\ UNCHANGED <<pending, sessionVars, late, requestVars, closed, terminal, closes, sentBy,
                       callerVars>>

\* The select: room in the channel, the session's end or the request's.  done is
\* closed under the lock only.
DeliverSelect ==
    LET r == disp.r
    IN  /\ disp.at = "select"
        /\ \/ /\ Len(ch[r]) < Buffer
              /\ ch' = [ch EXCEPT ![r] = Append(@, disp.msg)]
           \/ (sessClosed \/ r \in ctxDone) /\ UNCHANGED ch
        /\ lock' = [lock EXCEPT ![r] = Free]
        /\ disp' = Idle
        /\ UNCHANGED <<pending, sessionVars, late, requestVars, closed, terminal, closes, sentBy,
                       callerVars>>

DeliverTerminal ==
    LET r == disp.r
    IN  /\ disp.at = "terminal"
        /\ lock[r] = Free
        /\ \/ closed[r] /\ UNCHANGED <<ch, terminal>>
           \/ /\ ~closed[r]
              /\ terminal' = [terminal EXCEPT ![r] = TRUE]
              /\ ch' = [ch EXCEPT ![r] = forced(@, disp.msg)]
        /\ disp' = [disp EXCEPT !.at = "delete"]
        /\ UNCHANGED <<pending, sessionVars, late, requestVars, closed, closes, lock, sentBy,
                       callerVars>>

TerminalDelete ==
    /\ disp.at = "delete"
    /\ disp' = IF disp.r \in pending THEN [disp EXCEPT !.at = "close"] ELSE Idle
    /\ pending' = pending \ {disp.r}
    /\ UNCHANGED <<sessionVars, late, requestVars, channelVars, lock, sentBy, callerVars>>

TerminalClose ==
    /\ disp.at = "close"
    /\ closeChannel(disp.r, ch[disp.r])
    /\ disp' = Idle
    /\ UNCHANGED <<pending, sessionVars, late, req, ctxDone, terminal, lock, sentBy, callerVars>>

(***************************************************************************)
(* cleanup, once: by the read loop, the heartbeat, a newer connection or   *)
(* the manager's Stop.                                                     *)
(***************************************************************************)
\* Mutant of Cleanup: closed is closed when the Range is through.
CleanupClosesLast ==
    /\ cleaner = "none"
    /\ cleaner' = "range"
    /\ UNCHANGED <<pending, sessClosed, connOpen, ending, late, requestVars, channelVars, lock,
                   disp, sentBy, callerVars>>

Cleanup ==
    /\ cleaner = "none"
    /\ cleaner' = "range"
    /\ sessClosed' = TRUE
    /\ UNCHANGED <<pending, connOpen, ending, late, requestVars, channelVars, lock, disp, sentBy,
                   callerVars>>

RangeDelete(r) ==
    /\ cleaner = "range" /\ ending = {}
    /\ r \in pending
    /\ pending' = pending \ {r}
    /\ ending' = {r}
    /\ UNCHANGED <<sessClosed, connOpen, cleaner, late, requestVars, channelVars, lock, disp,
                   sentBy, callerVars>>

RangeCancel(r) ==
    /\ r \in ending
    /\ closeChannel(r, forced(ch[r], Error))
    /\ ending' = {}
    /\ UNCHANGED <<pending, sessClosed, connOpen, cleaner, late, req, ctxDone, terminal, lock,
                   disp, sentBy, callerVars>>

\* Entries stored while the Range runs may stay behind.
RangeEnds ==
    /\ cleaner = "range" /\ ending = {}
    /\ pending \subseteq late
    /\ cleaner' = "done"
    /\ sessClosed' = TRUE
    /\ connOpen' = FALSE
    /\ UNCHANGED <<pending, ending, late, requestVars, channelVars, lock, disp, sentBy, callerVars>>

Request(r) ==
    \/ ArmCancel(r) \/ SendCheck(r) \/ (\E ok \in BOOLEAN : Write(r, ok))
    \/ UndoDelete(r) \/ UndoClose(r)

AfterFunc(r) == AfterDelete(r) \/ AfterCancel(r)
Dispatch == Deliver \/ DeliverSelect \/ DeliverTerminal \/ TerminalDelete \/ TerminalClose
CleanupRange == (\E r \in Requests : RangeDelete(r) \/ RangeCancel(r)) \/ RangeEnds

Next ==
    \/ \E r \in Requests :
        \/ Store(r) \/ Request(r) \/ CancelContext(r) \/ AfterFunc(r)
        \/ Receive(r) \/ SeesClose(r) \/ GivesUp(r)
        \/ \E msg \in 1..End : Read(r, msg)
    \/ Dispatch \/ Cleanup \/ CleanupRange

Spec == Init /\ [][Next]_vars

\* Everyone goes on who can; nothing makes the provider answer, the context end
\* or the connection break.
Fairness ==
    /\ WF_vars(Dispatch) /\ WF_vars(CleanupRange)
    /\ \A r \in Requests :
        /\ WF_vars(Request(r)) /\ WF_vars(AfterFunc(r))
        /\ WF_vars(Receive(r) \/ SeesClose(r) \/ GivesUp(r))

LiveSpec == Spec /\ Fairness

(***************************************************************************)
(* Properties.                                                             *)
(***************************************************************************)
TypeOK ==
    /\ pending \subseteq Requests /\ late \subseteq Requests /\ ending \subseteq Requests
    /\ sessClosed \in BOOLEAN /\ connOpen \in BOOLEAN
    /\ cleaner \in {"none", "range", "done"}
    /\ req \in [Requests -> {"idle", "stored", "armed", "write", "sent", "undo", "close", "failed"}]
    /\ after \in [Requests -> {"none", "armed", "cancel", "stopped"}]
    /\ \A r \in Requests : Len(ch[r]) <= Buffer
    /\ lock \in [Requests -> {Free, "dispatcher"}]
    /\ \A r \in Requests : lock[r] # Free => disp.at = "select" /\ disp.r = r
    /\ sentBy \in [Requests -> 0..End]
    /\ caller \in [Requests -> {"none", "waits", "end", "error", "closed", "cancelled"}]

\* Dispatch, cleanup, AfterFunc and a failed send all close channels: each one is
\* closed at most once, and never while deliver is about to send on it.
ChannelClosedOnce ==
    \A r \in Requests : closes[r] <= (IF lock[r] = Free THEN 1 ELSE 0)

\* The caller sees the stream as it was sent, up to the first of its chunks that
\* a terminal message, an error frame or the end of the session has displaced.
isChunk(msg) == msg \notin {End, Error}
ordered(seq) ==
    \A i, j \in DOMAIN seq : i < j /\ isChunk(seq[i]) /\ isChunk(seq[j]) => seq[i] < seq[j]
intact(r) == ~terminal[r] /\ ~closed[r] /\ ~sessClosed /\ r \notin ctxDone

InOrder ==
    \A r \in Requests :
        LET stream == got[r] \o ch[r]
        IN  /\ ordered(stream)
            /\ intact(r) => \A i \in DOMAIN stream : stream[i] = i

\* A session that is over and has no request under way keeps none: the map is
\* empty and every channel that was handed out is closed.
NothingLeaks ==
    cleaner = "done" /\ (\A r \in Requests : req[r] \in {"idle", "sent", "failed"}) =>
        /\ pending = {}
        /\ \A r \in Requests : req[r] = "sent" /\ disp.r # r /\ after[r] # "cancel" => closed[r]

\* "No silent frame loss": who receives the end of the stream has received every
\* chunk that was dispatched before it.
NoSilentFrameLoss ==
    \A r \in Requests : caller[r] = "end" =>
        \A i \in DOMAIN got[r] : got[r][i] # End => got[r][i] = i

\* A read loop that waits for a slow caller is released by the caller, by its
\* context or by the end of the session: cancel does not wait for the lock forever.
DispatcherReleased == disp.at = "select" ~> disp.at = "read"

\* No caller is left waiting on a session that has ended, also one whose request
\* was stored or written while cleanup was running.
CallersEnd == \A r \in Requests : cleaner = "done" /\ caller[r] = "waits" ~> caller[r] # "waits"

(***************************************************************************)
(* The safety of a session, in one invariant: besides the types, channels  *)
(* are closed once, chunks stay in order, and an ended session keeps       *)
(* nothing.                                                                *)
(***************************************************************************)
RelayInv ==
    /\ TypeOK
    /\ ChannelClosedOnce
    /\ InOrder
    /\ NothingLeaks

\* Neither the read loop nor a caller waits for ever.
NobodyWaits == DispatcherReleased /\ CallersEnd
=============================================================================
