------------------------- MODULE SelectionResources -------------------------
(***************************************************************************)
(* The resources of one Home dispatch selection                            *)
(* (sdk/cliproxy/auth/home_selection.go): what the bound resource of a     *)
(* registry scope really is.  Attempts register the cancellation of their  *)
(* context and release it when they are over (attemptCancels); executors   *)
(* bind further closers (executionResources), of which the attempts'       *)
(* cancellation is the first; the registry closes the selection once, from *)
(* a goroutine of its own, at any moment.                                  *)
(***************************************************************************)
EXTENDS Naturals, Sequences, SequencesExt

CONSTANTS
    Attempts,       \* calls of AttemptContext
    Binders,        \* calls of HomeDispatchSelection.Bind
    CancelAttempts  \* the closer attemptCancels.Close

ASSUME CancelAttemptsAssumption == CancelAttempts \notin Binders

VARIABLES
    closed,         \* executionResources.closed
    closers,        \* executionResources.closers
    listClosed,     \* attemptCancels.closed
    listed,         \* attemptCancels.cancels
    attempt,        \* where each attempt is
    cancelled,      \* the attempts whose context was cancelled
    binder,         \* where each Bind is
    closing,        \* where the Close of the selection is
    todo,           \* the closers Close has still to run
    sweep,          \* the attempts attemptCancels.Close has still to cancel
    bound,          \* history: the closers added to the list, in order
    ran             \* history: the closers of the list that ran, in order

listVars == <<closed, closers, bound>>
attemptVars == <<listClosed, listed, attempt, cancelled>>
closeVars == <<closing, todo, sweep>>
vars == <<closed, closers, listClosed, listed, attempt, cancelled, binder,
          closing, todo, sweep, bound, ran>>

\* newHomeDispatchSelection adds the cancellation of the attempts first.
Init ==
    /\ closed = FALSE
    /\ closers = <<CancelAttempts>> /\ bound = <<CancelAttempts>>
    /\ listClosed = FALSE /\ listed = {}
    /\ attempt = [a \in Attempts |-> "idle"]
    /\ cancelled = {}
    /\ binder = [b \in Binders |-> "idle"]
    /\ closing = "idle" /\ todo = <<>> /\ sweep = {}
    /\ ran = <<>>

(***************************************************************************)
(* AttemptContext and the release function it returns.                     *)
(***************************************************************************)
\* Mutant of AddAttempt: the list is not tested for having been closed.
AddAttemptUnchecked(a) ==
    /\ attempt[a] = "idle"
    /\ listed' = listed \cup {a}
    /\ attempt' = [attempt EXCEPT ![a] = "active"]
    /\ UNCHANGED <<listClosed, cancelled, listVars, binder, closeVars, ran>>

AddAttempt(a) ==
    /\ attempt[a] = "idle"
    /\ \/ /\ ~listClosed
          /\ listed' = listed \cup {a}
          /\ attempt' = [attempt EXCEPT ![a] = "active"]
       \/ /\ listClosed
          /\ attempt' = [attempt EXCEPT ![a] = "refused"]
          /\ UNCHANGED listed
    /\ UNCHANGED <<listClosed, cancelled, listVars, binder, closeVars, ran>>

\* Mutant of RefuseAttempt: the error is returned without the cancellation.
RefuseAttemptOnly(a) ==
    /\ attempt[a] = "refused"
    /\ attempt' = [attempt EXCEPT ![a] = "over"]
    /\ UNCHANGED <<listClosed, listed, cancelled, listVars, binder, closeVars, ran>>

\* cancel() of an attempt that came too late.
RefuseAttempt(a) ==
    /\ attempt[a] = "refused"
    /\ attempt' = [attempt EXCEPT ![a] = "over"]
    /\ cancelled' = cancelled \cup {a}
    /\ UNCHANGED <<listClosed, listed, listVars, binder, closeVars, ran>>

\* The release function: out of the list under the lock, cancelled after it.
ReleaseAttempt(a) ==
    /\ attempt[a] = "active"
    /\ listed' = listed \ {a}
    /\ attempt' = [attempt EXCEPT ![a] = "releasing"]
    /\ UNCHANGED <<listClosed, cancelled, listVars, binder, closeVars, ran>>

CancelReleased(a) ==
    /\ attempt[a] = "releasing"
    /\ attempt' = [attempt EXCEPT ![a] = "over"]
    /\ cancelled' = cancelled \cup {a}
    /\ UNCHANGED <<listClosed, listed, listVars, binder, closeVars, ran>>

(***************************************************************************)
(* executionResources.Add: a closer that comes too late is run by its      *)
(* binder, after the unlock.                                               *)
(***************************************************************************)
\* Mutant of Bind: a late closer goes into the list nobody will run.
BindUnchecked(b) ==
    /\ binder[b] = "idle"
    /\ closers' = Append(closers, b) /\ bound' = Append(bound, b)
    /\ binder' = [binder EXCEPT ![b] = "bound"]
    /\ UNCHANGED <<closed, attemptVars, closeVars, ran>>

Bind(b) ==
    /\ binder[b] = "idle"
    /\ \/ /\ ~closed
          /\ closers' = Append(closers, b) /\ bound' = Append(bound, b)
          /\ binder' = [binder EXCEPT ![b] = "bound"]
       \/ /\ closed
          /\ binder' = [binder EXCEPT ![b] = "late"]
          /\ UNCHANGED <<closers, bound>>
    /\ UNCHANGED <<closed, attemptVars, closeVars, ran>>

CloseLate(b) ==
    /\ binder[b] = "late"
    /\ binder' = [binder EXCEPT ![b] = "refused"]
    /\ UNCHANGED <<listVars, attemptVars, closeVars, ran>>

(***************************************************************************)
(* executionResources.Close: the list is taken under the lock and run      *)
(* backwards; attemptCancels.Close does the same with the attempts.        *)
(***************************************************************************)
CloseStart ==
    /\ closing = "idle"
    /\ closed' = TRUE
    /\ todo' = closers /\ closers' = <<>>
    /\ closing' = "running"
    /\ UNCHANGED <<bound, attemptVars, binder, sweep, ran>>

\* Mutant of CloseNext: the closers are run in the order they were bound.
CloseNextForward ==
    /\ closing = "running" /\ todo # <<>>
    /\ todo' = Tail(todo) /\ ran' = Append(ran, Head(todo))
    /\ \/ /\ Head(todo) = CancelAttempts
          /\ listClosed' = TRUE
          /\ sweep' = listed /\ listed' = {}
          /\ closing' = "cancelling"
       \/ /\ Head(todo) # CancelAttempts
          /\ UNCHANGED <<listClosed, sweep, listed, closing>>
    /\ UNCHANGED <<listVars, attempt, cancelled, binder>>

CloseNext ==
    /\ closing = "running" /\ todo # <<>>
    /\ todo' = Front(todo) /\ ran' = Append(ran, Last(todo))
    /\ \/ /\ Last(todo) = CancelAttempts
          /\ listClosed' = TRUE
          /\ sweep' = listed /\ listed' = {}
          /\ closing' = "cancelling"
       \/ /\ Last(todo) # CancelAttempts
          /\ UNCHANGED <<listClosed, sweep, listed, closing>>
    /\ UNCHANGED <<listVars, attempt, cancelled, binder>>

CancelNext(a) ==
    /\ closing = "cancelling" /\ a \in sweep
    /\ cancelled' = cancelled \cup {a}
    /\ sweep' = sweep \ {a}
    /\ UNCHANGED <<listVars, listClosed, listed, attempt, binder, closing, todo, ran>>

CancelsDone ==
    /\ closing = "cancelling" /\ sweep = {}
    /\ closing' = "running"
    /\ UNCHANGED <<listVars, attemptVars, binder, todo, sweep, ran>>

CloseEnd ==
    /\ closing = "running" /\ todo = <<>>
    /\ closing' = "done"
    /\ UNCHANGED <<listVars, attemptVars, binder, todo, sweep, ran>>

Close == CloseNext \/ (\E a \in Attempts : CancelNext(a)) \/ CancelsDone \/ CloseEnd

Next ==
    \/ \E a \in Attempts : \/ AddAttempt(a) \/ RefuseAttempt(a)
                           \/ ReleaseAttempt(a) \/ CancelReleased(a)
    \/ \E b \in Binders : Bind(b) \/ CloseLate(b)
    \/ CloseStart \/ Close

Spec == Init /\ [][Next]_vars

\* Every call runs to its end once it has begun; nothing forces an attempt to be
\* released or the selection to be closed.
Fairness ==
    /\ WF_vars(Close)
    /\ \A a \in Attempts : WF_vars(RefuseAttempt(a)) /\ WF_vars(CancelReleased(a))

FairSpec == Spec /\ Fairness

-----------------------------------------------------------------------------
\* The values the variables take (home_selection.go, executionResources and
\* attemptCancels); a list that was taken by Close stays nil.
TypeOK ==
    /\ closed \in BOOLEAN /\ listClosed \in BOOLEAN
    /\ closers \in Seq(Binders \cup {CancelAttempts})
    /\ listed \subseteq Attempts /\ cancelled \subseteq Attempts /\ sweep \subseteq Attempts
    /\ attempt \in [Attempts -> {"idle", "active", "releasing", "refused", "over"}]
    /\ binder \in [Binders -> {"idle", "bound", "late", "refused"}]
    /\ closing \in {"idle", "running", "cancelling", "done"}
    /\ todo \in Seq(Binders \cup {CancelAttempts})
    /\ bound \in Seq(Binders \cup {CancelAttempts}) /\ ran \in Seq(Binders \cup {CancelAttempts})
    /\ closed => closers = <<>>

\* When the close of the selection has returned, and with it the slot may be
\* given back to Home, no attempt is left running: the context of every attempt
\* that was not released has been cancelled, whenever it was registered
\* (home_selection.go 47 and 82-89).
CloseEndsAttempts ==
    closing = "done" => \A a \in Attempts : attempt[a] = "active" => a \in cancelled

\* The closers of the list run once each, in the reverse of the order they were
\* bound in, the cancellation of the attempts last; when Close has returned none
\* is left, also of those bound while it started.
ClosersRunInReverse ==
    /\ IsPrefix(ran, Reverse(bound))
    /\ closing = "done" => Len(ran) = Len(bound)

\* Once the selection is being closed the context of every attempt that asked
\* for one, before or after, is eventually cancelled.
AttemptsCancelled ==
    \A a \in Attempts : closed /\ attempt[a] # "idle" ~> a \in cancelled

(***************************************************************************)
(* The safety of a selection, in one invariant: besides the types, no      *)
(* attempt outlives the close, and every closer runs once, the last bound  *)
(* first.                                                                  *)
(***************************************************************************)
SelectionInv ==
    /\ TypeOK
    /\ CloseEndsAttempts
    /\ ClosersRunInReverse
=============================================================================
