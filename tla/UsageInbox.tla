----------------------------- MODULE UsageInbox -----------------------------
(***************************************************************************)
(* The usage inbox of the keeper: raw usage messages are stored as rows    *)
(* (repository/redis_usage_inbox.go), turned into usage events in batches  *)
(* (service/sync.go), by the background runner or by a direct call of      *)
(* ProcessOnce (poller/redis_process_runner.go, embedded/runtime.go), and  *)
(* deleted by the daily cleanup.  Every database call may fail and the     *)
(* process may be killed between any two of them.                          *)
(***************************************************************************)
EXTENDS Integers, FiniteSets

CONSTANTS
    MaxRow,         \* bound: rows ever inserted; a row is its AUTOINCREMENT id
    Limit,          \* redisInboxProcessLimit
    MaxAttempts,    \* redisUsageInboxMaxProcessAttempts
    MaxCrash,       \* bound: restarts of the process
    Callers,        \* goroutines that call ProcessOnce
    Runner          \* the one that does so in RedisProcessRunner.Run

ASSUME InboxAssumption ==
    /\ MaxRow \in Nat /\ MaxCrash \in Nat
    /\ Limit \in Nat \ {0} /\ MaxAttempts \in Nat \ {0}
    /\ Runner \in Callers

Rows == 1..MaxRow
Kinds == {"bad", "direct", "lookup"}
Statuses == {"absent", "pending", "processed", "decode_failed",
             "process_failed", "discarded", "deleted"}

VARIABLES
    kind,           \* the message of a row: it does not decode, it names its
                    \* executor, or it needs a query of the identities
    status,         \* redis_usage_inboxes.status
    attempts,       \* redis_usage_inboxes.attempt_count
    age,            \* of the row's processed_at or updated_at: 0 since the
                    \* last midnight, 1 up to seven days, 2 beyond them
    stored,         \* how many usage events were inserted for the row
    running,        \* RedisProcessRunner.processRunning
    pc,             \* where each call of ProcessOnce is
    todo,           \* the rows its current loop has still to treat
    ready,          \* the rows it will insert events for
    full,           \* BatchFull of its result
    retry,          \* redisInboxFailureCounts.requiresRetryWait
    outcome,        \* the error it returns: none, warnings or a failure
    stamp,          \* the age of its fetchedAt
    crashes,        \* restarts so far
    burst           \* history: attempts the runner recorded since it last slept

rowVars == <<kind, status, attempts, age, stored>>
callVars == <<running, pc, todo, ready, full, retry, outcome, stamp>>
vars == <<kind, status, attempts, age, stored, running, pc, todo, ready, full,
          retry, outcome, stamp, crashes, burst>>

\* Mutant of Processable: ListPendingRedisUsageInbox is used instead.
PendingOnly == {r \in Rows : status[r] = "pending"}

Processable == {r \in Rows : status[r] \in {"pending", "process_failed"}}
Exists(r) == status[r] \notin {"absent", "deleted"}

Init ==
    /\ kind \in [Rows -> Kinds]
    /\ status = [r \in Rows |-> "absent"]
    /\ attempts = [r \in Rows |-> 0]
    /\ age = [r \in Rows |-> 0]
    /\ stored = [r \in Rows |-> 0]
    /\ running = FALSE
    /\ pc = [c \in Callers |-> "idle"]
    /\ todo = [c \in Callers |-> {}]
    /\ ready = [c \in Callers |-> {}]
    /\ full = [c \in Callers |-> FALSE]
    /\ retry = [c \in Callers |-> FALSE]
    /\ outcome = [c \in Callers |-> "none"]
    /\ stamp = [c \in Callers |-> 0]
    /\ crashes = 0
    /\ burst = [r \in Rows |-> 0]

(***************************************************************************)
(* The messages come in: one transaction each, ids ascending.              *)
(***************************************************************************)
Ingest(r) ==
    /\ status[r] = "absent"
    /\ \A q \in Rows : q < r => status[q] # "absent"
    /\ status' = [status EXCEPT ![r] = "pending"]
    /\ UNCHANGED <<kind, attempts, age, stored, callVars, crashes, burst>>

(***************************************************************************)
(* ProcessOnce: one call at a time.                                        *)
(***************************************************************************)
\* Mutant of StartProcess: the flag is not tested.
StartUnguarded(c) ==
    /\ pc[c] = "idle"
    /\ running' = TRUE
    /\ pc' = [pc EXCEPT ![c] = "list"]
    /\ UNCHANGED <<rowVars, todo, ready, full, retry, outcome, stamp, crashes, burst>>

StartProcess(c) ==
    /\ pc[c] = "idle"
    /\ ~running
    /\ running' = TRUE
    /\ pc' = [pc EXCEPT ![c] = "list"]
    /\ UNCHANGED <<rowVars, todo, ready, full, retry, outcome, stamp, crashes, burst>>

\* ErrSyncAlreadyRunning: the runner sleeps on it, another caller gives up.
AlreadyRunning ==
    /\ pc[Runner] = "idle"
    /\ running
    /\ pc' = [pc EXCEPT ![Runner] = "asleep"]
    /\ UNCHANGED <<rowVars, running, todo, ready, full, retry, outcome, stamp, crashes, burst>>

\* The rows of the next batch: the Limit smallest ids of the processable ones.
firstRows(S) == {r \in S : Cardinality({q \in S : q < r}) < Limit}

ListRows(c) ==
    /\ pc[c] = "list"
    /\ todo' = [todo EXCEPT ![c] = firstRows(Processable)]
    /\ ready' = [ready EXCEPT ![c] = {}]
    /\ full' = [full EXCEPT ![c] = Cardinality(firstRows(Processable)) = Limit]
    /\ retry' = [retry EXCEPT ![c] = FALSE]
    /\ outcome' = [outcome EXCEPT ![c] = "none"]
    /\ stamp' = [stamp EXCEPT ![c] = 0]
    /\ pc' = [pc EXCEPT ![c] = IF Processable = {} THEN "done" ELSE "decode"]
    /\ UNCHANGED <<rowVars, running, crashes, burst>>

ListFails(c) ==
    /\ pc[c] = "list"
    /\ full' = [full EXCEPT ![c] = FALSE]
    /\ outcome' = [outcome EXCEPT ![c] = "failed"]
    /\ pc' = [pc EXCEPT ![c] = "done"]
    /\ UNCHANGED <<rowVars, running, todo, ready, retry, stamp, crashes, burst>>

IsNext(c, r) == r \in todo[c] /\ \A q \in todo[c] : r <= q

\* Mutant of Update: attempt_count is counted down.
UpdateCountsDown(r, s) ==
    /\ status' = [status EXCEPT ![r] = s]
    /\ attempts' = [attempts EXCEPT ![r] = @ - 1]
    /\ age' = [age EXCEPT ![r] = 0]

\* An UPDATE of a row that the cleanup deleted changes nothing.
Update(r, s) ==
    /\ status' = IF Exists(r) THEN [status EXCEPT ![r] = s] ELSE status
    /\ attempts' = IF Exists(r) THEN [attempts EXCEPT ![r] = @ + 1] ELSE attempts
    /\ age' = IF Exists(r) THEN [age EXCEPT ![r] = 0] ELSE age

Decode(c, r) ==
    /\ pc[c] = "decode"
    /\ IsNext(c, r)
    /\ kind[r] # "bad"
    /\ ready' = [ready EXCEPT ![c] = @ \cup {r}]
    /\ todo' = [todo EXCEPT ![c] = @ \ {r}]
    /\ UNCHANGED <<rowVars, running, pc, full, retry, outcome, stamp, crashes, burst>>

\* A message that does not decode is marked on its own, at once.
DecodeFails(c, r) ==
    /\ pc[c] = "decode"
    /\ IsNext(c, r)
    /\ kind[r] = "bad"
    /\ Update(r, "decode_failed")
    /\ todo' = [todo EXCEPT ![c] = @ \ {r}]
    /\ outcome' = [outcome EXCEPT ![c] = "warnings"]
    /\ UNCHANGED <<kind, stored, running, pc, ready, full, retry, stamp, crashes, burst>>

\* The mark itself fails: the call returns, whatever was decoded before.
DecodeMarkFails(c, r) ==
    /\ pc[c] = "decode"
    /\ IsNext(c, r)
    /\ kind[r] = "bad"
    /\ outcome' = [outcome EXCEPT ![c] = "failed"]
    /\ todo' = [todo EXCEPT ![c] = {}]
    /\ ready' = [ready EXCEPT ![c] = {}]
    /\ pc' = [pc EXCEPT ![c] = "done"]
    /\ UNCHANGED <<rowVars, running, full, retry, stamp, crashes, burst>>

NothingDecoded(c) ==
    /\ pc[c] = "decode"
    /\ todo[c] = {} /\ ready[c] = {}
    /\ pc' = [pc EXCEPT ![c] = "done"]
    /\ UNCHANGED <<rowVars, running, todo, ready, full, retry, outcome, stamp, crashes, burst>>

Resolved(c) ==
    /\ pc[c] = "decode"
    /\ todo[c] = {} /\ ready[c] # {}
    /\ pc' = [pc EXCEPT ![c] = "persist"]
    /\ UNCHANGED <<rowVars, running, todo, ready, full, retry, outcome, stamp, crashes, burst>>

\* The query of the identities fails: only the rows that need it are put back.
LookupFails(c) ==
    /\ pc[c] = "decode"
    /\ todo[c] = {}
    /\ \E r \in ready[c] : kind[r] = "lookup"
    /\ todo' = [todo EXCEPT ![c] = {r \in ready[c] : kind[r] = "lookup"}]
    /\ ready' = [ready EXCEPT ![c] = {r \in @ : kind[r] # "lookup"}]
    /\ outcome' = [outcome EXCEPT ![c] = "warnings"]
    /\ pc' = [pc EXCEPT ![c] = "unresolved"]
    /\ UNCHANGED <<rowVars, running, full, retry, stamp, crashes, burst>>

(***************************************************************************)
(* One transaction inserts the events and marks the rows processed.        *)
(***************************************************************************)
Persist(c) ==
    /\ pc[c] = "persist"
    /\ stored' = [r \in Rows |-> IF r \in ready[c] THEN stored[r] + 1 ELSE stored[r]]
    /\ status' = [r \in Rows |-> IF r \in ready[c] /\ Exists(r)
                                 THEN "processed" ELSE status[r]]
    /\ age' = [r \in Rows |-> IF r \in ready[c] /\ Exists(r)
                              THEN stamp[c] ELSE age[r]]
    /\ ready' = [ready EXCEPT ![c] = {}]
    /\ pc' = [pc EXCEPT ![c] = "done"]
    /\ UNCHANGED <<kind, attempts, running, todo, full, retry, outcome, stamp, crashes, burst>>

PersistFails(c) ==
    /\ pc[c] = "persist"
    /\ todo' = [todo EXCEPT ![c] = ready[c]]
    /\ ready' = [ready EXCEPT ![c] = {}]
    /\ outcome' = [outcome EXCEPT ![c] = "failed"]
    /\ pc' = [pc EXCEPT ![c] = "rollback"]
    /\ UNCHANGED <<rowVars, running, full, retry, stamp, crashes, burst>>

(***************************************************************************)
(* markRedisInboxRowsProcessFailed: each row on its own, after the lookup  *)
(* or the transaction failed.                                              *)
(***************************************************************************)
failedStatus(r) ==
    IF attempts[r] + 1 >= MaxAttempts THEN "discarded" ELSE "process_failed"

\* The row is updated and read back, unless reading it back fails too.
MarkFailed(c, r) ==
    /\ pc[c] \in {"unresolved", "rollback"}
    /\ IsNext(c, r)
    /\ Update(r, failedStatus(r))
    /\ \E loaded \in BOOLEAN :
          retry' = [retry EXCEPT ![c] = @ \/ ~loaded \/ status'[r] # "discarded"]
    /\ burst' = IF c = Runner /\ Exists(r) THEN [burst EXCEPT ![r] = @ + 1] ELSE burst
    /\ todo' = [todo EXCEPT ![c] = @ \ {r}]
    /\ UNCHANGED <<kind, stored, running, pc, ready, full, outcome, stamp, crashes>>

\* The update failed: the row stays as it is and the state counts as unknown.
MarkLost(c, r) ==
    /\ pc[c] \in {"unresolved", "rollback"}
    /\ IsNext(c, r)
    /\ retry' = [retry EXCEPT ![c] = TRUE]
    /\ todo' = [todo EXCEPT ![c] = @ \ {r}]
    /\ UNCHANGED <<rowVars, running, pc, ready, full, outcome, stamp, crashes, burst>>

MarksDone(c) ==
    /\ pc[c] \in {"unresolved", "rollback"}
    /\ todo[c] = {}
    /\ \/ /\ ready[c] # {}
          /\ pc' = [pc EXCEPT ![c] = "persist"]
          /\ UNCHANGED outcome
       \/ /\ ready[c] = {}
          /\ pc' = [pc EXCEPT ![c] = "done"]
          /\ outcome' = [outcome EXCEPT ![c] = "failed"]
    /\ UNCHANGED <<rowVars, running, todo, ready, full, retry, stamp, crashes, burst>>

(***************************************************************************)
(* The call returns; the runner goes on at once only after a full batch    *)
(* that neither failed nor left a row to retry.                            *)
(***************************************************************************)
\* Mutant of continueImmediately: rows to be retried do not make it wait.
continueWhenFull(c) == full[c] /\ outcome[c] # "failed"

continueImmediately(c) == full[c] /\ ~retry[c] /\ outcome[c] # "failed"

Return(c) ==
    /\ pc[c] = "done"
    /\ running' = FALSE
    /\ pc' = [pc EXCEPT ![c] = IF c = Runner /\ ~continueImmediately(c)
                               THEN "asleep" ELSE "idle"]
    /\ full' = [full EXCEPT ![c] = FALSE]
    /\ retry' = [retry EXCEPT ![c] = FALSE]
    /\ outcome' = [outcome EXCEPT ![c] = "none"]
    /\ stamp' = [stamp EXCEPT ![c] = 0]
    /\ UNCHANGED <<rowVars, todo, ready, crashes, burst>>

WakeUp ==
    /\ pc[Runner] = "asleep"
    /\ pc' = [pc EXCEPT ![Runner] = "idle"]
    /\ burst' = [r \in Rows |-> 0]
    /\ UNCHANGED <<rowVars, running, todo, ready, full, retry, outcome, stamp, crashes>>

(***************************************************************************)
(* Maintenance, time and crashes.                                          *)
(***************************************************************************)
\* Mutant of Cleanup: every old row goes, whatever its status.
CleanupByAge ==
    /\ status' = [r \in Rows |-> IF Exists(r) /\ age[r] = 2 THEN "deleted" ELSE status[r]]
    /\ UNCHANGED <<kind, attempts, age, stored, callVars, crashes, burst>>

\* Two statements; when the first fails the second is not tried.
Cleanup ==
    \E finished \in BOOLEAN :
    /\ status' = [r \in Rows |->
                    IF \/ status[r] = "processed" /\ age[r] > 0
                       \/ /\ finished
                          /\ status[r] \in {"decode_failed", "process_failed", "discarded"}
                          /\ age[r] = 2
                    THEN "deleted" ELSE status[r]]
    /\ UNCHANGED <<kind, attempts, age, stored, callVars, crashes, burst>>

older(n) == IF n < 2 THEN n + 1 ELSE n

TimePasses ==
    /\ age' = [r \in Rows |-> IF Exists(r) THEN older(age[r]) ELSE age[r]]
    /\ stamp' = [c \in Callers |-> IF pc[c] \in {"idle", "list", "done", "asleep"}
                                   THEN stamp[c] ELSE older(stamp[c])]
    /\ UNCHANGED <<kind, status, attempts, stored, running, pc, todo, ready, full, retry,
                   outcome, crashes, burst>>

\* The process ends, in order or not, and starts again.
Crash ==
    /\ crashes < MaxCrash
    /\ crashes' = crashes + 1
    /\ running' = FALSE
    /\ pc' = [c \in Callers |-> "idle"]
    /\ todo' = [c \in Callers |-> {}]
    /\ ready' = [c \in Callers |-> {}]
    /\ full' = [c \in Callers |-> FALSE]
    /\ retry' = [c \in Callers |-> FALSE]
    /\ outcome' = [c \in Callers |-> "none"]
    /\ stamp' = [c \in Callers |-> 0]
    /\ burst' = [r \in Rows |-> 0]
    /\ UNCHANGED rowVars

Work(c) ==
    \/ StartProcess(c) \/ ListRows(c) \/ ListFails(c)
    \/ \E r \in Rows : Decode(c, r) \/ DecodeFails(c, r) \/ DecodeMarkFails(c, r)
    \/ NothingDecoded(c) \/ Resolved(c) \/ LookupFails(c)
    \/ Persist(c) \/ PersistFails(c)
    \/ \E r \in Rows : MarkFailed(c, r) \/ MarkLost(c, r)
    \/ MarksDone(c) \/ Return(c)

Next ==
    \/ \E r \in Rows : Ingest(r)
    \/ \E c \in Callers : Work(c)
    \/ AlreadyRunning \/ WakeUp
    \/ Cleanup \/ TimePasses \/ Crash

Spec == Init /\ [][Next]_vars

(***************************************************************************)
(* Fairness: a call that has begun goes on, the runner keeps coming round, *)
(* and the database does not refuse a statement for ever.  The strong      *)
(* conditions are on the statement, not on the call or the row it is for.  *)
(***************************************************************************)
Advance(c) ==
    \/ \E r \in Rows : Decode(c, r)
    \/ NothingDecoded(c) \/ Resolved(c) \/ Persist(c) \/ PersistFails(c)
    \/ MarksDone(c) \/ Return(c)

Fairness ==
    /\ WF_vars(WakeUp) /\ SF_vars(StartProcess(Runner))
    /\ \A c \in Callers : WF_vars(Advance(c))
    /\ SF_vars(\E c \in Callers : ListRows(c))
    /\ SF_vars(\E c \in Callers, r \in Rows : DecodeFails(c, r))
    /\ SF_vars(\E c \in Callers, r \in Rows : MarkFailed(c, r))

LiveSpec == Spec /\ Fairness

(***************************************************************************)
(* Properties.                                                             *)
(***************************************************************************)
TypeOK ==
    /\ kind \in [Rows -> Kinds]
    /\ status \in [Rows -> Statuses]
    /\ attempts \in [Rows -> Nat]
    /\ age \in [Rows -> 0..2]
    /\ stored \in [Rows -> Nat]
    /\ running \in BOOLEAN
    /\ pc \in [Callers -> {"idle", "list", "decode", "unresolved", "persist",
                           "rollback", "done", "asleep"}]
    /\ todo \in [Callers -> SUBSET Rows]
    /\ ready \in [Callers -> SUBSET Rows]
    /\ full \in [Callers -> BOOLEAN]
    /\ retry \in [Callers -> BOOLEAN]
    /\ outcome \in [Callers -> {"none", "warnings", "failed"}]
    /\ stamp \in [Callers -> 0..2]
    /\ crashes \in 0..MaxCrash
    /\ burst \in [Rows -> Nat]

\* Whatever fails, is retried, cleaned up or crashes, in whatever order: a row
\* yields at most one event, a processed row has exactly one, and a row that
\* will be tried again, or was given up, has none (the transaction of
\* processRedisInboxRows, guarded by processRunning).
StoredOnce ==
    \A r \in Rows :
        /\ stored[r] <= 1
        /\ status[r] = "processed" => stored[r] = 1
        /\ status[r] \in {"absent", "pending", "process_failed", "decode_failed",
                          "discarded"} => stored[r] = 0

\* The attempts of a row are not burnt in a busy loop: between two failures the
\* runner records for a row it has slept (shouldContinueRedisProcessImmediately).
PacedRetries == \A r \in Rows : burst[r] <= 1

\* The cleanup loses no message that was never tried: a row that is gone was
\* stored, or failed at least once (CleanupRedisUsageInbox keeps pending rows).
LostOnlyAfterFailure ==
    \A r \in Rows : status[r] = "deleted" /\ stored[r] = 0 => attempts[r] > 0

\* Every message that came in reaches an end, although messages that can never
\* be stored may stand before it in the same batch.
RowsSettle ==
    \A r \in Rows : status[r] = "pending" ~>
        status[r] \in {"processed", "decode_failed", "discarded", "deleted"}

(***************************************************************************)
(* The accounts of the inbox, in one invariant: besides the types, a       *)
(* message yields one event at most, and is deleted without one only after *)
(* it has failed.                                                          *)
(***************************************************************************)
InboxInv ==
    /\ TypeOK
    /\ StoredOnce
    /\ LostOnlyAfterFailure
=============================================================================
