-------------------------- MODULE UsageInboxProofs --------------------------
(***************************************************************************)
(* Machine-checked proofs about UsageInbox, for any number of rows,        *)
(* callers, attempts and restarts and any batch size: a message yields one *)
(* event at most, none is lost untried, and its attempts are paced.        *)
(***************************************************************************)
EXTENDS UsageInbox, TLAPS

\* A call of ProcessOnce is under way.
Active(c) == pc[c] \notin {"idle", "asleep"}

\* What processRunning gives: it is set while a call is under way, and no two
\* calls are under way together.
OneCall ==
    /\ \A c \in Callers : Active(c) => running
    /\ \A c, d \in Callers : Active(c) /\ Active(d) => c = d

\* What a call holds: nothing before it has listed its rows or after it has
\* ended, and no row in both of its lists.
HeldInv ==
    \A c \in Callers :
        /\ pc[c] \in {"idle", "asleep", "list", "done"} => todo[c] = {} /\ ready[c] = {}
        /\ pc[c] = "persist" => todo[c] = {}
        /\ todo[c] \cap ready[c] = {}

\* A row that is held has no event, and only the cleanup has touched it since
\* it was listed.
HeldUnstored ==
    \A c \in Callers : \A r \in todo[c] \cup ready[c] :
        stored[r] = 0 /\ status[r] \in {"pending", "process_failed", "deleted"}

\* A row that is marked failed has an attempt to show.
FailedCounted ==
    \A r \in Rows :
        status[r] \in {"decode_failed", "process_failed", "discarded"} => attempts[r] > 0

\* A row whose failure the runner has recorded is not tried again before it
\* sleeps: it is out of the lists, and either it is beyond another attempt, or
\* the runner sleeps, or it is in the call that will send it to sleep.
Spent(r) ==
    \/ status[r] \in {"discarded", "deleted"}
    \/ pc[Runner] = "asleep"
    \/ pc[Runner] \in {"unresolved", "rollback", "persist", "done"} /\ retry[Runner]

BurstInv ==
    \A r \in Rows :
        /\ burst[r] <= 1
        /\ burst[r] = 1 => r \notin todo[Runner] \cup ready[Runner] /\ Spent(r)

InboxInd ==
    /\ TypeOK
    /\ OneCall /\ HeldInv /\ HeldUnstored
    /\ FailedCounted /\ StoredOnce /\ LostOnlyAfterFailure
    /\ BurstInv

\* What the UPDATE of one row does: it moves that row, counts an attempt of it,
\* and leaves the others alone; a deleted row stays deleted.
LEMMA UpdateEffect ==
    ASSUME TypeOK, NEW r \in Rows, NEW s \in Statuses, Update(r, s)
    PROVE /\ status' \in [Rows -> Statuses]
          /\ attempts' \in [Rows -> Nat]
          /\ age' \in [Rows -> 0..2]
          /\ \A q \in Rows : q # r => status'[q] = status[q]
          /\ status'[r] = IF Exists(r) THEN s ELSE status[r]
<1>1. CASE Exists(r)
  BY <1>1 DEF Update, TypeOK
<1>2. CASE ~Exists(r)
  BY <1>2 DEF Update, TypeOK
<1> QED
  BY <1>1, <1>2

\* The status a recorded failure leads to is one a row can have.
LEMMA FailedStatusType == \A r \in Rows : failedStatus(r) \in {"discarded", "process_failed"}
BY DEF failedStatus

\* A step keeps every variable in its type.
LEMMA TypeStep == ASSUME TypeOK, [Next]_vars PROVE TypeOK'
<1> USE InboxAssumption DEF rowVars, callVars
<1>1. ASSUME NEW r \in Rows, Ingest(r) PROVE TypeOK'
  BY <1>1 DEF Ingest, TypeOK, Statuses
<1>2. ASSUME NEW c \in Callers, StartProcess(c) PROVE TypeOK'
  BY <1>2 DEF StartProcess, TypeOK
<1>3. ASSUME AlreadyRunning PROVE TypeOK'
  BY <1>3 DEF AlreadyRunning, TypeOK
<1>4. ASSUME NEW c \in Callers, ListRows(c) PROVE TypeOK'
  <2>1. firstRows(Processable) \in SUBSET Rows
    BY DEF firstRows, Processable
  <2> QED
    BY <1>4, <2>1 DEF ListRows, TypeOK
<1>5. ASSUME NEW c \in Callers, ListFails(c) PROVE TypeOK'
  BY <1>5 DEF ListFails, TypeOK
<1>6. ASSUME NEW c \in Callers, NEW r \in Rows, Decode(c, r) PROVE TypeOK'
  BY <1>6 DEF Decode, IsNext, TypeOK
<1>7. ASSUME NEW c \in Callers, NEW r \in Rows, DecodeFails(c, r) PROVE TypeOK'
  <2>1. status' \in [Rows -> Statuses] /\ attempts' \in [Rows -> Nat] /\ age' \in [Rows -> 0..2]
    BY <1>7, UpdateEffect DEF DecodeFails, Statuses
  <2> QED
    BY <1>7, <2>1 DEF DecodeFails, TypeOK
<1>8. ASSUME NEW c \in Callers, NEW r \in Rows, DecodeMarkFails(c, r) PROVE TypeOK'
  BY <1>8 DEF DecodeMarkFails, IsNext, TypeOK
<1>9. ASSUME NEW c \in Callers, NothingDecoded(c) PROVE TypeOK'
  BY <1>9 DEF NothingDecoded, TypeOK
<1>10. ASSUME NEW c \in Callers, Resolved(c) PROVE TypeOK'
  BY <1>10 DEF Resolved, TypeOK
<1>11. ASSUME NEW c \in Callers, LookupFails(c) PROVE TypeOK'
  BY <1>11 DEF LookupFails, TypeOK
<1>12. ASSUME NEW c \in Callers, Persist(c) PROVE TypeOK'
  <2>1. stored' \in [Rows -> Nat]
    BY <1>12 DEF Persist, TypeOK
  <2>2. status' \in [Rows -> Statuses]
    BY <1>12 DEF Persist, TypeOK, Statuses
  <2>3. age' \in [Rows -> 0..2]
    BY <1>12 DEF Persist, TypeOK
  <2> QED
    BY <1>12, <2>1, <2>2, <2>3 DEF Persist, TypeOK
<1>13. ASSUME NEW c \in Callers, PersistFails(c) PROVE TypeOK'
  BY <1>13 DEF PersistFails, TypeOK
<1>14. ASSUME NEW c \in Callers, NEW r \in Rows, MarkFailed(c, r) PROVE TypeOK'
  <2>1. status' \in [Rows -> Statuses] /\ attempts' \in [Rows -> Nat] /\ age' \in [Rows -> 0..2]
    BY <1>14, UpdateEffect, FailedStatusType DEF MarkFailed, Statuses
  <2>2. burst' \in [Rows -> Nat]
    BY <1>14 DEF MarkFailed, TypeOK
  <2>3. retry' \in [Callers -> BOOLEAN]
    BY <1>14 DEF MarkFailed, TypeOK
  <2> QED
    BY <1>14, <2>1, <2>2, <2>3 DEF MarkFailed, TypeOK
<1>15. ASSUME NEW c \in Callers, NEW r \in Rows, MarkLost(c, r) PROVE TypeOK'
  BY <1>15 DEF MarkLost, IsNext, TypeOK
<1>16. ASSUME NEW c \in Callers, MarksDone(c) PROVE TypeOK'
  BY <1>16 DEF MarksDone, TypeOK
<1>17. ASSUME NEW c \in Callers, Return(c) PROVE TypeOK'
  <2>1. pc' \in [Callers -> {"idle", "list", "decode", "unresolved", "persist", "rollback",
                             "done", "asleep"}]
    BY <1>17 DEF Return, TypeOK
  <2>2. full' \in [Callers -> BOOLEAN] /\ retry' \in [Callers -> BOOLEAN]
    BY <1>17 DEF Return, TypeOK
  <2>3. outcome' \in [Callers -> {"none", "warnings", "failed"}] /\ stamp' \in [Callers -> 0..2]
    BY <1>17 DEF Return, TypeOK
  <2>4. running' \in BOOLEAN /\ UNCHANGED <<rowVars, todo, ready, crashes, burst>>
    BY <1>17 DEF Return
  <2> QED
    BY <2>1, <2>2, <2>3, <2>4 DEF TypeOK
<1>18. ASSUME WakeUp PROVE TypeOK'
  BY <1>18 DEF WakeUp, TypeOK
<1>19. ASSUME Cleanup PROVE TypeOK'
  <2>1. status' \in [Rows -> Statuses]
    BY <1>19 DEF Cleanup, TypeOK, Statuses
  <2> QED
    BY <1>19, <2>1 DEF Cleanup, TypeOK
<1>20. ASSUME TimePasses PROVE TypeOK'
  BY <1>20 DEF TimePasses, Exists, older, TypeOK
<1>21. ASSUME Crash PROVE TypeOK'
  <2>1. pc' \in [Callers -> {"idle", "list", "decode", "unresolved", "persist", "rollback",
                             "done", "asleep"}]
    BY <1>21 DEF Crash
  <2>2. todo' \in [Callers -> SUBSET Rows] /\ ready' \in [Callers -> SUBSET Rows]
    BY <1>21 DEF Crash
  <2>3. /\ full' \in [Callers -> BOOLEAN] /\ retry' \in [Callers -> BOOLEAN]
        /\ outcome' \in [Callers -> {"none", "warnings", "failed"}]
        /\ stamp' \in [Callers -> 0..2] /\ burst' \in [Rows -> Nat]
    BY <1>21 DEF Crash
  <2>4. running' \in BOOLEAN /\ UNCHANGED rowVars
    BY <1>21 DEF Crash
  <2>5. crashes \in 0..MaxCrash
    BY DEF TypeOK
  <2>6. crashes' \in 0..MaxCrash
    BY <1>21, <2>5 DEF Crash
  <2> QED
    BY <2>1, <2>2, <2>3, <2>4, <2>6 DEF TypeOK
<1>22. CASE UNCHANGED vars
  BY <1>22 DEF vars, TypeOK
<1> QED
    BY <1>1, <1>2, <1>3, <1>4, <1>5, <1>6, <1>7, <1>8, <1>9, <1>10, <1>11, <1>12, <1>13,
      <1>14, <1>15, <1>16, <1>17, <1>18, <1>19, <1>20, <1>21, <1>22 DEF Next, Work

\* processRunning admits one call at a time, and a crash forgets them all.
LEMMA OneCallStep == ASSUME TypeOK, OneCall, [Next]_vars PROVE OneCall'
<1> USE InboxAssumption DEF rowVars, callVars, Rows
<1>1. ASSUME NEW r \in Rows, Ingest(r) PROVE OneCall'
  BY <1>1 DEF Ingest, TypeOK, OneCall, Active
<1>2. ASSUME NEW c \in Callers, StartProcess(c) PROVE OneCall'
  BY <1>2 DEF StartProcess, TypeOK, OneCall, Active
<1>3. ASSUME AlreadyRunning PROVE OneCall'
  BY <1>3 DEF AlreadyRunning, TypeOK, OneCall, Active
<1>4. ASSUME NEW c \in Callers, ListRows(c) PROVE OneCall'
  BY <1>4 DEF ListRows, firstRows, Processable, TypeOK, OneCall, Active
<1>5. ASSUME NEW c \in Callers, ListFails(c) PROVE OneCall'
  BY <1>5 DEF ListFails, TypeOK, OneCall, Active
<1>6. ASSUME NEW c \in Callers, NEW r \in Rows, Decode(c, r) PROVE OneCall'
  BY <1>6 DEF Decode, IsNext, TypeOK, OneCall, Active
<1>7. ASSUME NEW c \in Callers, NEW r \in Rows, DecodeFails(c, r) PROVE OneCall'
  BY <1>7 DEF DecodeFails, IsNext, Update, Exists, TypeOK, OneCall, Active
<1>8. ASSUME NEW c \in Callers, NEW r \in Rows, DecodeMarkFails(c, r) PROVE OneCall'
  BY <1>8 DEF DecodeMarkFails, IsNext, TypeOK, OneCall, Active
<1>9. ASSUME NEW c \in Callers, NothingDecoded(c) PROVE OneCall'
  BY <1>9 DEF NothingDecoded, TypeOK, OneCall, Active
<1>10. ASSUME NEW c \in Callers, Resolved(c) PROVE OneCall'
  BY <1>10 DEF Resolved, TypeOK, OneCall, Active
<1>11. ASSUME NEW c \in Callers, LookupFails(c) PROVE OneCall'
  BY <1>11 DEF LookupFails, TypeOK, OneCall, Active
<1>12. ASSUME NEW c \in Callers, Persist(c) PROVE OneCall'
  BY <1>12 DEF Persist, Exists, TypeOK, OneCall, Active
<1>13. ASSUME NEW c \in Callers, PersistFails(c) PROVE OneCall'
  BY <1>13 DEF PersistFails, TypeOK, OneCall, Active
<1>14. ASSUME NEW c \in Callers, NEW r \in Rows, MarkFailed(c, r) PROVE OneCall'
  BY <1>14 DEF MarkFailed, IsNext, Update, Exists, failedStatus, TypeOK, OneCall, Active
<1>15. ASSUME NEW c \in Callers, NEW r \in Rows, MarkLost(c, r) PROVE OneCall'
  BY <1>15 DEF MarkLost, IsNext, TypeOK, OneCall, Active
<1>16. ASSUME NEW c \in Callers, MarksDone(c) PROVE OneCall'
  BY <1>16 DEF MarksDone, TypeOK, OneCall, Active
<1>17. ASSUME NEW c \in Callers, Return(c) PROVE OneCall'
  BY <1>17 DEF Return, continueImmediately, TypeOK, OneCall, Active
<1>18. ASSUME WakeUp PROVE OneCall'
  BY <1>18 DEF WakeUp, TypeOK, OneCall, Active
<1>19. ASSUME Cleanup PROVE OneCall'
  BY <1>19 DEF Cleanup, TypeOK, OneCall, Active
<1>20. ASSUME TimePasses PROVE OneCall'
  BY <1>20 DEF TimePasses, Exists, older, TypeOK, OneCall, Active
<1>21. ASSUME Crash PROVE OneCall'
  BY <1>21 DEF Crash, TypeOK, OneCall, Active
<1>22. CASE UNCHANGED vars
  BY <1>22 DEF vars, TypeOK, OneCall, Active
<1> QED
    BY <1>1, <1>2, <1>3, <1>4, <1>5, <1>6, <1>7, <1>8, <1>9, <1>10, <1>11, <1>12, <1>13,
      <1>14, <1>15, <1>16, <1>17, <1>18, <1>19, <1>20, <1>21, <1>22 DEF Next, Work

\* A row is held once, by a call that is under way.
LEMMA HeldStep == ASSUME TypeOK, HeldInv, [Next]_vars PROVE HeldInv'
<1> USE InboxAssumption DEF rowVars, callVars, Rows
<1>1. ASSUME NEW r \in Rows, Ingest(r) PROVE HeldInv'
  BY <1>1 DEF Ingest, TypeOK, HeldInv
<1>2. ASSUME NEW c \in Callers, StartProcess(c) PROVE HeldInv'
  BY <1>2 DEF StartProcess, TypeOK, HeldInv
<1>3. ASSUME AlreadyRunning PROVE HeldInv'
  BY <1>3 DEF AlreadyRunning, TypeOK, HeldInv
<1>4. ASSUME NEW c \in Callers, ListRows(c) PROVE HeldInv'
  BY <1>4 DEF ListRows, firstRows, Processable, TypeOK, HeldInv
<1>5. ASSUME NEW c \in Callers, ListFails(c) PROVE HeldInv'
  BY <1>5 DEF ListFails, TypeOK, HeldInv
<1>6. ASSUME NEW c \in Callers, NEW r \in Rows, Decode(c, r) PROVE HeldInv'
  BY <1>6 DEF Decode, IsNext, TypeOK, HeldInv
<1>7. ASSUME NEW c \in Callers, NEW r \in Rows, DecodeFails(c, r) PROVE HeldInv'
  BY <1>7 DEF DecodeFails, IsNext, Update, Exists, TypeOK, HeldInv
<1>8. ASSUME NEW c \in Callers, NEW r \in Rows, DecodeMarkFails(c, r) PROVE HeldInv'
  BY <1>8 DEF DecodeMarkFails, IsNext, TypeOK, HeldInv
<1>9. ASSUME NEW c \in Callers, NothingDecoded(c) PROVE HeldInv'
  BY <1>9 DEF NothingDecoded, TypeOK, HeldInv
<1>10. ASSUME NEW c \in Callers, Resolved(c) PROVE HeldInv'
  BY <1>10 DEF Resolved, TypeOK, HeldInv
<1>11. ASSUME NEW c \in Callers, LookupFails(c) PROVE HeldInv'
  BY <1>11 DEF LookupFails, TypeOK, HeldInv
<1>12. ASSUME NEW c \in Callers, Persist(c) PROVE HeldInv'
  BY <1>12 DEF Persist, Exists, TypeOK, HeldInv
<1>13. ASSUME NEW c \in Callers, PersistFails(c) PROVE HeldInv'
  BY <1>13 DEF PersistFails, TypeOK, HeldInv
<1>14. ASSUME NEW c \in Callers, NEW r \in Rows, MarkFailed(c, r) PROVE HeldInv'
  BY <1>14 DEF MarkFailed, IsNext, Update, Exists, failedStatus, TypeOK, HeldInv
<1>15. ASSUME NEW c \in Callers, NEW r \in Rows, MarkLost(c, r) PROVE HeldInv'
  BY <1>15 DEF MarkLost, IsNext, TypeOK, HeldInv
<1>16. ASSUME NEW c \in Callers, MarksDone(c) PROVE HeldInv'
  BY <1>16 DEF MarksDone, TypeOK, HeldInv
<1>17. ASSUME NEW c \in Callers, Return(c) PROVE HeldInv'
  BY <1>17 DEF Return, continueImmediately, TypeOK, HeldInv
<1>18. ASSUME WakeUp PROVE HeldInv'
  BY <1>18 DEF WakeUp, TypeOK, HeldInv
<1>19. ASSUME Cleanup PROVE HeldInv'
  BY <1>19 DEF Cleanup, TypeOK, HeldInv
<1>20. ASSUME TimePasses PROVE HeldInv'
  BY <1>20 DEF TimePasses, Exists, older, TypeOK, HeldInv
<1>21. ASSUME Crash PROVE HeldInv'
  BY <1>21 DEF Crash, TypeOK, HeldInv
<1>22. CASE UNCHANGED vars
  BY <1>22 DEF vars, TypeOK, HeldInv
<1> QED
    BY <1>1, <1>2, <1>3, <1>4, <1>5, <1>6, <1>7, <1>8, <1>9, <1>10, <1>11, <1>12, <1>13,
      <1>14, <1>15, <1>16, <1>17, <1>18, <1>19, <1>20, <1>21, <1>22 DEF Next, Work

\* While a row is held no other call stores it or closes it.
LEMMA UnstoredStep ==
    ASSUME TypeOK, OneCall, HeldInv, StoredOnce, HeldUnstored, [Next]_vars
    PROVE  HeldUnstored'
<1> USE InboxAssumption DEF rowVars, callVars, Rows
<1>1. ASSUME NEW r \in Rows, Ingest(r) PROVE HeldUnstored'
  BY <1>1 DEF Ingest, TypeOK, OneCall, Active, HeldInv, StoredOnce, HeldUnstored
<1>2. ASSUME NEW c \in Callers, StartProcess(c) PROVE HeldUnstored'
  BY <1>2 DEF StartProcess, TypeOK, OneCall, Active, HeldInv, StoredOnce, HeldUnstored
<1>3. ASSUME AlreadyRunning PROVE HeldUnstored'
  BY <1>3 DEF AlreadyRunning, TypeOK, OneCall, Active, HeldInv, StoredOnce, HeldUnstored
<1>4. ASSUME NEW c \in Callers, ListRows(c) PROVE HeldUnstored'
  BY <1>4 DEF ListRows, firstRows, Processable, TypeOK, OneCall, Active, HeldInv, StoredOnce,
     HeldUnstored
<1>5. ASSUME NEW c \in Callers, ListFails(c) PROVE HeldUnstored'
  BY <1>5 DEF ListFails, TypeOK, OneCall, Active, HeldInv, StoredOnce, HeldUnstored
<1>6. ASSUME NEW c \in Callers, NEW r \in Rows, Decode(c, r) PROVE HeldUnstored'
  BY <1>6 DEF Decode, IsNext, TypeOK, OneCall, Active, HeldInv, StoredOnce, HeldUnstored
<1>7. ASSUME NEW c \in Callers, NEW r \in Rows, DecodeFails(c, r) PROVE HeldUnstored'
  <2> SUFFICES ASSUME NEW d \in Callers, NEW q \in todo'[d] \cup ready'[d]
               PROVE stored'[q] = 0 /\ status'[q] \in {"pending", "process_failed", "deleted"}
    BY DEF HeldUnstored
  <2>1. d = c
    BY <1>7 DEF DecodeFails, TypeOK, OneCall, Active, HeldInv
  <2>2. q \in todo[c] \cup ready[c] /\ q # r /\ q \in Rows
    BY <1>7, <2>1 DEF DecodeFails, IsNext, TypeOK, HeldInv
  <2>3. status'[q] = status[q]
    BY <1>7, <2>2, UpdateEffect DEF DecodeFails, Statuses
  <2> QED
    BY <1>7, <2>2, <2>3 DEF DecodeFails, HeldUnstored
<1>8. ASSUME NEW c \in Callers, NEW r \in Rows, DecodeMarkFails(c, r) PROVE HeldUnstored'
  BY <1>8 DEF DecodeMarkFails, IsNext, TypeOK, OneCall, Active, HeldInv, StoredOnce, HeldUnstored
<1>9. ASSUME NEW c \in Callers, NothingDecoded(c) PROVE HeldUnstored'
  BY <1>9 DEF NothingDecoded, TypeOK, OneCall, Active, HeldInv, StoredOnce, HeldUnstored
<1>10. ASSUME NEW c \in Callers, Resolved(c) PROVE HeldUnstored'
  BY <1>10 DEF Resolved, TypeOK, OneCall, Active, HeldInv, StoredOnce, HeldUnstored
<1>11. ASSUME NEW c \in Callers, LookupFails(c) PROVE HeldUnstored'
  BY <1>11 DEF LookupFails, TypeOK, OneCall, Active, HeldInv, StoredOnce, HeldUnstored
<1>12. ASSUME NEW c \in Callers, Persist(c) PROVE HeldUnstored'
  BY <1>12 DEF Persist, Exists, TypeOK, OneCall, Active, HeldInv, StoredOnce, HeldUnstored
<1>13. ASSUME NEW c \in Callers, PersistFails(c) PROVE HeldUnstored'
  BY <1>13 DEF PersistFails, TypeOK, OneCall, Active, HeldInv, StoredOnce, HeldUnstored
<1>14. ASSUME NEW c \in Callers, NEW r \in Rows, MarkFailed(c, r) PROVE HeldUnstored'
  <2> SUFFICES ASSUME NEW d \in Callers, NEW q \in todo'[d] \cup ready'[d]
               PROVE stored'[q] = 0 /\ status'[q] \in {"pending", "process_failed", "deleted"}
    BY DEF HeldUnstored
  <2>1. d = c
    BY <1>14 DEF MarkFailed, TypeOK, OneCall, Active, HeldInv
  <2>2. q \in todo[c] \cup ready[c] /\ q # r /\ q \in Rows
    BY <1>14, <2>1 DEF MarkFailed, IsNext, TypeOK, HeldInv
  <2>3. status'[q] = status[q]
    BY <1>14, <2>2, UpdateEffect, FailedStatusType DEF MarkFailed, Statuses
  <2> QED
    BY <1>14, <2>2, <2>3 DEF MarkFailed, HeldUnstored
<1>15. ASSUME NEW c \in Callers, NEW r \in Rows, MarkLost(c, r) PROVE HeldUnstored'
  BY <1>15 DEF MarkLost, IsNext, TypeOK, OneCall, Active, HeldInv, StoredOnce, HeldUnstored
<1>16. ASSUME NEW c \in Callers, MarksDone(c) PROVE HeldUnstored'
  BY <1>16 DEF MarksDone, TypeOK, OneCall, Active, HeldInv, StoredOnce, HeldUnstored
<1>17. ASSUME NEW c \in Callers, Return(c) PROVE HeldUnstored'
  BY <1>17 DEF Return, continueImmediately, TypeOK, OneCall, Active, HeldInv, StoredOnce,
     HeldUnstored
<1>18. ASSUME WakeUp PROVE HeldUnstored'
  BY <1>18 DEF WakeUp, TypeOK, OneCall, Active, HeldInv, StoredOnce, HeldUnstored
<1>19. ASSUME Cleanup PROVE HeldUnstored'
  BY <1>19 DEF Cleanup, TypeOK, OneCall, Active, HeldInv, StoredOnce, HeldUnstored
<1>20. ASSUME TimePasses PROVE HeldUnstored'
  BY <1>20 DEF TimePasses, Exists, older, TypeOK, OneCall, Active, HeldInv, StoredOnce,
     HeldUnstored
<1>21. ASSUME Crash PROVE HeldUnstored'
  BY <1>21 DEF Crash, TypeOK, OneCall, Active, HeldInv, StoredOnce, HeldUnstored
<1>22. CASE UNCHANGED vars
  BY <1>22 DEF vars, TypeOK, OneCall, Active, HeldInv, StoredOnce, HeldUnstored
<1> QED
    BY <1>1, <1>2, <1>3, <1>4, <1>5, <1>6, <1>7, <1>8, <1>9, <1>10, <1>11, <1>12, <1>13,
      <1>14, <1>15, <1>16, <1>17, <1>18, <1>19, <1>20, <1>21, <1>22 DEF Next, Work

\* Every mark of a failure counts an attempt.
LEMMA CountedStep == ASSUME TypeOK, FailedCounted, [Next]_vars PROVE FailedCounted'
<1> USE InboxAssumption DEF rowVars, callVars, Rows
<1>1. ASSUME NEW r \in Rows, Ingest(r) PROVE FailedCounted'
  BY <1>1 DEF Ingest, TypeOK, FailedCounted
<1>2. ASSUME NEW c \in Callers, StartProcess(c) PROVE FailedCounted'
  BY <1>2 DEF StartProcess, TypeOK, FailedCounted
<1>3. ASSUME AlreadyRunning PROVE FailedCounted'
  BY <1>3 DEF AlreadyRunning, TypeOK, FailedCounted
<1>4. ASSUME NEW c \in Callers, ListRows(c) PROVE FailedCounted'
  BY <1>4 DEF ListRows, firstRows, Processable, TypeOK, FailedCounted
<1>5. ASSUME NEW c \in Callers, ListFails(c) PROVE FailedCounted'
  BY <1>5 DEF ListFails, TypeOK, FailedCounted
<1>6. ASSUME NEW c \in Callers, NEW r \in Rows, Decode(c, r) PROVE FailedCounted'
  BY <1>6 DEF Decode, IsNext, TypeOK, FailedCounted
<1>7. ASSUME NEW c \in Callers, NEW r \in Rows, DecodeFails(c, r) PROVE FailedCounted'
  BY <1>7 DEF DecodeFails, IsNext, Update, Exists, TypeOK, FailedCounted
<1>8. ASSUME NEW c \in Callers, NEW r \in Rows, DecodeMarkFails(c, r) PROVE FailedCounted'
  BY <1>8 DEF DecodeMarkFails, IsNext, TypeOK, FailedCounted
<1>9. ASSUME NEW c \in Callers, NothingDecoded(c) PROVE FailedCounted'
  BY <1>9 DEF NothingDecoded, TypeOK, FailedCounted
<1>10. ASSUME NEW c \in Callers, Resolved(c) PROVE FailedCounted'
  BY <1>10 DEF Resolved, TypeOK, FailedCounted
<1>11. ASSUME NEW c \in Callers, LookupFails(c) PROVE FailedCounted'
  BY <1>11 DEF LookupFails, TypeOK, FailedCounted
<1>12. ASSUME NEW c \in Callers, Persist(c) PROVE FailedCounted'
  BY <1>12 DEF Persist, Exists, TypeOK, FailedCounted
<1>13. ASSUME NEW c \in Callers, PersistFails(c) PROVE FailedCounted'
  BY <1>13 DEF PersistFails, TypeOK, FailedCounted
<1>14. ASSUME NEW c \in Callers, NEW r \in Rows, MarkFailed(c, r) PROVE FailedCounted'
  BY <1>14 DEF MarkFailed, IsNext, Update, Exists, failedStatus, TypeOK, FailedCounted
<1>15. ASSUME NEW c \in Callers, NEW r \in Rows, MarkLost(c, r) PROVE FailedCounted'
  BY <1>15 DEF MarkLost, IsNext, TypeOK, FailedCounted
<1>16. ASSUME NEW c \in Callers, MarksDone(c) PROVE FailedCounted'
  BY <1>16 DEF MarksDone, TypeOK, FailedCounted
<1>17. ASSUME NEW c \in Callers, Return(c) PROVE FailedCounted'
  BY <1>17 DEF Return, continueImmediately, TypeOK, FailedCounted
<1>18. ASSUME WakeUp PROVE FailedCounted'
  BY <1>18 DEF WakeUp, TypeOK, FailedCounted
<1>19. ASSUME Cleanup PROVE FailedCounted'
  BY <1>19 DEF Cleanup, TypeOK, FailedCounted
<1>20. ASSUME TimePasses PROVE FailedCounted'
  BY <1>20 DEF TimePasses, Exists, older, TypeOK, FailedCounted
<1>21. ASSUME Crash PROVE FailedCounted'
  BY <1>21 DEF Crash, TypeOK, FailedCounted
<1>22. CASE UNCHANGED vars
  BY <1>22 DEF vars, TypeOK, FailedCounted
<1> QED
    BY <1>1, <1>2, <1>3, <1>4, <1>5, <1>6, <1>7, <1>8, <1>9, <1>10, <1>11, <1>12, <1>13,
      <1>14, <1>15, <1>16, <1>17, <1>18, <1>19, <1>20, <1>21, <1>22 DEF Next, Work

\* Only a row without an event is stored, and it is marked in the same
\* transaction.
LEMMA StoredStep ==
    ASSUME TypeOK, HeldInv, HeldUnstored, StoredOnce, [Next]_vars
    PROVE  StoredOnce'
<1> USE InboxAssumption DEF rowVars, callVars, Rows
<1>1. ASSUME NEW r \in Rows, Ingest(r) PROVE StoredOnce'
  BY <1>1 DEF Ingest, TypeOK, HeldInv, HeldUnstored, StoredOnce
<1>2. ASSUME NEW c \in Callers, StartProcess(c) PROVE StoredOnce'
  BY <1>2 DEF StartProcess, TypeOK, HeldInv, HeldUnstored, StoredOnce
<1>3. ASSUME AlreadyRunning PROVE StoredOnce'
  BY <1>3 DEF AlreadyRunning, TypeOK, HeldInv, HeldUnstored, StoredOnce
<1>4. ASSUME NEW c \in Callers, ListRows(c) PROVE StoredOnce'
  BY <1>4 DEF ListRows, firstRows, Processable, TypeOK, HeldInv, HeldUnstored, StoredOnce
<1>5. ASSUME NEW c \in Callers, ListFails(c) PROVE StoredOnce'
  BY <1>5 DEF ListFails, TypeOK, HeldInv, HeldUnstored, StoredOnce
<1>6. ASSUME NEW c \in Callers, NEW r \in Rows, Decode(c, r) PROVE StoredOnce'
  BY <1>6 DEF Decode, IsNext, TypeOK, HeldInv, HeldUnstored, StoredOnce
<1>7. ASSUME NEW c \in Callers, NEW r \in Rows, DecodeFails(c, r) PROVE StoredOnce'
  BY <1>7 DEF DecodeFails, IsNext, Update, Exists, TypeOK, HeldInv, HeldUnstored, StoredOnce
<1>8. ASSUME NEW c \in Callers, NEW r \in Rows, DecodeMarkFails(c, r) PROVE StoredOnce'
  BY <1>8 DEF DecodeMarkFails, IsNext, TypeOK, HeldInv, HeldUnstored, StoredOnce
<1>9. ASSUME NEW c \in Callers, NothingDecoded(c) PROVE StoredOnce'
  BY <1>9 DEF NothingDecoded, TypeOK, HeldInv, HeldUnstored, StoredOnce
<1>10. ASSUME NEW c \in Callers, Resolved(c) PROVE StoredOnce'
  BY <1>10 DEF Resolved, TypeOK, HeldInv, HeldUnstored, StoredOnce
<1>11. ASSUME NEW c \in Callers, LookupFails(c) PROVE StoredOnce'
  BY <1>11 DEF LookupFails, TypeOK, HeldInv, HeldUnstored, StoredOnce
<1>12. ASSUME NEW c \in Callers, Persist(c) PROVE StoredOnce'
  BY <1>12 DEF Persist, Exists, TypeOK, HeldInv, HeldUnstored, StoredOnce
<1>13. ASSUME NEW c \in Callers, PersistFails(c) PROVE StoredOnce'
  BY <1>13 DEF PersistFails, TypeOK, HeldInv, HeldUnstored, StoredOnce
<1>14. ASSUME NEW c \in Callers, NEW r \in Rows, MarkFailed(c, r) PROVE StoredOnce'
  BY <1>14 DEF MarkFailed, IsNext, Update, Exists, failedStatus, TypeOK, HeldInv, HeldUnstored,
     StoredOnce
<1>15. ASSUME NEW c \in Callers, NEW r \in Rows, MarkLost(c, r) PROVE StoredOnce'
  BY <1>15 DEF MarkLost, IsNext, TypeOK, HeldInv, HeldUnstored, StoredOnce
<1>16. ASSUME NEW c \in Callers, MarksDone(c) PROVE StoredOnce'
  BY <1>16 DEF MarksDone, TypeOK, HeldInv, HeldUnstored, StoredOnce
<1>17. ASSUME NEW c \in Callers, Return(c) PROVE StoredOnce'
  BY <1>17 DEF Return, continueImmediately, TypeOK, HeldInv, HeldUnstored, StoredOnce
<1>18. ASSUME WakeUp PROVE StoredOnce'
  BY <1>18 DEF WakeUp, TypeOK, HeldInv, HeldUnstored, StoredOnce
<1>19. ASSUME Cleanup PROVE StoredOnce'
  BY <1>19 DEF Cleanup, TypeOK, HeldInv, HeldUnstored, StoredOnce
<1>20. ASSUME TimePasses PROVE StoredOnce'
  BY <1>20 DEF TimePasses, Exists, older, TypeOK, HeldInv, HeldUnstored, StoredOnce
<1>21. ASSUME Crash PROVE StoredOnce'
  BY <1>21 DEF Crash, TypeOK, HeldInv, HeldUnstored, StoredOnce
<1>22. CASE UNCHANGED vars
  BY <1>22 DEF vars, TypeOK, HeldInv, HeldUnstored, StoredOnce
<1> QED
    BY <1>1, <1>2, <1>3, <1>4, <1>5, <1>6, <1>7, <1>8, <1>9, <1>10, <1>11, <1>12, <1>13,
      <1>14, <1>15, <1>16, <1>17, <1>18, <1>19, <1>20, <1>21, <1>22 DEF Next, Work

\* What the cleanup deletes was stored or has failed.
LEMMA LostStep ==
    ASSUME TypeOK, FailedCounted, StoredOnce, LostOnlyAfterFailure, [Next]_vars
    PROVE  LostOnlyAfterFailure'
<1> USE InboxAssumption DEF rowVars, callVars, Rows
<1>1. ASSUME NEW r \in Rows, Ingest(r) PROVE LostOnlyAfterFailure'
  BY <1>1 DEF Ingest, TypeOK, FailedCounted, StoredOnce, LostOnlyAfterFailure
<1>2. ASSUME NEW c \in Callers, StartProcess(c) PROVE LostOnlyAfterFailure'
  BY <1>2 DEF StartProcess, TypeOK, FailedCounted, StoredOnce, LostOnlyAfterFailure
<1>3. ASSUME AlreadyRunning PROVE LostOnlyAfterFailure'
  BY <1>3 DEF AlreadyRunning, TypeOK, FailedCounted, StoredOnce, LostOnlyAfterFailure
<1>4. ASSUME NEW c \in Callers, ListRows(c) PROVE LostOnlyAfterFailure'
  BY <1>4 DEF ListRows, firstRows, Processable, TypeOK, FailedCounted, StoredOnce,
     LostOnlyAfterFailure
<1>5. ASSUME NEW c \in Callers, ListFails(c) PROVE LostOnlyAfterFailure'
  BY <1>5 DEF ListFails, TypeOK, FailedCounted, StoredOnce, LostOnlyAfterFailure
<1>6. ASSUME NEW c \in Callers, NEW r \in Rows, Decode(c, r) PROVE LostOnlyAfterFailure'
  BY <1>6 DEF Decode, IsNext, TypeOK, FailedCounted, StoredOnce, LostOnlyAfterFailure
<1>7. ASSUME NEW c \in Callers, NEW r \in Rows, DecodeFails(c, r) PROVE LostOnlyAfterFailure'
  BY <1>7 DEF DecodeFails, IsNext, Update, Exists, TypeOK, FailedCounted, StoredOnce,
     LostOnlyAfterFailure
<1>8. ASSUME NEW c \in Callers, NEW r \in Rows, DecodeMarkFails(c, r) PROVE LostOnlyAfterFailure'
  BY <1>8 DEF DecodeMarkFails, IsNext, TypeOK, FailedCounted, StoredOnce, LostOnlyAfterFailure
<1>9. ASSUME NEW c \in Callers, NothingDecoded(c) PROVE LostOnlyAfterFailure'
  BY <1>9 DEF NothingDecoded, TypeOK, FailedCounted, StoredOnce, LostOnlyAfterFailure
<1>10. ASSUME NEW c \in Callers, Resolved(c) PROVE LostOnlyAfterFailure'
  BY <1>10 DEF Resolved, TypeOK, FailedCounted, StoredOnce, LostOnlyAfterFailure
<1>11. ASSUME NEW c \in Callers, LookupFails(c) PROVE LostOnlyAfterFailure'
  BY <1>11 DEF LookupFails, TypeOK, FailedCounted, StoredOnce, LostOnlyAfterFailure
<1>12. ASSUME NEW c \in Callers, Persist(c) PROVE LostOnlyAfterFailure'
  BY <1>12 DEF Persist, Exists, TypeOK, FailedCounted, StoredOnce, LostOnlyAfterFailure
<1>13. ASSUME NEW c \in Callers, PersistFails(c) PROVE LostOnlyAfterFailure'
  BY <1>13 DEF PersistFails, TypeOK, FailedCounted, StoredOnce, LostOnlyAfterFailure
<1>14. ASSUME NEW c \in Callers, NEW r \in Rows, MarkFailed(c, r) PROVE LostOnlyAfterFailure'
  BY <1>14 DEF MarkFailed, IsNext, Update, Exists, failedStatus, TypeOK, FailedCounted,
     StoredOnce, LostOnlyAfterFailure
<1>15. ASSUME NEW c \in Callers, NEW r \in Rows, MarkLost(c, r) PROVE LostOnlyAfterFailure'
  BY <1>15 DEF MarkLost, IsNext, TypeOK, FailedCounted, StoredOnce, LostOnlyAfterFailure
<1>16. ASSUME NEW c \in Callers, MarksDone(c) PROVE LostOnlyAfterFailure'
  BY <1>16 DEF MarksDone, TypeOK, FailedCounted, StoredOnce, LostOnlyAfterFailure
<1>17. ASSUME NEW c \in Callers, Return(c) PROVE LostOnlyAfterFailure'
  BY <1>17 DEF Return, continueImmediately, TypeOK, FailedCounted, StoredOnce,
     LostOnlyAfterFailure
<1>18. ASSUME WakeUp PROVE LostOnlyAfterFailure'
  BY <1>18 DEF WakeUp, TypeOK, FailedCounted, StoredOnce, LostOnlyAfterFailure
<1>19. ASSUME Cleanup PROVE LostOnlyAfterFailure'
  BY <1>19 DEF Cleanup, TypeOK, FailedCounted, StoredOnce, LostOnlyAfterFailure
<1>20. ASSUME TimePasses PROVE LostOnlyAfterFailure'
  BY <1>20 DEF TimePasses, Exists, older, TypeOK, FailedCounted, StoredOnce, LostOnlyAfterFailure
<1>21. ASSUME Crash PROVE LostOnlyAfterFailure'
  BY <1>21 DEF Crash, TypeOK, FailedCounted, StoredOnce, LostOnlyAfterFailure
<1>22. CASE UNCHANGED vars
  BY <1>22 DEF vars, TypeOK, FailedCounted, StoredOnce, LostOnlyAfterFailure
<1> QED
    BY <1>1, <1>2, <1>3, <1>4, <1>5, <1>6, <1>7, <1>8, <1>9, <1>10, <1>11, <1>12, <1>13,
      <1>14, <1>15, <1>16, <1>17, <1>18, <1>19, <1>20, <1>21, <1>22 DEF Next, Work

\* A failure is recorded once per stay awake.
LEMMA BurstStep ==
    ASSUME TypeOK, OneCall, HeldInv, HeldUnstored, BurstInv, [Next]_vars
    PROVE  BurstInv'
<1> USE InboxAssumption DEF rowVars, callVars, Rows
<1>1. ASSUME NEW r \in Rows, Ingest(r) PROVE BurstInv'
  BY <1>1 DEF Ingest, TypeOK, OneCall, Active, HeldInv, HeldUnstored, BurstInv, Spent
<1>2. ASSUME NEW c \in Callers, StartProcess(c) PROVE BurstInv'
  BY <1>2 DEF StartProcess, TypeOK, OneCall, Active, HeldInv, HeldUnstored, BurstInv, Spent
<1>3. ASSUME AlreadyRunning PROVE BurstInv'
  BY <1>3 DEF AlreadyRunning, TypeOK, OneCall, Active, HeldInv, HeldUnstored, BurstInv, Spent
<1>4. ASSUME NEW c \in Callers, ListRows(c) PROVE BurstInv'
  BY <1>4 DEF ListRows, firstRows, Processable, TypeOK, OneCall, Active, HeldInv, HeldUnstored,
     BurstInv, Spent
<1>5. ASSUME NEW c \in Callers, ListFails(c) PROVE BurstInv'
  BY <1>5 DEF ListFails, TypeOK, OneCall, Active, HeldInv, HeldUnstored, BurstInv, Spent
<1>6. ASSUME NEW c \in Callers, NEW r \in Rows, Decode(c, r) PROVE BurstInv'
  BY <1>6 DEF Decode, IsNext, TypeOK, OneCall, Active, HeldInv, HeldUnstored, BurstInv, Spent
<1>7. ASSUME NEW c \in Callers, NEW r \in Rows, DecodeFails(c, r) PROVE BurstInv'
  BY <1>7 DEF DecodeFails, IsNext, Update, Exists, TypeOK, OneCall, Active, HeldInv,
     HeldUnstored, BurstInv, Spent
<1>8. ASSUME NEW c \in Callers, NEW r \in Rows, DecodeMarkFails(c, r) PROVE BurstInv'
  BY <1>8 DEF DecodeMarkFails, IsNext, TypeOK, OneCall, Active, HeldInv, HeldUnstored,
     BurstInv, Spent
<1>9. ASSUME NEW c \in Callers, NothingDecoded(c) PROVE BurstInv'
  BY <1>9 DEF NothingDecoded, TypeOK, OneCall, Active, HeldInv, HeldUnstored, BurstInv, Spent
<1>10. ASSUME NEW c \in Callers, Resolved(c) PROVE BurstInv'
  BY <1>10 DEF Resolved, TypeOK, OneCall, Active, HeldInv, HeldUnstored, BurstInv, Spent
<1>11. ASSUME NEW c \in Callers, LookupFails(c) PROVE BurstInv'
  BY <1>11 DEF LookupFails, TypeOK, OneCall, Active, HeldInv, HeldUnstored, BurstInv, Spent
<1>12. ASSUME NEW c \in Callers, Persist(c) PROVE BurstInv'
  <2> SUFFICES ASSUME NEW q \in Rows, burst[q] = 1
               PROVE q \notin todo'[Runner] \cup ready'[Runner] /\ Spent(q)'
    BY <1>12 DEF Persist, BurstInv
  <2>1. q \notin todo[Runner] \cup ready[Runner] /\ Spent(q)
    BY DEF BurstInv
  <2>2. q \notin todo'[Runner] \cup ready'[Runner]
    BY <1>12, <2>1 DEF Persist, TypeOK
  <2>3. CASE status[q] \in {"discarded", "deleted"}
    <3>1. status'[q] \in {"discarded", "deleted"}
      BY <1>12, <2>3 DEF Persist, Exists, HeldUnstored
    <3> QED
      BY <2>2, <3>1 DEF Spent
  <2>4. CASE pc[Runner] = "asleep"
    <3>1. pc'[Runner] = "asleep"
      BY <1>12, <2>4 DEF Persist, TypeOK
    <3> QED
      BY <2>2, <3>1 DEF Spent
  <2>5. CASE pc[Runner] \in {"unresolved", "rollback", "persist", "done"} /\ retry[Runner]
    <3>1. pc'[Runner] \in {"unresolved", "rollback", "persist", "done"} /\ retry'[Runner]
      BY <1>12, <2>5 DEF Persist, TypeOK
    <3> QED
      BY <2>2, <3>1 DEF Spent
  <2> QED
    BY <2>1, <2>3, <2>4, <2>5 DEF Spent
<1>13. ASSUME NEW c \in Callers, PersistFails(c) PROVE BurstInv'
  BY <1>13 DEF PersistFails, TypeOK, OneCall, Active, HeldInv, HeldUnstored, BurstInv, Spent
<1>14. ASSUME NEW c \in Callers, NEW r \in Rows, MarkFailed(c, r) PROVE BurstInv'
  <2> SUFFICES ASSUME NEW q \in Rows
               PROVE /\ burst'[q] <= 1
                     /\ burst'[q] = 1 => q \notin todo'[Runner] \cup ready'[Runner] /\ Spent(q)'
    BY DEF BurstInv
  <2>1. /\ \A p \in Rows : p # r => status'[p] = status[p]
        /\ status'[r] = IF Exists(r) THEN failedStatus(r) ELSE status[r]
    BY <1>14, UpdateEffect, FailedStatusType DEF MarkFailed, Statuses
  <2>2. todo'[Runner] \subseteq todo[Runner] /\ ready'[Runner] = ready[Runner] /\ pc'[Runner] = pc[Runner]
    BY <1>14 DEF MarkFailed, TypeOK
  <2>3. retry[Runner] => retry'[Runner]
    BY <1>14 DEF MarkFailed, TypeOK
  <2>4. burst[q] \in {0, 1}
    BY DEF BurstInv, TypeOK
  <2>5. CASE q # r
    <3>1. burst'[q] = burst[q] /\ status'[q] = status[q]
      BY <1>14, <2>1, <2>5 DEF MarkFailed, TypeOK
    <3> QED
      BY <2>2, <2>3, <2>4, <3>1 DEF BurstInv, Spent
  <2>6. CASE q = r /\ c = Runner
    <3>1. burst[q] = 0
      BY <1>14, <2>4, <2>6 DEF MarkFailed, IsNext, BurstInv
    <3>2. burst'[q] <= 1
      BY <1>14, <3>1, <2>6 DEF MarkFailed, TypeOK
    <3>3. q \notin todo'[Runner] \cup ready'[Runner]
      BY <1>14, <2>2, <2>6 DEF MarkFailed, IsNext, HeldInv, TypeOK
    <3>4. status'[q] # "discarded" => retry'[Runner]
      BY <1>14, <2>6 DEF MarkFailed, TypeOK
    <3>5. pc'[Runner] \in {"unresolved", "rollback"}
      BY <1>14, <2>2, <2>6 DEF MarkFailed
    <3> QED
      BY <3>2, <3>3, <3>4, <3>5 DEF Spent
  <2>7. CASE q = r /\ c # Runner
    <3>1. burst' = burst
      BY <1>14, <2>7 DEF MarkFailed
    <3>2. status[q] \in {"discarded", "deleted"} => status'[q] \in {"discarded", "deleted"}
      BY <1>14, <2>1, <2>7 DEF MarkFailed, IsNext, Exists, HeldUnstored
    <3> QED
      BY <2>2, <2>3, <2>4, <3>1, <3>2 DEF BurstInv, Spent
  <2> QED
    BY <2>5, <2>6, <2>7
<1>15. ASSUME NEW c \in Callers, NEW r \in Rows, MarkLost(c, r) PROVE BurstInv'
  BY <1>15 DEF MarkLost, IsNext, TypeOK, OneCall, Active, HeldInv, HeldUnstored, BurstInv, Spent
<1>16. ASSUME NEW c \in Callers, MarksDone(c) PROVE BurstInv'
  BY <1>16 DEF MarksDone, TypeOK, OneCall, Active, HeldInv, HeldUnstored, BurstInv, Spent
<1>17. ASSUME NEW c \in Callers, Return(c) PROVE BurstInv'
  BY <1>17 DEF Return, continueImmediately, TypeOK, OneCall, Active, HeldInv, HeldUnstored,
     BurstInv, Spent
<1>18. ASSUME WakeUp PROVE BurstInv'
  BY <1>18 DEF WakeUp, TypeOK, OneCall, Active, HeldInv, HeldUnstored, BurstInv, Spent
<1>19. ASSUME Cleanup PROVE BurstInv'
  BY <1>19 DEF Cleanup, TypeOK, OneCall, Active, HeldInv, HeldUnstored, BurstInv, Spent
<1>20. ASSUME TimePasses PROVE BurstInv'
  BY <1>20 DEF TimePasses, Exists, older, TypeOK, OneCall, Active, HeldInv, HeldUnstored,
     BurstInv, Spent
<1>21. ASSUME Crash PROVE BurstInv'
  BY <1>21 DEF Crash, TypeOK, OneCall, Active, HeldInv, HeldUnstored, BurstInv, Spent
<1>22. CASE UNCHANGED vars
  BY <1>22 DEF vars, TypeOK, OneCall, Active, HeldInv, HeldUnstored, BurstInv, Spent
<1> QED
    BY <1>1, <1>2, <1>3, <1>4, <1>5, <1>6, <1>7, <1>8, <1>9, <1>10, <1>11, <1>12, <1>13,
      <1>14, <1>15, <1>16, <1>17, <1>18, <1>19, <1>20, <1>21, <1>22 DEF Next, Work

\* An empty inbox, with no call under way, satisfies every part.
LEMMA InboxIndInit == Init => InboxInd
<1> SUFFICES ASSUME Init PROVE InboxInd
  OBVIOUS
<1> USE InboxAssumption DEF Init
<1>1. TypeOK
  <2>1. /\ kind \in [Rows -> Kinds] /\ status \in [Rows -> Statuses]
        /\ attempts \in [Rows -> Nat] /\ age \in [Rows -> 0..2] /\ stored \in [Rows -> Nat]
    BY DEF Statuses
  <2>2. /\ running \in BOOLEAN
        /\ pc \in [Callers -> {"idle", "list", "decode", "unresolved", "persist", "rollback",
                               "done", "asleep"}]
        /\ todo \in [Callers -> SUBSET Rows] /\ ready \in [Callers -> SUBSET Rows]
    OBVIOUS
  <2>3. /\ full \in [Callers -> BOOLEAN] /\ retry \in [Callers -> BOOLEAN]
        /\ outcome \in [Callers -> {"none", "warnings", "failed"}]
        /\ stamp \in [Callers -> 0..2] /\ crashes \in 0..MaxCrash /\ burst \in [Rows -> Nat]
    OBVIOUS
  <2> QED
    BY <2>1, <2>2, <2>3 DEF TypeOK
<1>2. OneCall /\ HeldInv /\ HeldUnstored
  BY DEF OneCall, Active, HeldInv, HeldUnstored
<1>3. FailedCounted /\ StoredOnce /\ LostOnlyAfterFailure /\ BurstInv
  BY DEF FailedCounted, StoredOnce, LostOnlyAfterFailure, BurstInv
<1> QED
  BY <1>1, <1>2, <1>3 DEF InboxInd

\* Every step keeps every part.
LEMMA InboxIndStep == ASSUME InboxInd, [Next]_vars PROVE InboxInd'
BY TypeStep, OneCallStep, HeldStep, UnstoredStep, CountedStep, StoredStep, LostStep, BurstStep
   DEF InboxInd

\* The inductive invariant holds in every state of every behaviour.
THEOREM InboxInvariant == Spec => []InboxInd
<1>1. InboxInd /\ UNCHANGED vars => InboxInd'
  BY InboxIndStep
<1> QED
  BY <1>1, InboxIndInit, InboxIndStep, PTL DEF Spec

\* The accounts of the inbox: a message yields at most one event, a processed
\* one exactly one, and only a message that has failed is deleted without one
\* (processRedisInboxRows, CleanupRedisUsageInbox).
THEOREM InboxCorrect == Spec => []InboxInv
<1>1. InboxInd => InboxInv
  BY DEF InboxInd, InboxInv
<1> QED
  BY <1>1, InboxInvariant, PTL

\* The runner records at most one failure of a row between two sleeps
\* (shouldContinueRedisProcessImmediately).
THEOREM RetriesPaced == Spec => []PacedRetries
<1>1. InboxInd => PacedRetries
  BY DEF InboxInd, BurstInv, PacedRetries
<1> QED
  BY <1>1, InboxInvariant, PTL
=============================================================================
