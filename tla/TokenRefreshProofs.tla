------------------------- MODULE TokenRefreshProofs -------------------------
(***************************************************************************)
(* Machine-checked proofs about TokenRefresh, for any number of            *)
(* credentials, workers, requests and editors and any durations: a late    *)
(* answer marks no later registration and undoes no edit, the store ends   *)
(* with what the manager holds, no credential is forgotten by the loop, no *)
(* token is exchanged twice and the loop does not spin.                    *)
(***************************************************************************)
EXTENDS TokenRefresh, WellFoundedInduction, TLAPS

(***************************************************************************)
(* The inductive invariant.  First the types: a credential, what a save    *)
(* takes of it,                                                            *)
(***************************************************************************)
AuthRec == [epoch : Nat, gen : Nat, token : Nat, due : Nat, nra : Nat,
            err : {"none", "unauthorized", "failed"}, errOf : Nat, down : BOOLEAN, note : Nat]
SavedRec == [epoch : Nat, gen : Nat, token : Nat, note : Nat]

\* the steps of a caller and of an editor,
Calls == {Idle} \cup [pc : {"enter"}, id : Ids, failed : Nat]
         \cup [pc : {"calling"}, id : Ids, base : AuthRec]
         \cup [pc : {"announce"}, id : Ids, saved : SavedRec \cup {NoAuth}]
         \cup [pc : {"again"}, id : Ids]
Edits == {Idle} \cup [pc : {"update"}, id : Ids, upload : BOOLEAN, read : AuthRec]
         \cup [pc : {"register"}, id : Ids, note : Nat]
         \cup [pc : {"announce"}, id : Ids, saved : SavedRec]
         \cup [pc : {"unschedule"}, id : Ids] \cup [pc : {"exchange"}, id : Ids, read : AuthRec]

\* and those of the loop.
Loops == [pc : {"off", "rebuild", "select", "due", "dirty"}, todo : SUBSET Ids, seen : Nat]
         \cup [pc : {"install"}, todo : SUBSET Ids, seen : Nat, plan : [Ids -> Nat]]
         \cup [pc : {"mark", "reread", "send", "put"}, phase : {"due", "dirty"}, id : Ids,
               next : Nat, todo : SUBSET Ids, seen : Nat]

AuthType ==
    /\ now \in 1..MaxTime
    /\ auths \in [Ids -> AuthRec \cup {NoAuth}] /\ authEpochs \in [Ids -> Nat \ {0}]
    /\ owner \in [Ids -> Seq(Nat)] /\ noted \in [Ids -> Nat] /\ events \in Nat

CallType == call \in [Callers -> Calls]
EditType == edit \in [Editors -> Edits]

StoreType ==
    /\ watermark \in [Ids -> Nat \X Nat] /\ store \in [Ids -> Nat \X Nat] /\ unsaved \subseteq Ids

LoopType ==
    /\ loop \in Loops /\ loop.seen <= now
    /\ heap \in [Ids -> Nat] /\ timer \in Nat /\ dirty \subseteq Ids /\ wake \in BOOLEAN
    /\ jobs \in Seq(Ids) /\ Len(jobs) <= JobBuffer

\* A copy a of the credential id: its token was issued to its registration, and
\* so was the error it carries.
Issued(id, a) ==
    /\ a.epoch \in 1..authEpochs[id]
    /\ a.token \in 1..Len(owner[id]) /\ owner[id][a.token] = a.epoch
    /\ a.err # "none" => a.errOf = a.epoch

\* The manager's credentials and the copies that callers and editors work on.
OwnInv ==
    /\ \A id \in Ids : Present(id) => Issued(id, auths[id]) /\ auths[id].epoch = authEpochs[id]
    /\ \A p \in Callers : call[p].pc = "calling" => Issued(call[p].id, call[p].base)
    /\ \A e \in Editors :
          edit[e].pc \in {"update", "exchange"} => Issued(edit[e].id, edit[e].read)

\* What is on its way to be saved.
Savings(id) ==
    {s \in SavedRec :
        \/ \E p \in Callers : call[p].pc = "announce" /\ call[p].id = id /\ call[p].saved = s
        \/ \E e \in Editors : edit[e].pc = "announce" /\ edit[e].id = id /\ edit[e].saved = s}

\* A mark, of the store or of something to be saved, is not ahead of the manager.
Reached(id, epoch, gen) ==
    /\ epoch <= authEpochs[id]
    /\ epoch = authEpochs[id] => Present(id) /\ gen <= auths[id].gen

MarkInv ==
    \A id \in Ids : /\ Reached(id, watermark[id][1], watermark[id][2])
                    /\ \A s \in Savings(id) : Reached(id, s.epoch, s.gen)

\* The token and the note a save has are those of the manager.
Current(id, s) == s.token = auths[id].token /\ s.note = auths[id].note

\* The store has the current token and note and will not get others, or they are
\* on their way and nothing else will overtake them.
SaveInv ==
    \A id \in Ids : Present(id) =>
        \/ /\ id \in unsaved \/ store[id] = <<auths[id].token, auths[id].note>>
           /\ \A t \in Savings(id) : Current(id, t) \/ Older(t, watermark[id])
        \/ \E s \in Savings(id) :
            /\ Current(id, s) /\ ~Older(s, watermark[id])
            /\ \A t \in Savings(id) : Current(id, t) \/ Older(t, <<s.epoch, s.gen>>)

\* Tokens that may be exchanged again: written back, or exchanged by nobody who held the
\* credential's lock.
Spared(id) == restored[id] \cup loose[id]

\* No other token that is in use was exchanged, and one caller at a time works on a
\* credential.
SpentInv ==
    /\ \A id \in Ids : spent[id] \subseteq 1..Len(owner[id])
    /\ \A id \in Ids : Present(id) => auths[id].token \notin spent[id] \ Spared(id)
    /\ \A p \in Callers : call[p].pc = "calling" =>
          call[p].base.token \notin spent[call[p].id] \ Spared(call[p].id)
    /\ \A p, q \in Callers : call[p].pc = "calling" /\ call[q].pc = "calling"
                             /\ call[p].id = call[q].id => p = q

\* The loop is awake, or about to drain, while something is dirty; it looks at
\* nothing before its heap is built.
Awake ==
    \/ wake \/ loop.pc = "due"
    \/ loop.pc \in {"mark", "reread", "send", "put"} /\ loop.phase = "due"

LoopInv ==
    /\ dirty # {} => Awake
    /\ loop.pc \in {"off", "rebuild", "install"} => \A id \in Ids : heap[id] = 0
    /\ loop.pc \in {"off", "rebuild", "install", "select"} => loop.todo = {}
    /\ loop.pc \in {"due", "dirty", "mark", "reread", "send", "put"} => loop.seen >= 1

\* When a credential is to be looked at: 0 when it cannot be refreshed.
Due(id) == nextRefreshCheckAt(now, auths[id])

\* Someone will reschedule the credential, or it is the exception.
Cared(id) ==
    \/ id \in dirty
    \/ \E p \in Callers : call[p].pc \in {"announce", "again"} /\ call[p].id = id
    \/ \E e \in Editors : edit[e].pc = "announce" /\ edit[e].id = id
    \/ id \in orphaned

\* The loop has it in its heap, in time, or is about to put it there.
Scheduled(id) ==
    \/ InTime(heap[id], id) /\ (loop.pc = "select" => TimerSetFor(heap[id]))
    \/ loop.pc = "rebuild" \/ (loop.pc = "install" /\ InTime(loop.plan[id], id))
    \/ id \in loop.todo
    \/ loop.pc \in {"mark", "reread"} /\ loop.id = id
    \/ loop.pc = "put" /\ loop.id = id /\ InTime(loop.next, id)

KeptInv == Published => \A id \in Ids : Due(id) # 0 => Scheduled(id) \/ Cared(id)

\* What the loop is about to put into the heap in place of what is there.
PutInv ==
    \A id \in Ids : loop.pc = "put" /\ loop.id = id /\ Due(id) # 0 =>
        InTime(loop.next, id) \/ id \in loop.todo \/ Cared(id)

SpentType ==
    /\ spent \in [Ids -> SUBSET Nat] /\ restored \in [Ids -> SUBSET Nat]
    /\ loose \in [Ids -> SUBSET Nat]

RefreshInd ==
    /\ AuthType /\ CallType /\ EditType /\ StoreType /\ LoopType /\ SpentType
    /\ OwnInv /\ LastNoteStands /\ MarkInv /\ SaveInv /\ SpentInv
    /\ LoopInv /\ KeptInv /\ PutInv

(***************************************************************************)
(* Steps by what they do: a call of a provider that brings no token, and   *)
(* an editor that may write a credential it has read before.               *)
(***************************************************************************)
Cancels(p) == \E exchanged \in BOOLEAN : RefreshCanceled(p, exchanged)
Fails(p, err) == \E exchanged \in BOOLEAN : RefreshFails(p, err, exchanged)
Loses(e) == \E exchanged \in BOOLEAN : ExchangeFails(e, exchanged)
Writes(e) == Update(e) \/ ExchangeSucceeds(e)

(***************************************************************************)
(* Numbers.                                                                *)
(***************************************************************************)
LEMMA MaxOfTwo ==
    ASSUME NEW m \in Nat, NEW n \in Nat
    PROVE  Max({m, n}) = IF m >= n THEN m ELSE n
<1> DEFINE k == IF m >= n THEN m ELSE n
<1>1. k \in {m, n} /\ \A y \in {m, n} : k >= y
  OBVIOUS
<1>2. Max({m, n}) \in {m, n} /\ \A y \in {m, n} : Max({m, n}) >= y
  BY <1>1 DEF Max
<1> QED
  BY <1>2

\* A duration that may be over.
LEMMA MaxOfZero ==
    ASSUME NEW k \in Int
    PROVE  Max({0, k}) = (IF k >= 0 THEN k ELSE 0) /\ Max({0, k}) \in Nat
<1> DEFINE m == IF k >= 0 THEN k ELSE 0
<1>1. m \in {0, k} /\ (\A y \in {0, k} : m >= y) /\ m \in Nat
  OBVIOUS
<1>2. Max({0, k}) \in {0, k} /\ \A y \in {0, k} : Max({0, k}) >= y
  BY <1>1 DEF Max
<1> QED
  BY <1>1, <1>2

\* The smaller of two durations.
LEMMA MinOfTwo ==
    ASSUME NEW m \in Nat, NEW n \in Nat
    PROVE  Min({m, n}) = IF m <= n THEN m ELSE n
<1> DEFINE k == IF m <= n THEN m ELSE n
<1>1. k \in {m, n} /\ \A y \in {m, n} : k <= y
  OBVIOUS
<1>2. Min({m, n}) \in {m, n} /\ \A y \in {m, n} : Min({m, n}) <= y
  BY <1>1 DEF Min
<1> QED
  BY <1>2

\* A set of natural numbers has a least one.
LEMMA MinOfSet ==
    ASSUME NEW S \in SUBSET Nat, S # {}
    PROVE  Min(S) \in S /\ \A n \in S : Min(S) <= n
<1>1. PICK m \in S : \A n \in S : <<n, m>> \notin OpToRel(<, Nat)
  BY NatLessThanWellFounded, WFMin
<1>2. \A n \in S : ~ (n < m)
  BY <1>1 DEF OpToRel
<1>3. \A n \in S : m <= n
  BY <1>2
<1> QED
  BY <1>3 DEF Min

(***************************************************************************)
(* Credentials.                                                            *)
(***************************************************************************)
\* What the lemmas about credentials need of the state.
LEMMA Clock ==
    ASSUME AuthType
    PROVE  now \in Nat /\ now >= 1 /\ now <= MaxTime
BY RefreshAssumption DEF AuthType

\* A credential looks at the clock for as long as it can be refreshed.
LEMMA CheckAt ==
    ASSUME NEW a \in AuthRec, NEW t \in Nat
    PROVE  nextRefreshCheckAt(t, a) = IF hasUnauthorizedAuthFailure(a) THEN 0
                                      ELSE IF a.nra > t THEN a.nra
                                      ELSE IF t >= a.due THEN t ELSE a.due
<1>1. a # NoAuth
  BY DEF AuthRec, NoAuth
<1>2. Max({t, a.due}) = IF t >= a.due THEN t ELSE a.due
  BY MaxOfTwo DEF AuthRec
<1> QED
  BY <1>1, <1>2 DEF nextRefreshCheckAt

\* A credential that is not there is never looked at.
LEMMA CheckAtNone == ASSUME NEW t PROVE nextRefreshCheckAt(t, NoAuth) = 0
BY DEF nextRefreshCheckAt

\* The later the clock, the later the next look, and it stays due or not.
LEMMA CheckLater ==
    ASSUME NEW a \in AuthRec \cup {NoAuth}, NEW t \in Nat, NEW u \in Nat, 1 <= t, t <= u
    PROVE  /\ nextRefreshCheckAt(t, a) \in Nat /\ nextRefreshCheckAt(u, a) \in Nat
           /\ nextRefreshCheckAt(t, a) <= nextRefreshCheckAt(u, a)
           /\ nextRefreshCheckAt(t, a) = 0 <=> nextRefreshCheckAt(u, a) = 0
<1>1. CASE a = NoAuth
  BY <1>1, CheckAtNone
<1>2. CASE a \in AuthRec
  <2>1. a.nra \in Nat /\ a.due \in Nat
    BY <1>2 DEF AuthRec
  <2> QED
    BY <1>2, <2>1, CheckAt
<1> QED
  BY <1>1, <1>2

\* A refresh that failed leaves the token, the registration and the note alone.
LEMMA FailedRec ==
    ASSUME AuthType, NEW a \in AuthRec, NEW base \in AuthRec, NEW err \in {"unauthorized", "failed"}
    PROVE  /\ Failed(a, base, err) \in AuthRec
           /\ Failed(a, base, err).epoch = a.epoch /\ Failed(a, base, err).token = a.token
           /\ Failed(a, base, err).note = a.note /\ Failed(a, base, err).gen = a.gen + 1
           /\ Failed(a, base, err).errOf = base.epoch
<1>1. now \in Nat /\ FailureBackoff \in Nat /\ Lead \in Nat /\ a.due \in Nat /\ base.epoch \in Nat
      /\ a.gen \in Nat
  BY Clock, RefreshAssumption DEF AuthRec
<1> DEFINE nra == CASE HasValidAccessToken(a) -> Min({now + FailureBackoff, a.due + Lead})
                    [] ~HasValidAccessToken(a) /\ err = "unauthorized" -> 0
                    [] OTHER -> now + FailureBackoff
           down == a.down \/ ~HasValidAccessToken(a)
<1>2. nra \in Nat
  BY <1>1, MinOfTwo
<1>3. down \in BOOLEAN
  OBVIOUS
<1>4. Failed(a, base, err) = [a EXCEPT !.gen = a.gen + 1, !.err = err, !.errOf = base.epoch,
                                       !.down = down, !.nra = nra]
  BY DEF Failed
<1>5. a.gen + 1 \in Nat
  BY <1>1
<1> HIDE DEF nra, down
<1> QED
  BY <1>1, <1>2, <1>3, <1>4, <1>5 DEF AuthRec

\* The token an answer brings, or that it leaves in place.
LEMMA ThrottledRec ==
    ASSUME AuthType, NEW a \in AuthRec
    PROVE  /\ Throttled(a) \in AuthRec /\ Throttled(a).epoch = a.epoch
           /\ Throttled(a).token = a.token /\ Throttled(a).due = a.due
<1>1. now + IneffectiveBackoff \in Nat
  BY Clock, RefreshAssumption
<1> QED
  BY <1>1 DEF Throttled, AuthRec

\* A refresh gives a credential a new token in the same registration.
LEMMA UpdatedRec ==
    ASSUME AuthType, NEW base \in AuthRec, NEW token \in Nat
    PROVE  /\ Updated(base, token) \in AuthRec /\ Updated(base, token).epoch = base.epoch
           /\ Updated(base, token).token = token
<1> DEFINE due == IF token = base.token THEN base.due ELSE now + Life
           a == [base EXCEPT !.token = token, !.due = due, !.nra = 0, !.err = "none",
                             !.errOf = 0, !.down = FALSE]
<1>1. due \in Nat
  BY Clock, RefreshAssumption DEF AuthRec
<1> HIDE DEF due
<1>2. a \in AuthRec /\ a.epoch = base.epoch /\ a.token = token
  BY <1>1 DEF AuthRec
<1>3. Updated(base, token) = Throttled(a)
  BY DEF Updated, due
<1> HIDE DEF a
<1> QED
  BY <1>2, <1>3, ThrottledRec

\* The merge takes the new token and nothing that others have changed.
LEMMA MergedRec ==
    ASSUME AuthType, NEW base \in AuthRec, NEW a \in AuthRec, NEW token \in Nat,
           a.epoch = base.epoch
    PROVE  LET m == MergeRefreshedAuth(base, a, Updated(base, token))
           IN  /\ m \in AuthRec /\ m.epoch = a.epoch /\ m.gen = a.gen /\ m.note = a.note
               /\ m.token = IF token # base.token THEN token ELSE a.token
               /\ m.err # "none" => m.err = a.err /\ m.errOf = a.errOf
<1> DEFINE u == Updated(base, token)
           newError == a.err # "none" /\ a.err # base.err
           nra == IF u.nra # 0 \/ base.nra # 0 THEN u.nra ELSE a.nra
           due == IF token # base.token THEN u.due ELSE a.due
           down == newError /\ a.down
           m == MergeRefreshedAuth(base, a, u)
<1>1. u \in AuthRec /\ u.token = token
  BY UpdatedRec
<1>2. nra \in Nat /\ due \in Nat
  BY <1>1 DEF AuthRec
<1>3. down \in BOOLEAN
  OBVIOUS
<1>4. m = [a EXCEPT !.token = IF token # base.token THEN token ELSE a.token, !.due = due,
                    !.nra = nra, !.err = IF newError THEN a.err ELSE "none",
                    !.errOf = IF newError THEN a.errOf ELSE 0, !.down = down]
  BY <1>1 DEF MergeRefreshedAuth
<1> HIDE DEF u, nra, due, down, m, newError
<1>5. m \in AuthRec /\ m.epoch = a.epoch /\ m.gen = a.gen /\ m.note = a.note
  BY <1>2, <1>3, <1>4 DEF AuthRec
<1>6. m.token = IF token # base.token THEN token ELSE a.token
  BY <1>4 DEF AuthRec
<1>7. m.err # "none" => m.err = a.err /\ m.errOf = a.errOf
  BY <1>4 DEF AuthRec
<1> QED
  BY <1>5, <1>6, <1>7 DEF m, u

\* What the end of updateInternal stamps on a credential.
LEMMA CommittedRec ==
    ASSUME AuthType, NEW id \in Ids, Present(id), NEW a \in AuthRec
    PROVE  LET c == Committed(id, a)
           IN  /\ c \in AuthRec /\ c.epoch = authEpochs[id] /\ c.gen > auths[id].gen
               /\ c.token = a.token /\ c.note = a.note /\ c.err = a.err /\ c.errOf = a.errOf
<1>1. auths[id] \in AuthRec /\ authEpochs[id] \in Nat
  BY DEF AuthType, Present
<1>2. a.gen \in Nat /\ auths[id].gen \in Nat
  BY <1>1 DEF AuthRec
<1> DEFINE g == Max({a.gen, auths[id].gen}) + 1
<1>3. g \in Nat /\ g > auths[id].gen
  BY <1>2, MaxOfTwo
<1>4. Committed(id, a) = [a EXCEPT !.epoch = authEpochs[id], !.gen = g]
  BY DEF Committed
<1> HIDE DEF g
<1> QED
  BY <1>1, <1>3, <1>4 DEF AuthRec

(***************************************************************************)
(* What the records of callers, editors and the loop hold.                 *)
(***************************************************************************)
LEMMA CallKinds ==
    ASSUME NEW c \in Calls
    PROVE  /\ c.pc = "enter" => c.id \in Ids /\ c.failed \in Nat
           /\ c.pc = "calling" => c.id \in Ids /\ c.base \in AuthRec
           /\ c.pc = "announce" => c.id \in Ids /\ c.saved \in SavedRec \cup {NoAuth}
           /\ c.pc = "again" => c.id \in Ids
BY DEF Calls, Idle

\* What the steps of an editor carry.
LEMMA EditKinds ==
    ASSUME NEW c \in Edits
    PROVE  /\ c.pc = "update" => c.id \in Ids /\ c.read \in AuthRec /\ c.upload \in BOOLEAN
           /\ c.pc = "register" => c.id \in Ids /\ c.note \in Nat
           /\ c.pc = "announce" => c.id \in Ids /\ c.saved \in SavedRec
           /\ c.pc = "unschedule" => c.id \in Ids
           /\ c.pc = "exchange" => c.id \in Ids /\ c.read \in AuthRec
BY DEF Edits, Idle

\* What the steps of the loop carry.
LEMMA LoopKinds ==
    ASSUME LoopType
    PROVE  /\ loop.pc \in {"off", "rebuild", "select", "due", "dirty", "install", "mark", "reread",
                           "send", "put"}
           /\ loop.todo \subseteq Ids /\ loop.seen \in Nat
           /\ loop.pc = "install" => loop.plan \in [Ids -> Nat]
           /\ loop.pc \in {"mark", "reread", "send", "put"} =>
                 loop.phase \in {"due", "dirty"} /\ loop.id \in Ids /\ loop.next \in Nat
BY DEF LoopType, Loops

\* A copy to save.
LEMMA SavingRec ==
    ASSUME NEW a \in AuthRec
    PROVE  /\ Saving(a) \in SavedRec /\ Saving(a).epoch = a.epoch /\ Saving(a).gen = a.gen
           /\ Saving(a).token = a.token /\ Saving(a).note = a.note
BY DEF Saving, SavedRec, AuthRec

\* A caller that saved nothing is told apart from one that did.
LEMMA NotSaved == NoAuth \notin SavedRec
BY DEF NoAuth, SavedRec

\* A registered credential is a record, any other has epoch 0.
LEMMA PresentRec ==
    ASSUME AuthType, NEW id \in Ids
    PROVE  /\ Present(id) => auths[id] \in AuthRec
           /\ ~Present(id) => auths[id].epoch = 0
BY DEF AuthType, Present, NoAuth

\* A copy without its generation.
LEMMA CloneRec ==
    ASSUME AuthType, OwnInv, NEW id \in Ids, Present(id)
    PROVE  Clone(id) \in AuthRec /\ Issued(id, Clone(id)) /\ Clone(id).token = auths[id].token
<1>1. auths[id] \in AuthRec
  BY PresentRec
<1>2. /\ Clone(id) \in AuthRec /\ Clone(id).token = auths[id].token
      /\ Clone(id).epoch = auths[id].epoch /\ Clone(id).err = auths[id].err
      /\ Clone(id).errOf = auths[id].errOf
  BY <1>1 DEF Clone, AuthRec
<1>3. Issued(id, auths[id])
  BY DEF OwnInv
<1> QED
  BY <1>2, <1>3 DEF Issued

(***************************************************************************)
(* What the steps that write a credential make of it.                      *)
(***************************************************************************)
\* It keeps its registration, token and note; its generation grows.
Touched(id) ==
    /\ Present(id) /\ auths[id] \in AuthRec /\ auths'[id] \in AuthRec
    /\ auths' = [auths EXCEPT ![id] = auths'[id]]
    /\ auths'[id].epoch = auths[id].epoch /\ auths'[id].token = auths[id].token
    /\ auths'[id].note = auths[id].note /\ auths'[id].gen > auths[id].gen
    /\ auths'[id].err # "none" => auths'[id].errOf = auths[id].epoch

\* It keeps its registration, and is on its way to be saved.
Rewritten(id) ==
    /\ Present(id) /\ auths[id] \in AuthRec /\ auths'[id] \in AuthRec
    /\ auths' = [auths EXCEPT ![id] = auths'[id]]
    /\ auths'[id].epoch = auths[id].epoch /\ auths'[id].gen > auths[id].gen
    /\ auths'[id].err # "none" => auths'[id].errOf = auths[id].epoch

\* MarkRefreshPending touches at most the credential in hand.
LEMMA MarkEffect ==
    ASSUME AuthType, LoopType, OwnInv, markRefreshPending
    PROVE  \/ UNCHANGED auths
           \/ loop.id \in Ids /\ Touched(loop.id)
<1>1. CASE UNCHANGED auths
  BY <1>1
<1>2. CASE /\ Present(loop.id)
           /\ auths' = [auths EXCEPT ![loop.id].nra = loop.seen + PendingBackoff,
                                     ![loop.id].gen = @ + 1]
  <2>1. PICK id \in Ids : id = loop.id
    BY LoopKinds DEF markRefreshPending
  <2>2. auths[id] \in AuthRec /\ Issued(id, auths[id])
    BY <1>2, <2>1, PresentRec DEF OwnInv
  <2>3. loop.seen + PendingBackoff \in Nat
    BY LoopKinds, RefreshAssumption
  <2> DEFINE next == loop.seen + PendingBackoff
             a == [auths[id] EXCEPT !.nra = next, !.gen = auths[id].gen + 1]
  <2>4. auths' = [auths EXCEPT ![id] = a]
    BY <1>2, <2>1, <2>2 DEF AuthType, AuthRec
  <2>5. /\ next \in Nat /\ auths[id].gen \in Nat /\ auths[id].gen + 1 \in Nat
        /\ auths[id].gen + 1 > auths[id].gen
    <3>1. auths[id].gen \in Nat
      BY <2>2 DEF AuthRec
    <3> QED
      BY <2>3, <3>1
  <2> HIDE DEF next
  <2>7. /\ a \in AuthRec /\ a.epoch = auths[id].epoch /\ a.token = auths[id].token
        /\ a.note = auths[id].note /\ a.gen = auths[id].gen + 1 /\ a.err = auths[id].err
        /\ a.errOf = auths[id].errOf
    BY <2>2, <2>5 DEF AuthRec
  <2> HIDE DEF a
  <2>6. auths'[id] = a
    BY <2>4 DEF AuthType
  <2> QED
    BY <1>2, <2>1, <2>2, <2>4, <2>5, <2>6, <2>7 DEF Touched, Issued
<1> QED
  BY <1>1, <1>2 DEF markRefreshPending

\* A failed refresh touches at most its own credential.
LEMMA FailsEffect ==
    ASSUME AuthType, CallType, OwnInv, NEW p \in Callers, NEW err \in {"unauthorized", "failed"},
           Fails(p, err)
    PROVE  \/ UNCHANGED auths /\ Return(p)
           \/ /\ call[p].id \in Ids /\ Touched(call[p].id)
              /\ call' = [call EXCEPT ![p] =
                             [pc |-> "announce", id |-> call[p].id, saved |-> NoAuth]]
<1>1. PICK id \in Ids : id = call[p].id
  BY CallKinds DEF CallType, Fails, RefreshFails
<1>2. PICK base \in AuthRec : base = call[p].base
  BY CallKinds DEF CallType, Fails, RefreshFails
<1>3. CASE UNCHANGED auths /\ Return(p)
  BY <1>3
<1>4. CASE /\ auths[id].epoch = base.epoch
           /\ auths' = [auths EXCEPT ![id] = Failed(auths[id], base, err)]
           /\ call' = [call EXCEPT ![p] = [pc |-> "announce", id |-> id, saved |-> NoAuth]]
  <2>1. Issued(id, base)
    BY <1>1, <1>2 DEF OwnInv, Fails, RefreshFails
  <2>2. Present(id) /\ auths[id] \in AuthRec
    BY <1>4, <2>1, PresentRec DEF Issued
  <2>3. auths'[id] = Failed(auths[id], base, err)
    BY <1>4 DEF AuthType
  <2>4. auths[id].gen \in Nat
    BY <2>2 DEF AuthRec
  <2>5. /\ auths'[id] \in AuthRec /\ auths'[id].epoch = auths[id].epoch
        /\ auths'[id].token = auths[id].token /\ auths'[id].note = auths[id].note
        /\ auths'[id].gen = auths[id].gen + 1 /\ auths'[id].errOf = base.epoch
    BY <2>2, <2>3, FailedRec
  <2>6. auths'[id].gen > auths[id].gen
    BY <2>4, <2>5
  <2>7. Touched(id)
    BY <1>4, <2>2, <2>3, <2>5, <2>6 DEF Touched
  <2> QED
    BY <1>1, <1>4, <2>7
<1> QED
  BY <1>1, <1>2, <1>3, <1>4 DEF Fails, RefreshFails

\* A new token has a new number; the rest is kept as it is now.
LEMMA SucceedsEffect ==
    ASSUME AuthType, CallType, OwnInv, NEW p \in Callers, NEW new \in BOOLEAN,
           RefreshSucceeds(p, new)
    PROVE  \/ UNCHANGED auths /\ Return(p) /\ auths[call[p].id].epoch # call[p].base.epoch
           \/ /\ call[p].id \in Ids /\ Rewritten(call[p].id)
              /\ auths[call[p].id].epoch = call[p].base.epoch
              /\ auths'[call[p].id].note = auths[call[p].id].note
              /\ auths'[call[p].id].token = IF new THEN Len(owner[call[p].id]) + 1
                                            ELSE auths[call[p].id].token
              /\ call' = [call EXCEPT ![p] = [pc |-> "announce", id |-> call[p].id,
                                              saved |-> Saving(auths'[call[p].id])]]
<1>1. PICK id \in Ids : id = call[p].id
  BY CallKinds DEF CallType, RefreshSucceeds
<1>2. PICK base \in AuthRec : base = call[p].base
  BY CallKinds DEF CallType, RefreshSucceeds
<1> DEFINE token == IF new THEN Len(owner[id]) + 1 ELSE base.token
           m == MergeRefreshedAuth(base, auths[id], Updated(base, token))
<1>3. CASE UNCHANGED auths /\ Return(p) /\ auths[id].epoch # base.epoch
  BY <1>1, <1>2, <1>3
<1>4. CASE /\ auths[id].epoch = base.epoch
           /\ auths' = [auths EXCEPT ![id] = Committed(id, m)]
           /\ call' = [call EXCEPT ![p] = [pc |-> "announce", id |-> id,
                                           saved |-> Saving(Committed(id, m))]]
  <2>1. Issued(id, base)
    BY <1>1, <1>2 DEF OwnInv, RefreshSucceeds
  <2>2. Present(id) /\ auths[id] \in AuthRec
    BY <1>4, <2>1, PresentRec DEF Issued
  <2>3. Issued(id, auths[id]) /\ auths[id].epoch = authEpochs[id]
    BY <2>2 DEF OwnInv
  <2>4. Len(owner[id]) \in Nat /\ base.token \in Nat /\ base.token <= Len(owner[id])
    BY <2>1 DEF Issued, AuthType
  <2>5. token \in Nat /\ (new <=> token # base.token)
    BY <2>4
  <2>6. /\ m \in AuthRec /\ m.note = auths[id].note
        /\ m.token = IF token # base.token THEN token ELSE auths[id].token
        /\ m.err # "none" => m.err = auths[id].err /\ m.errOf = auths[id].errOf
    BY <1>4, <2>2, <2>5, MergedRec
  <2>7. auths'[id] = Committed(id, m)
    BY <1>4 DEF AuthType
  <2> HIDE DEF m
  <2>8. /\ auths'[id] \in AuthRec /\ auths'[id].epoch = auths[id].epoch
        /\ auths'[id].gen > auths[id].gen /\ auths'[id].note = auths[id].note
        /\ auths'[id].token = m.token /\ auths'[id].err = m.err /\ auths'[id].errOf = m.errOf
    BY <2>2, <2>3, <2>6, <2>7, CommittedRec
  <2>9. auths'[id].token = IF new THEN Len(owner[id]) + 1 ELSE auths[id].token
    BY <2>5, <2>6, <2>8
  <2>10. auths'[id].err # "none" => auths'[id].errOf = auths[id].epoch
    BY <2>3, <2>6, <2>8 DEF Issued
  <2> HIDE DEF token
  <2>11. Rewritten(id)
    BY <1>4, <2>2, <2>7, <2>8, <2>10 DEF Rewritten
  <2> QED
    BY <1>1, <1>2, <1>4, <2>7, <2>8, <2>9, <2>11
<1> QED
  BY <1>1, <1>2, <1>3, <1>4 DEF RefreshSucceeds

\* What an editor has stored is on its way to be saved.
Kept(e, id) ==
    /\ noted' = [noted EXCEPT ![id] = auths'[id].note]
    /\ edit' = [edit EXCEPT ![e] = [pc |-> "announce", id |-> id, saved |-> Saving(auths'[id])]]

\* The write of an editor is refused, brings a new token, or puts a copy in its place.
Refused(e) ==
    /\ edit' = [edit EXCEPT ![e] = Idle]
    /\ UNCHANGED <<auths, noted, owner, restored>>

Replaces(e, id) ==
    /\ Rewritten(id) /\ Kept(e, id) /\ UNCHANGED restored
    /\ owner' = [owner EXCEPT ![id] = Append(@, auths[id].epoch)]
    /\ auths'[id].token = Len(owner[id]) + 1

Restores(e, id) ==
    /\ Rewritten(id) /\ Kept(e, id) /\ UNCHANGED owner
    /\ edit[e].read.epoch = auths[id].epoch
    /\ auths'[id].token = edit[e].read.token
    /\ restored' = [restored EXCEPT ![id] = @ \cup ({edit[e].read.token} \ {auths[id].token})]

\* A login is a credential of its own, an edited copy keeps its token.
LEMMA UpdateEffect ==
    ASSUME AuthType, EditType, OwnInv, NEW e \in Editors, Update(e)
    PROVE  /\ edit[e].id \in Ids
           /\ Refused(e) \/ Replaces(e, edit[e].id) \/ Restores(e, edit[e].id)
<1>1. PICK id \in Ids : id = edit[e].id
  BY EditKinds DEF EditType, Update
<1>2. PICK read \in AuthRec : read = edit[e].read
  BY EditKinds DEF EditType, Update
<1>3. Issued(id, read)
  BY <1>1, <1>2 DEF OwnInv, Update
<1>4. Len(owner[id]) + 1 \in Nat /\ now + Life \in Nat
  BY Clock, RefreshAssumption DEF AuthType
<1> DEFINE token == Len(owner[id]) + 1
           due == now + Life
           fresh == Login(0, 0, token, read.note)
           login == [fresh EXCEPT !.nra = read.nra]
<1>5. CASE edit' = [edit EXCEPT ![e] = Idle] /\ UNCHANGED <<auths, noted, owner, restored>>
  BY <1>1, <1>5 DEF Refused
<1>6. CASE /\ Present(id) /\ Stored(e, id, Committed(id, login)) /\ UNCHANGED restored
           /\ owner' = [owner EXCEPT ![id] = Append(@, auths[id].epoch)]
  <2>1. fresh = [epoch |-> 0, gen |-> 0, token |-> token, due |-> due, nra |-> 0, err |-> "none",
                 errOf |-> 0, down |-> FALSE, note |-> read.note]
    BY DEF Login
  <2> HIDE DEF token, due, fresh
  <2>2. /\ fresh \in AuthRec /\ fresh.token = token /\ fresh.note = read.note
        /\ fresh.err = "none"
    BY <1>2, <1>4, <2>1 DEF AuthRec, token, due
  <2>3. /\ login \in AuthRec /\ login.token = token /\ login.note = read.note
        /\ login.err = "none"
    BY <1>2, <2>2 DEF AuthRec
  <2> HIDE DEF login
  <2>4. auths[id] \in AuthRec /\ auths[id].epoch = authEpochs[id]
    BY <1>6, PresentRec DEF OwnInv
  <2>5. auths' = [auths EXCEPT ![id] = Committed(id, login)]
    BY <1>6 DEF Stored
  <2>6. auths'[id] = Committed(id, login)
    BY <2>5 DEF AuthType
  <2>7. /\ auths'[id] \in AuthRec /\ auths'[id].epoch = auths[id].epoch
        /\ auths'[id].gen > auths[id].gen /\ auths'[id].token = token
        /\ auths'[id].note = read.note /\ auths'[id].err = "none"
    BY <1>6, <2>3, <2>4, <2>6, CommittedRec
  <2>8. Rewritten(id)
    BY <1>6, <2>4, <2>5, <2>6, <2>7 DEF Rewritten
  <2>9. Kept(e, id)
    BY <1>6, <2>6 DEF Kept, Stored
  <2> QED
    BY <1>1, <1>6, <2>7, <2>8, <2>9 DEF token, Replaces
<1>7. CASE /\ Present(id) /\ read.epoch >= authEpochs[id] /\ Stored(e, id, Committed(id, read))
           /\ restored' = [restored EXCEPT ![id] = @ \cup ({read.token} \ {auths[id].token})]
           /\ UNCHANGED owner
  <2>1. auths[id] \in AuthRec /\ auths[id].epoch = authEpochs[id]
    BY <1>7, PresentRec DEF OwnInv
  <2>2. read.epoch = authEpochs[id]
    BY <1>3, <1>7 DEF Issued, AuthType
  <2>3. auths' = [auths EXCEPT ![id] = Committed(id, read)]
    BY <1>7 DEF Stored
  <2>4. auths'[id] = Committed(id, read)
    BY <2>3 DEF AuthType
  <2>5. /\ auths'[id] \in AuthRec /\ auths'[id].epoch = auths[id].epoch
        /\ auths'[id].gen > auths[id].gen /\ auths'[id].token = read.token
        /\ auths'[id].note = read.note /\ auths'[id].err = read.err
        /\ auths'[id].errOf = read.errOf
    BY <1>2, <1>7, <2>1, <2>4, CommittedRec
  <2>6. auths'[id].err # "none" => auths'[id].errOf = auths[id].epoch
    BY <1>3, <2>1, <2>2, <2>5 DEF Issued
  <2>7. Rewritten(id)
    BY <1>7, <2>1, <2>3, <2>4, <2>5, <2>6 DEF Rewritten
  <2>8. Kept(e, id)
    BY <1>7, <2>4 DEF Kept, Stored
  <2> QED
    BY <1>1, <1>2, <1>7, <2>1, <2>2, <2>5, <2>7, <2>8 DEF Restores
<1>8. login = [Login(0, 0, token, read.note) EXCEPT !.nra = read.nra]
  OBVIOUS
<1> HIDE DEF login, due
<1> QED
  BY <1>1, <1>2, <1>5, <1>6, <1>7, <1>8 DEF Update

\* The copy of the api-call tool gets a token of its own.
LEMMA ExchangeEffect ==
    ASSUME AuthType, EditType, OwnInv, NEW e \in Editors, ExchangeSucceeds(e)
    PROVE  /\ edit[e].id \in Ids
           /\ Refused(e) \/ Replaces(e, edit[e].id)
<1>1. PICK id \in Ids : id = edit[e].id
  BY EditKinds DEF EditType, ExchangeSucceeds
<1>2. PICK read \in AuthRec : read = edit[e].read
  BY EditKinds DEF EditType, ExchangeSucceeds
<1>3. Issued(id, read)
  BY <1>1, <1>2 DEF OwnInv, ExchangeSucceeds
<1>4. Len(owner[id]) + 1 \in Nat /\ now + Life \in Nat
  BY Clock, RefreshAssumption DEF AuthType
<1> DEFINE token == Len(owner[id]) + 1
           due == now + Life
           fresh == [read EXCEPT !.token = token, !.due = due]
<1>5. CASE edit' = [edit EXCEPT ![e] = Idle] /\ UNCHANGED <<auths, noted, owner, restored>>
  BY <1>1, <1>5 DEF Refused
<1>6. CASE /\ Present(id) /\ read.epoch >= authEpochs[id] /\ Stored(e, id, Committed(id, fresh))
           /\ owner' = [owner EXCEPT ![id] = Append(@, read.epoch)] /\ UNCHANGED restored
  <2>1. auths[id] \in AuthRec /\ auths[id].epoch = authEpochs[id]
    BY <1>6, PresentRec DEF OwnInv
  <2>2. read.epoch = auths[id].epoch
    BY <1>3, <1>6, <2>1 DEF Issued, AuthType
  <2> HIDE DEF token, due
  <2>3. /\ fresh \in AuthRec /\ fresh.token = token /\ fresh.note = read.note
        /\ fresh.err = read.err /\ fresh.errOf = read.errOf
    BY <1>2, <1>4 DEF AuthRec, token, due
  <2> HIDE DEF fresh
  <2>4. auths' = [auths EXCEPT ![id] = Committed(id, fresh)]
    BY <1>6 DEF Stored
  <2>5. auths'[id] = Committed(id, fresh)
    BY <2>4 DEF AuthType
  <2>6. /\ auths'[id] \in AuthRec /\ auths'[id].epoch = auths[id].epoch
        /\ auths'[id].gen > auths[id].gen /\ auths'[id].token = token
        /\ auths'[id].note = read.note /\ auths'[id].err = read.err
        /\ auths'[id].errOf = read.errOf
    BY <1>6, <2>1, <2>3, <2>5, CommittedRec
  <2>7. auths'[id].err # "none" => auths'[id].errOf = auths[id].epoch
    BY <1>3, <2>2, <2>6 DEF Issued
  <2>8. Rewritten(id)
    BY <1>6, <2>1, <2>4, <2>5, <2>6, <2>7 DEF Rewritten
  <2>9. Kept(e, id)
    BY <1>6, <2>5 DEF Kept, Stored
  <2> QED
    BY <1>1, <1>6, <2>2, <2>6, <2>8, <2>9 DEF token, Replaces
<1>7. fresh = [read EXCEPT !.token = Len(owner[id]) + 1, !.due = now + Life]
  OBVIOUS
<1> HIDE DEF fresh
<1> QED
  BY <1>1, <1>2, <1>5, <1>6, <1>7 DEF ExchangeSucceeds

\* Whatever an editor writes of what it has read.
LEMMA WriteEffect ==
    ASSUME AuthType, EditType, OwnInv, NEW e \in Editors, Writes(e)
    PROVE  /\ edit[e].id \in Ids
           /\ Refused(e) \/ Replaces(e, edit[e].id) \/ Restores(e, edit[e].id)
BY UpdateEffect, ExchangeEffect DEF Writes

\* A registration is a new one, with a token of its own.
LEMMA RegisterEffect ==
    ASSUME AuthType, EditType, NEW e \in Editors, Register(e)
    PROVE  LET id == edit[e].id
           IN  /\ id \in Ids /\ Kept(e, id)
               /\ auths' = [auths EXCEPT ![id] = auths'[id]] /\ auths'[id] \in AuthRec
               /\ authEpochs' = [authEpochs EXCEPT ![id] = @ + 1]
               /\ owner' = [owner EXCEPT ![id] = Append(@, authEpochs[id] + 1)]
               /\ auths'[id].epoch = authEpochs[id] + 1 /\ auths'[id].err = "none"
               /\ auths'[id].token = Len(owner[id]) + 1 /\ auths'[id].gen = 1
<1>1. PICK id \in Ids : id = edit[e].id
  BY EditKinds DEF EditType, Register
<1>2. PICK note \in Nat : note = edit[e].note
  BY EditKinds DEF EditType, Register
<1>3. Len(owner[id]) + 1 \in Nat /\ now + Life \in Nat /\ authEpochs[id] + 1 \in Nat
  <2>1. owner[id] \in Seq(Nat) /\ authEpochs[id] \in Nat
    BY DEF AuthType
  <2> QED
    BY <2>1, Clock, RefreshAssumption
<1> DEFINE token == Len(owner[id]) + 1
           due == now + Life
           epoch == authEpochs[id] + 1
           login == [epoch |-> epoch, gen |-> 1, token |-> token, due |-> due, nra |-> 0,
                     err |-> "none", errOf |-> 0, down |-> FALSE, note |-> note]
<1>4. Login(epoch, 1, token, note) = login
  BY DEF Login
<1>5. /\ auths' = [auths EXCEPT ![id] = login]
      /\ noted' = [noted EXCEPT ![id] = login.note]
      /\ edit' = [edit EXCEPT ![e] = [pc |-> "announce", id |-> id, saved |-> Saving(login)]]
      /\ authEpochs' = [authEpochs EXCEPT ![id] = epoch]
      /\ owner' = [owner EXCEPT ![id] = Append(@, epoch)]
  BY <1>1, <1>2, <1>4 DEF Register, Stored
<1> HIDE DEF token, due, epoch
<1>6. /\ login \in AuthRec /\ login.token = token /\ login.epoch = epoch /\ login.err = "none"
      /\ login.gen = 1
  BY <1>2, <1>3 DEF AuthRec, token, due, epoch
<1> HIDE DEF login
<1>7. auths'[id] = login
  BY <1>5 DEF AuthType
<1> QED
  BY <1>1, <1>5, <1>6, <1>7 DEF token, epoch, Kept

(***************************************************************************)
(* Which steps change what.                                                *)
(***************************************************************************)
\* The manager's credentials, their registrations and tokens.
LEMMA AuthFrame ==
    ASSUME [Next]_vars
    PROVE  \/ markRefreshPending
           \/ (\E p \in Callers, err \in {"unauthorized", "failed"} : Fails(p, err))
           \/ (\E p \in Callers, new \in BOOLEAN : RefreshSucceeds(p, new))
           \/ (\E e \in Editors : Writes(e))
           \/ (\E e \in Editors : Register(e))
           \/ (\E e \in Editors, id \in Ids : Remove(e, id))
           \/ UNCHANGED <<auths, authEpochs, noted, owner>>
<1> DEFINE Same == UNCHANGED <<auths, authEpochs, noted, owner>>
<1> USE DEF outside, loopVars, storeVars, tokenVars
<1>1. CASE UNCHANGED vars
  BY <1>1 DEF vars
<1>2. ASSUME Tick \/ StartAutoRefresh \/ RebuildRead \/ RebuildInstall \/ LoopWoken PROVE Same
  BY <1>2 DEF Tick, StartAutoRefresh, RebuildRead, RebuildInstall, LoopWoken
<1>3. ASSUME popDue \/ RereadDue \/ SendJob \/ drainDirty \/ upsert PROVE Same
  BY <1>3 DEF popDue, RereadDue, SendJob, drainDirty, upsert
<1>4. ASSUME resetTimer PROVE Same
  BY <1>4 DEF resetTimer
<1>5. ASSUME NEW id \in Ids, handleDueAuth(id) \/ applyDirty(id) PROVE Same
  BY <1>5 DEF handleDueAuth, applyDirty
<1>6. ASSUME NEW p \in Callers,
           \/ TakeJob(p) \/ refreshAuthForRequest(p) \/ Cancels(p)
           \/ RefreshAnnounced(p) \/ WorkerRequeue(p)
      PROVE  Same
  BY <1>6 DEF TakeJob, refreshAuthForRequest, Cancels, RefreshCanceled, RefreshAnnounced,
     WorkerRequeue
<1>7. ASSUME NEW p \in Callers, NEW id \in Ids, RequestRefused(p, id) PROVE Same
  BY <1>7 DEF RequestRefused
<1>8. ASSUME NEW e \in Editors,
           EditAnnounced(e) \/ queueRefreshUnschedule(e) \/ Loses(e)
      PROVE  Same
  BY <1>8 DEF EditAnnounced, queueRefreshUnschedule, Loses, ExchangeFails
<1>9. ASSUME NEW e \in Editors, NEW id \in Ids, resolveTokenForAuth(e, id) PROVE Same
  BY <1>9 DEF resolveTokenForAuth
<1>10. ASSUME NEW e \in Editors, NEW id \in Ids, NEW upload \in BOOLEAN,
           LookUp(e, id, upload)
      PROVE  Same
  BY <1>10 DEF LookUp
<1> QED
  BY <1>1, <1>2, <1>3, <1>4, <1>5, <1>6, <1>7, <1>8, <1>9, <1>10
     DEF Next, LoopNext, CallNext, EditNext, Cancels, Fails, Writes, Loses

\* A caller.
LEMMA CallFrame ==
    ASSUME [Next]_vars
    PROVE  \/ (\E p \in Callers : TakeJob(p))
           \/ (\E p \in Callers : refreshAuthForRequest(p))
           \/ (\E p \in Callers : Cancels(p))
           \/ (\E p \in Callers : RefreshAnnounced(p))
           \/ (\E p \in Callers : WorkerRequeue(p))
           \/ (\E p \in Callers, id \in Ids : RequestRefused(p, id))
           \/ (\E p \in Callers, err \in {"unauthorized", "failed"} : Fails(p, err))
           \/ (\E p \in Callers, new \in BOOLEAN : RefreshSucceeds(p, new))
           \/ UNCHANGED <<call>>
<1> DEFINE Same == UNCHANGED <<call>>
<1> USE DEF outside, loopVars, storeVars, tokenVars
<1>1. CASE UNCHANGED vars
  BY <1>1 DEF vars
<1>2. ASSUME Tick \/ StartAutoRefresh \/ RebuildRead \/ RebuildInstall \/ LoopWoken PROVE Same
  BY <1>2 DEF Tick, StartAutoRefresh, RebuildRead, RebuildInstall, LoopWoken
<1>3. ASSUME popDue \/ markRefreshPending \/ RereadDue \/ SendJob \/ drainDirty PROVE Same
  BY <1>3 DEF popDue, markRefreshPending, RereadDue, SendJob, drainDirty
<1>4. ASSUME upsert \/ resetTimer PROVE Same
  BY <1>4 DEF upsert, resetTimer
<1>5. ASSUME NEW id \in Ids, handleDueAuth(id) \/ applyDirty(id) PROVE Same
  BY <1>5 DEF handleDueAuth, applyDirty
<1>6. ASSUME NEW e \in Editors, Writes(e) \/ Register(e) \/ EditAnnounced(e) PROVE Same
  BY <1>6 DEF Writes, Update, ExchangeSucceeds, Register, EditAnnounced
<1>7. ASSUME NEW e \in Editors, queueRefreshUnschedule(e) \/ Loses(e) PROVE Same
  BY <1>7 DEF queueRefreshUnschedule, Loses, ExchangeFails
<1>8. ASSUME NEW e \in Editors, NEW id \in Ids,
           Remove(e, id) \/ resolveTokenForAuth(e, id)
      PROVE  Same
  BY <1>8 DEF Remove, resolveTokenForAuth
<1>9. ASSUME NEW e \in Editors, NEW id \in Ids, NEW upload \in BOOLEAN,
           LookUp(e, id, upload)
      PROVE  Same
  BY <1>9 DEF LookUp
<1> QED
  BY <1>1, <1>2, <1>3, <1>4, <1>5, <1>6, <1>7, <1>8, <1>9
     DEF Next, LoopNext, CallNext, EditNext, Cancels, Fails, Writes, Loses

\* An editor.
LEMMA EditFrame ==
    ASSUME [Next]_vars
    PROVE  \/ (\E e \in Editors : Writes(e))
           \/ (\E e \in Editors : Register(e))
           \/ (\E e \in Editors : EditAnnounced(e))
           \/ (\E e \in Editors : queueRefreshUnschedule(e))
           \/ (\E e \in Editors : Loses(e))
           \/ (\E e \in Editors, id \in Ids : Remove(e, id))
           \/ (\E e \in Editors, id \in Ids : resolveTokenForAuth(e, id))
           \/ (\E e \in Editors, id \in Ids, upload \in BOOLEAN : LookUp(e, id, upload))
           \/ UNCHANGED <<edit>>
<1> DEFINE Same == UNCHANGED <<edit>>
<1> USE DEF outside, loopVars, storeVars, tokenVars
<1>1. CASE UNCHANGED vars
  BY <1>1 DEF vars
<1>2. ASSUME Tick \/ StartAutoRefresh \/ RebuildRead \/ RebuildInstall \/ LoopWoken PROVE Same
  BY <1>2 DEF Tick, StartAutoRefresh, RebuildRead, RebuildInstall, LoopWoken
<1>3. ASSUME popDue \/ markRefreshPending \/ RereadDue \/ SendJob \/ drainDirty PROVE Same
  BY <1>3 DEF popDue, markRefreshPending, RereadDue, SendJob, drainDirty
<1>4. ASSUME upsert \/ resetTimer PROVE Same
  BY <1>4 DEF upsert, resetTimer
<1>5. ASSUME NEW id \in Ids, handleDueAuth(id) \/ applyDirty(id) PROVE Same
  BY <1>5 DEF handleDueAuth, applyDirty
<1>6. ASSUME NEW p \in Callers,
           \/ TakeJob(p) \/ refreshAuthForRequest(p) \/ Cancels(p)
           \/ RefreshAnnounced(p) \/ WorkerRequeue(p)
      PROVE  Same
  BY <1>6 DEF TakeJob, refreshAuthForRequest, Cancels, RefreshCanceled, RefreshAnnounced,
     WorkerRequeue
<1>7. ASSUME NEW p \in Callers, NEW id \in Ids, RequestRefused(p, id) PROVE Same
  BY <1>7 DEF RequestRefused
<1>8. ASSUME NEW p \in Callers, NEW err \in {"unauthorized", "failed"}, Fails(p, err) PROVE Same
  BY <1>8 DEF Fails, RefreshFails
<1>9. ASSUME NEW p \in Callers, NEW new \in BOOLEAN, RefreshSucceeds(p, new) PROVE Same
  BY <1>9 DEF RefreshSucceeds
<1> QED
  BY <1>1, <1>2, <1>3, <1>4, <1>5, <1>6, <1>7, <1>8, <1>9
     DEF Next, LoopNext, CallNext, EditNext, Cancels, Fails, Writes, Loses

\* What has been persisted.
LEMMA StoreFrame ==
    ASSUME [Next]_vars
    PROVE  \/ (\E p \in Callers : RefreshAnnounced(p))
           \/ (\E e \in Editors : EditAnnounced(e))
           \/ UNCHANGED <<storeVars>>
<1> DEFINE Same == UNCHANGED <<storeVars>>
<1> USE DEF outside, loopVars, storeVars, tokenVars
<1>1. CASE UNCHANGED vars
  BY <1>1 DEF vars
<1>2. ASSUME Tick \/ StartAutoRefresh \/ RebuildRead \/ RebuildInstall \/ LoopWoken PROVE Same
  BY <1>2 DEF Tick, StartAutoRefresh, RebuildRead, RebuildInstall, LoopWoken
<1>3. ASSUME popDue \/ markRefreshPending \/ RereadDue \/ SendJob \/ drainDirty PROVE Same
  BY <1>3 DEF popDue, markRefreshPending, RereadDue, SendJob, drainDirty
<1>4. ASSUME upsert \/ resetTimer PROVE Same
  BY <1>4 DEF upsert, resetTimer
<1>5. ASSUME NEW id \in Ids, handleDueAuth(id) \/ applyDirty(id) PROVE Same
  BY <1>5 DEF handleDueAuth, applyDirty
<1>6. ASSUME NEW p \in Callers,
           TakeJob(p) \/ refreshAuthForRequest(p) \/ Cancels(p) \/ WorkerRequeue(p)
      PROVE  Same
  BY <1>6 DEF TakeJob, refreshAuthForRequest, Cancels, RefreshCanceled, WorkerRequeue
<1>7. ASSUME NEW p \in Callers, NEW id \in Ids, RequestRefused(p, id) PROVE Same
  BY <1>7 DEF RequestRefused
<1>8. ASSUME NEW p \in Callers, NEW err \in {"unauthorized", "failed"}, Fails(p, err) PROVE Same
  BY <1>8 DEF Fails, RefreshFails
<1>9. ASSUME NEW p \in Callers, NEW new \in BOOLEAN, RefreshSucceeds(p, new) PROVE Same
  BY <1>9 DEF RefreshSucceeds
<1>10. ASSUME NEW e \in Editors, Writes(e) \/ Register(e) \/ queueRefreshUnschedule(e) PROVE Same
  BY <1>10 DEF Writes, Update, ExchangeSucceeds, Register, queueRefreshUnschedule
<1>11. ASSUME NEW e \in Editors, Loses(e) PROVE Same
  BY <1>11 DEF Loses, ExchangeFails
<1>12. ASSUME NEW e \in Editors, NEW id \in Ids,
           Remove(e, id) \/ resolveTokenForAuth(e, id)
      PROVE  Same
  BY <1>12 DEF Remove, resolveTokenForAuth
<1>13. ASSUME NEW e \in Editors, NEW id \in Ids, NEW upload \in BOOLEAN,
           LookUp(e, id, upload)
      PROVE  Same
  BY <1>13 DEF LookUp
<1> QED
  BY <1>1, <1>2, <1>3, <1>4, <1>5, <1>6, <1>7, <1>8, <1>9, <1>10, <1>11, <1>12, <1>13
     DEF Next, LoopNext, CallNext, EditNext, Cancels, Fails, Writes, Loses

\* The tokens that were exchanged and those written back.
LEMMA SpentFrame ==
    ASSUME [Next]_vars
    PROVE  \/ (\E p \in Callers : Cancels(p))
           \/ (\E p \in Callers, err \in {"unauthorized", "failed"} : Fails(p, err))
           \/ (\E p \in Callers, new \in BOOLEAN : RefreshSucceeds(p, new))
           \/ (\E e \in Editors : Writes(e))
           \/ (\E e \in Editors : Loses(e))
           \/ UNCHANGED <<spent, restored, loose>>
<1> DEFINE Same == UNCHANGED <<spent, restored, loose>>
<1> USE DEF outside, loopVars, storeVars, tokenVars
<1>1. CASE UNCHANGED vars
  BY <1>1 DEF vars
<1>2. ASSUME Tick \/ StartAutoRefresh \/ RebuildRead \/ RebuildInstall \/ LoopWoken PROVE Same
  BY <1>2 DEF Tick, StartAutoRefresh, RebuildRead, RebuildInstall, LoopWoken
<1>3. ASSUME popDue \/ markRefreshPending \/ RereadDue \/ SendJob \/ drainDirty PROVE Same
  BY <1>3 DEF popDue, markRefreshPending, RereadDue, SendJob, drainDirty
<1>4. ASSUME upsert \/ resetTimer PROVE Same
  BY <1>4 DEF upsert, resetTimer
<1>5. ASSUME NEW id \in Ids, handleDueAuth(id) \/ applyDirty(id) PROVE Same
  BY <1>5 DEF handleDueAuth, applyDirty
<1>6. ASSUME NEW p \in Callers,
           TakeJob(p) \/ refreshAuthForRequest(p) \/ RefreshAnnounced(p) \/ WorkerRequeue(p)
      PROVE  Same
  BY <1>6 DEF TakeJob, refreshAuthForRequest, RefreshAnnounced, WorkerRequeue
<1>7. ASSUME NEW p \in Callers, NEW id \in Ids, RequestRefused(p, id) PROVE Same
  BY <1>7 DEF RequestRefused
<1>8. ASSUME NEW e \in Editors,
           Register(e) \/ EditAnnounced(e) \/ queueRefreshUnschedule(e)
      PROVE  Same
  BY <1>8 DEF Register, EditAnnounced, queueRefreshUnschedule
<1>9. ASSUME NEW e \in Editors, NEW id \in Ids,
           Remove(e, id) \/ resolveTokenForAuth(e, id)
      PROVE  Same
  BY <1>9 DEF Remove, resolveTokenForAuth
<1>10. ASSUME NEW e \in Editors, NEW id \in Ids, NEW upload \in BOOLEAN,
           LookUp(e, id, upload)
      PROVE  Same
  BY <1>10 DEF LookUp
<1> QED
  BY <1>1, <1>2, <1>3, <1>4, <1>5, <1>6, <1>7, <1>8, <1>9, <1>10
     DEF Next, LoopNext, CallNext, EditNext, Cancels, Fails, Writes, Loses

\* What the loop works on, and its heap.
LEMMA LoopFrame ==
    ASSUME [Next]_vars
    PROVE  \/ StartAutoRefresh \/ RebuildRead \/ RebuildInstall \/ LoopWoken \/ popDue
           \/ markRefreshPending \/ RereadDue \/ SendJob \/ drainDirty \/ upsert
           \/ resetTimer
           \/ (\E id \in Ids : handleDueAuth(id))
           \/ (\E id \in Ids : applyDirty(id))
           \/ (\E e \in Editors : queueRefreshUnschedule(e))
           \/ UNCHANGED <<loop, heap, timer>>
<1> DEFINE Same == UNCHANGED <<loop, heap, timer>>
<1> USE DEF outside, loopVars, storeVars, tokenVars
<1>1. CASE UNCHANGED vars
  BY <1>1 DEF vars
<1>2. ASSUME Tick PROVE Same
  BY <1>2 DEF Tick
<1>3. ASSUME NEW p \in Callers,
           \/ TakeJob(p) \/ refreshAuthForRequest(p) \/ Cancels(p)
           \/ RefreshAnnounced(p) \/ WorkerRequeue(p)
      PROVE  Same
  BY <1>3 DEF TakeJob, refreshAuthForRequest, Cancels, RefreshCanceled, RefreshAnnounced,
     WorkerRequeue
<1>4. ASSUME NEW p \in Callers, NEW id \in Ids, RequestRefused(p, id) PROVE Same
  BY <1>4 DEF RequestRefused
<1>5. ASSUME NEW p \in Callers, NEW err \in {"unauthorized", "failed"}, Fails(p, err) PROVE Same
  BY <1>5 DEF Fails, RefreshFails
<1>6. ASSUME NEW p \in Callers, NEW new \in BOOLEAN, RefreshSucceeds(p, new) PROVE Same
  BY <1>6 DEF RefreshSucceeds
<1>7. ASSUME NEW e \in Editors, Writes(e) \/ Register(e) \/ EditAnnounced(e) PROVE Same
  BY <1>7 DEF Writes, Update, ExchangeSucceeds, Register, EditAnnounced
<1>8. ASSUME NEW e \in Editors, Loses(e) PROVE Same
  BY <1>8 DEF Loses, ExchangeFails
<1>9. ASSUME NEW e \in Editors, NEW id \in Ids,
           Remove(e, id) \/ resolveTokenForAuth(e, id)
      PROVE  Same
  BY <1>9 DEF Remove, resolveTokenForAuth
<1>10. ASSUME NEW e \in Editors, NEW id \in Ids, NEW upload \in BOOLEAN,
           LookUp(e, id, upload)
      PROVE  Same
  BY <1>10 DEF LookUp
<1> QED
  BY <1>1, <1>2, <1>3, <1>4, <1>5, <1>6, <1>7, <1>8, <1>9, <1>10
     DEF Next, LoopNext, CallNext, EditNext, Cancels, Fails, Writes, Loses

\* What wakes the loop.
LEMMA DirtyFrame ==
    ASSUME [Next]_vars
    PROVE  \/ LoopWoken \/ markRefreshPending \/ drainDirty
           \/ (\E p \in Callers : RefreshAnnounced(p))
           \/ (\E p \in Callers : WorkerRequeue(p))
           \/ (\E e \in Editors : EditAnnounced(e))
           \/ (\E e \in Editors : queueRefreshUnschedule(e))
           \/ UNCHANGED <<dirty, wake, orphaned>>
<1> DEFINE Same == UNCHANGED <<dirty, wake, orphaned>>
<1> USE DEF outside, loopVars, storeVars, tokenVars
<1>1. CASE UNCHANGED vars
  BY <1>1 DEF vars
<1>2. ASSUME Tick \/ StartAutoRefresh \/ RebuildRead \/ RebuildInstall \/ popDue PROVE Same
  BY <1>2 DEF Tick, StartAutoRefresh, RebuildRead, RebuildInstall, popDue
<1>3. ASSUME RereadDue \/ SendJob \/ upsert \/ resetTimer PROVE Same
  BY <1>3 DEF RereadDue, SendJob, upsert, resetTimer
<1>4. ASSUME NEW id \in Ids, handleDueAuth(id) \/ applyDirty(id) PROVE Same
  BY <1>4 DEF handleDueAuth, applyDirty
<1>5. ASSUME NEW p \in Callers, TakeJob(p) \/ refreshAuthForRequest(p) \/ Cancels(p) PROVE Same
  BY <1>5 DEF TakeJob, refreshAuthForRequest, Cancels, RefreshCanceled
<1>6. ASSUME NEW p \in Callers, NEW id \in Ids, RequestRefused(p, id) PROVE Same
  BY <1>6 DEF RequestRefused
<1>7. ASSUME NEW p \in Callers, NEW err \in {"unauthorized", "failed"}, Fails(p, err) PROVE Same
  BY <1>7 DEF Fails, RefreshFails
<1>8. ASSUME NEW p \in Callers, NEW new \in BOOLEAN, RefreshSucceeds(p, new) PROVE Same
  BY <1>8 DEF RefreshSucceeds
<1>9. ASSUME NEW e \in Editors, Writes(e) \/ Register(e) \/ Loses(e) PROVE Same
  BY <1>9 DEF Writes, Update, ExchangeSucceeds, Register, Loses, ExchangeFails
<1>10. ASSUME NEW e \in Editors, NEW id \in Ids,
           Remove(e, id) \/ resolveTokenForAuth(e, id)
      PROVE  Same
  BY <1>10 DEF Remove, resolveTokenForAuth
<1>11. ASSUME NEW e \in Editors, NEW id \in Ids, NEW upload \in BOOLEAN,
           LookUp(e, id, upload)
      PROVE  Same
  BY <1>11 DEF LookUp
<1> QED
  BY <1>1, <1>2, <1>3, <1>4, <1>5, <1>6, <1>7, <1>8, <1>9, <1>10, <1>11
     DEF Next, LoopNext, CallNext, EditNext, Cancels, Fails, Writes, Loses

\* The jobs.
LEMMA JobFrame ==
    ASSUME [Next]_vars
    PROVE  \/ SendJob
           \/ (\E p \in Callers : TakeJob(p))
           \/ UNCHANGED <<jobs>>
<1> DEFINE Same == UNCHANGED <<jobs>>
<1> USE DEF outside, loopVars, storeVars, tokenVars
<1>1. CASE UNCHANGED vars
  BY <1>1 DEF vars
<1>2. ASSUME Tick \/ StartAutoRefresh \/ RebuildRead \/ RebuildInstall \/ LoopWoken PROVE Same
  BY <1>2 DEF Tick, StartAutoRefresh, RebuildRead, RebuildInstall, LoopWoken
<1>3. ASSUME popDue \/ markRefreshPending \/ RereadDue \/ drainDirty \/ upsert PROVE Same
  BY <1>3 DEF popDue, markRefreshPending, RereadDue, drainDirty, upsert
<1>4. ASSUME resetTimer PROVE Same
  BY <1>4 DEF resetTimer
<1>5. ASSUME NEW id \in Ids, handleDueAuth(id) \/ applyDirty(id) PROVE Same
  BY <1>5 DEF handleDueAuth, applyDirty
<1>6. ASSUME NEW p \in Callers,
           refreshAuthForRequest(p) \/ Cancels(p) \/ RefreshAnnounced(p) \/ WorkerRequeue(p)
      PROVE  Same
  BY <1>6 DEF refreshAuthForRequest, Cancels, RefreshCanceled, RefreshAnnounced, WorkerRequeue
<1>7. ASSUME NEW p \in Callers, NEW id \in Ids, RequestRefused(p, id) PROVE Same
  BY <1>7 DEF RequestRefused
<1>8. ASSUME NEW p \in Callers, NEW err \in {"unauthorized", "failed"}, Fails(p, err) PROVE Same
  BY <1>8 DEF Fails, RefreshFails
<1>9. ASSUME NEW p \in Callers, NEW new \in BOOLEAN, RefreshSucceeds(p, new) PROVE Same
  BY <1>9 DEF RefreshSucceeds
<1>10. ASSUME NEW e \in Editors, Writes(e) \/ Register(e) \/ EditAnnounced(e) PROVE Same
  BY <1>10 DEF Writes, Update, ExchangeSucceeds, Register, EditAnnounced
<1>11. ASSUME NEW e \in Editors, queueRefreshUnschedule(e) \/ Loses(e) PROVE Same
  BY <1>11 DEF queueRefreshUnschedule, Loses, ExchangeFails
<1>12. ASSUME NEW e \in Editors, NEW id \in Ids,
           Remove(e, id) \/ resolveTokenForAuth(e, id)
      PROVE  Same
  BY <1>12 DEF Remove, resolveTokenForAuth
<1>13. ASSUME NEW e \in Editors, NEW id \in Ids, NEW upload \in BOOLEAN,
           LookUp(e, id, upload)
      PROVE  Same
  BY <1>13 DEF LookUp
<1> QED
  BY <1>1, <1>2, <1>3, <1>4, <1>5, <1>6, <1>7, <1>8, <1>9, <1>10, <1>11, <1>12, <1>13
     DEF Next, LoopNext, CallNext, EditNext, Cancels, Fails, Writes, Loses

\* The events.
LEMMA EventFrame ==
    ASSUME [Next]_vars
    PROVE  \/ (\E p \in Callers : refreshAuthForRequest(p))
           \/ (\E p \in Callers : RefreshAnnounced(p))
           \/ (\E e \in Editors, id \in Ids, upload \in BOOLEAN : LookUp(e, id, upload))
           \/ (\E e \in Editors : EditAnnounced(e))
           \/ (\E e \in Editors, id \in Ids : resolveTokenForAuth(e, id))
           \/ UNCHANGED <<events>>
<1> DEFINE Same == UNCHANGED <<events>>
<1> USE DEF outside, loopVars, storeVars, tokenVars
<1>1. CASE UNCHANGED vars
  BY <1>1 DEF vars
<1>2. ASSUME Tick \/ StartAutoRefresh \/ RebuildRead \/ RebuildInstall \/ LoopWoken PROVE Same
  BY <1>2 DEF Tick, StartAutoRefresh, RebuildRead, RebuildInstall, LoopWoken
<1>3. ASSUME popDue \/ markRefreshPending \/ RereadDue \/ SendJob \/ drainDirty PROVE Same
  BY <1>3 DEF popDue, markRefreshPending, RereadDue, SendJob, drainDirty
<1>4. ASSUME upsert \/ resetTimer PROVE Same
  BY <1>4 DEF upsert, resetTimer
<1>5. ASSUME NEW id \in Ids, handleDueAuth(id) \/ applyDirty(id) PROVE Same
  BY <1>5 DEF handleDueAuth, applyDirty
<1>6. ASSUME NEW p \in Callers, TakeJob(p) \/ Cancels(p) \/ WorkerRequeue(p) PROVE Same
  BY <1>6 DEF TakeJob, Cancels, RefreshCanceled, WorkerRequeue
<1>7. ASSUME NEW p \in Callers, NEW id \in Ids, RequestRefused(p, id) PROVE Same
  BY <1>7 DEF RequestRefused
<1>8. ASSUME NEW p \in Callers, NEW err \in {"unauthorized", "failed"}, Fails(p, err) PROVE Same
  BY <1>8 DEF Fails, RefreshFails
<1>9. ASSUME NEW p \in Callers, NEW new \in BOOLEAN, RefreshSucceeds(p, new) PROVE Same
  BY <1>9 DEF RefreshSucceeds
<1>10. ASSUME NEW e \in Editors, Writes(e) \/ Register(e) \/ queueRefreshUnschedule(e) PROVE Same
  BY <1>10 DEF Writes, Update, ExchangeSucceeds, Register, queueRefreshUnschedule
<1>11. ASSUME NEW e \in Editors, Loses(e) PROVE Same
  BY <1>11 DEF Loses, ExchangeFails
<1>12. ASSUME NEW e \in Editors, NEW id \in Ids, Remove(e, id) PROVE Same
  BY <1>12 DEF Remove
<1> QED
  BY <1>1, <1>2, <1>3, <1>4, <1>5, <1>6, <1>7, <1>8, <1>9, <1>10, <1>11, <1>12
     DEF Next, LoopNext, CallNext, EditNext, Cancels, Fails, Writes, Loses

\* The clock.
LEMMA ClockFrame ==
    ASSUME [Next]_vars
    PROVE  \/ Tick
           \/ UNCHANGED <<now>>
<1> DEFINE Same == UNCHANGED <<now>>
<1> USE DEF outside, loopVars, storeVars, tokenVars
<1>1. CASE UNCHANGED vars
  BY <1>1 DEF vars
<1>2. ASSUME StartAutoRefresh \/ RebuildRead \/ RebuildInstall \/ LoopWoken \/ popDue PROVE Same
  BY <1>2 DEF StartAutoRefresh, RebuildRead, RebuildInstall, LoopWoken, popDue
<1>3. ASSUME markRefreshPending \/ RereadDue \/ SendJob \/ drainDirty \/ upsert PROVE Same
  BY <1>3 DEF markRefreshPending, RereadDue, SendJob, drainDirty, upsert
<1>4. ASSUME resetTimer PROVE Same
  BY <1>4 DEF resetTimer
<1>5. ASSUME NEW id \in Ids, handleDueAuth(id) \/ applyDirty(id) PROVE Same
  BY <1>5 DEF handleDueAuth, applyDirty
<1>6. ASSUME NEW p \in Callers,
           \/ TakeJob(p) \/ refreshAuthForRequest(p) \/ Cancels(p)
           \/ RefreshAnnounced(p) \/ WorkerRequeue(p)
      PROVE  Same
  BY <1>6 DEF TakeJob, refreshAuthForRequest, Cancels, RefreshCanceled, RefreshAnnounced,
     WorkerRequeue
<1>7. ASSUME NEW p \in Callers, NEW id \in Ids, RequestRefused(p, id) PROVE Same
  BY <1>7 DEF RequestRefused
<1>8. ASSUME NEW p \in Callers, NEW err \in {"unauthorized", "failed"}, Fails(p, err) PROVE Same
  BY <1>8 DEF Fails, RefreshFails
<1>9. ASSUME NEW p \in Callers, NEW new \in BOOLEAN, RefreshSucceeds(p, new) PROVE Same
  BY <1>9 DEF RefreshSucceeds
<1>10. ASSUME NEW e \in Editors, Writes(e) \/ Register(e) \/ EditAnnounced(e) PROVE Same
  BY <1>10 DEF Writes, Update, ExchangeSucceeds, Register, EditAnnounced
<1>11. ASSUME NEW e \in Editors, queueRefreshUnschedule(e) \/ Loses(e) PROVE Same
  BY <1>11 DEF queueRefreshUnschedule, Loses, ExchangeFails
<1>12. ASSUME NEW e \in Editors, NEW id \in Ids,
           Remove(e, id) \/ resolveTokenForAuth(e, id)
      PROVE  Same
  BY <1>12 DEF Remove, resolveTokenForAuth
<1>13. ASSUME NEW e \in Editors, NEW id \in Ids, NEW upload \in BOOLEAN,
           LookUp(e, id, upload)
      PROVE  Same
  BY <1>13 DEF LookUp
<1> QED
  BY <1>1, <1>2, <1>3, <1>4, <1>5, <1>6, <1>7, <1>8, <1>9, <1>10, <1>11, <1>12, <1>13
     DEF Next, LoopNext, CallNext, EditNext, Cancels, Fails, Writes, Loses

(***************************************************************************)
(* The types.                                                              *)
(***************************************************************************)
LEMMA RemoveEffect ==
    ASSUME AuthType, NEW e \in Editors, NEW id \in Ids, Remove(e, id)
    PROVE  /\ auths' = [auths EXCEPT ![id] = NoAuth] /\ UNCHANGED <<noted, owner>>
           /\ authEpochs' = [authEpochs EXCEPT ![id] = @ + 1]
           /\ edit' = [edit EXCEPT ![e] = [pc |-> "unschedule", id |-> id]]
BY DEF Remove, tokenVars

\* The manager's credentials after each of the steps that write one.
LEMMA AuthsType ==
    ASSUME AuthType, CallType, EditType, LoopType, OwnInv, [Next]_vars
    PROVE  auths' \in [Ids -> AuthRec \cup {NoAuth}]
<1> USE DEF Touched, Rewritten
<1>1. CASE markRefreshPending
  BY <1>1, MarkEffect DEF AuthType
<1>2. ASSUME NEW p \in Callers, NEW err \in {"unauthorized", "failed"}, Fails(p, err)
      PROVE  auths' \in [Ids -> AuthRec \cup {NoAuth}]
  BY <1>2, FailsEffect DEF AuthType
<1>3. ASSUME NEW p \in Callers, NEW new \in BOOLEAN, RefreshSucceeds(p, new)
      PROVE  auths' \in [Ids -> AuthRec \cup {NoAuth}]
  BY <1>3, SucceedsEffect DEF AuthType
<1>4. ASSUME NEW e \in Editors, Writes(e) PROVE auths' \in [Ids -> AuthRec \cup {NoAuth}]
  BY <1>4, WriteEffect DEF AuthType, Refused, Replaces, Restores
<1>5. ASSUME NEW e \in Editors, Register(e) PROVE auths' \in [Ids -> AuthRec \cup {NoAuth}]
  BY <1>5, RegisterEffect DEF AuthType
<1>6. ASSUME NEW e \in Editors, NEW id \in Ids, Remove(e, id)
      PROVE  auths' \in [Ids -> AuthRec \cup {NoAuth}]
  BY <1>6, RemoveEffect DEF AuthType
<1>7. CASE UNCHANGED auths
  BY <1>7 DEF AuthType
<1> QED
  BY <1>1, <1>2, <1>3, <1>4, <1>5, <1>6, <1>7, AuthFrame

\* Registrations and tokens are only added.
Grown(id) ==
    /\ authEpochs'[id] \in Nat \ {0} /\ authEpochs'[id] >= authEpochs[id]
    /\ owner'[id] \in Seq(Nat) /\ Len(owner'[id]) >= Len(owner[id])
    /\ \A n \in 1..Len(owner[id]) : owner'[id][n] = owner[id][n]

\* What an action makes of the registrations and the tokens.
LEMMA SucceedsOwner ==
    ASSUME AuthType, CallType, NEW p \in Callers, NEW new \in BOOLEAN, RefreshSucceeds(p, new)
    PROVE  /\ call[p].pc = "calling" /\ call[p].id \in Ids /\ call[p].base \in AuthRec
           /\ UNCHANGED <<authEpochs, noted, edit, restored, loose, storeVars>>
           /\ new => /\ owner' = [owner EXCEPT ![call[p].id] = Append(@, call[p].base.epoch)]
                     /\ spent' = [spent EXCEPT ![call[p].id] = @ \cup {call[p].base.token}]
           /\ ~new => UNCHANGED <<owner, spent>>
BY CallKinds DEF RefreshSucceeds, CallType

\* Marks, failures and edits leave the other side's histories alone.
LEMMA OthersOwner ==
    /\ markRefreshPending => UNCHANGED <<authEpochs, noted, owner, call, edit>>
    /\ \A p \in Callers : \A err :
          Fails(p, err) => UNCHANGED <<authEpochs, noted, owner, edit>>
    /\ \A e \in Editors : Writes(e) => UNCHANGED <<authEpochs, call>>
    /\ \A e \in Editors : Register(e) => UNCHANGED <<call, spent, restored, loose>>
BY DEF markRefreshPending, Fails, RefreshFails, Writes, Update, ExchangeSucceeds, Register, tokenVars

\* Appending keeps what a sequence of numbers held.
LEMMA AppendGrows ==
    ASSUME NEW s \in Seq(Nat), NEW n \in Nat
    PROVE  /\ Append(s, n) \in Seq(Nat) /\ Len(Append(s, n)) = Len(s) + 1
           /\ \A i \in 1..Len(s) : Append(s, n)[i] = s[i]
           /\ Append(s, n)[Len(s) + 1] = n
OBVIOUS

\* A token never changes its registration.
LEMMA OwnersGrow ==
    ASSUME AuthType, CallType, EditType, OwnInv, [Next]_vars
    PROVE  \A id \in Ids : Grown(id)
<1> SUFFICES ASSUME NEW id \in Ids PROVE Grown(id)
  OBVIOUS
<1>1. /\ authEpochs[id] \in Nat \ {0} /\ owner[id] \in Seq(Nat) /\ Len(owner[id]) \in Nat
  BY DEF AuthType
<1>2. CASE UNCHANGED <<authEpochs, owner>>
  BY <1>1, <1>2 DEF Grown
<1>3. ASSUME NEW n \in Nat, owner'[id] = Append(owner[id], n),
             authEpochs'[id] \in {authEpochs[id], authEpochs[id] + 1}
      PROVE  Grown(id)
  BY <1>1, <1>3, AppendGrows DEF Grown
<1>4. ASSUME NEW p \in Callers, NEW new \in BOOLEAN, RefreshSucceeds(p, new)
      PROVE  Grown(id)
  <2>1. CASE ~new
    BY <1>2, <1>4, <2>1, SucceedsOwner
  <2>2. CASE new
    <3>1. call[p].base.epoch \in Nat
      BY <1>4, SucceedsOwner DEF AuthRec
    <3>2. UNCHANGED authEpochs /\ owner' = [owner EXCEPT ![call[p].id] = Append(@, call[p].base.epoch)]
      BY <1>4, <2>2, SucceedsOwner
    <3> QED
      BY <1>1, <1>3, <3>1, <3>2 DEF AuthType, Grown
  <2> QED
    BY <2>1, <2>2
<1>5. ASSUME NEW e \in Editors, Writes(e) PROVE Grown(id)
  <2>1. UNCHANGED authEpochs
    BY <1>5, OthersOwner
  <2>2. CASE UNCHANGED owner
    BY <1>2, <2>1, <2>2
  <2>3. CASE Replaces(e, edit[e].id) /\ edit[e].id \in Ids
    <3>1. auths[edit[e].id].epoch \in Nat
      BY <2>3 DEF Replaces, Rewritten, AuthRec
    <3> QED
      BY <1>1, <1>3, <2>1, <2>3, <3>1 DEF AuthType, Grown, Replaces
  <2> QED
    BY <1>5, <2>2, <2>3, WriteEffect DEF Refused, Restores
<1>6. ASSUME NEW e \in Editors, Register(e) PROVE Grown(id)
  <2>1. /\ edit[e].id \in Ids /\ authEpochs' = [authEpochs EXCEPT ![edit[e].id] = @ + 1]
        /\ owner' = [owner EXCEPT ![edit[e].id] = Append(@, authEpochs[edit[e].id] + 1)]
    BY <1>6, RegisterEffect
  <2>2. authEpochs[edit[e].id] + 1 \in Nat
    BY <2>1 DEF AuthType
  <2>3. CASE id = edit[e].id
    BY <1>1, <1>3, <2>1, <2>2, <2>3 DEF AuthType
  <2>4. CASE id # edit[e].id
    BY <1>1, <2>1, <2>4 DEF AuthType, Grown
  <2> QED
    BY <2>3, <2>4
<1>7. ASSUME NEW e \in Editors, NEW i \in Ids, Remove(e, i) PROVE Grown(id)
  BY <1>1, <1>7, RemoveEffect DEF AuthType, Grown
<1> QED
  BY <1>2, <1>4, <1>5, <1>6, <1>7, AuthFrame, OthersOwner

\* Every token belongs to a numbered registration.
LEMMA OwnerType ==
    ASSUME AuthType, CallType, EditType, OwnInv, [Next]_vars
    PROVE  owner' \in [Ids -> Seq(Nat)]
<1>1. ASSUME NEW i \in Ids, NEW n \in Nat, owner' = [owner EXCEPT ![i] = Append(@, n)]
      PROVE  owner' \in [Ids -> Seq(Nat)]
  <2>1. Append(owner[i], n) \in Seq(Nat)
    BY AppendGrows DEF AuthType
  <2> QED
    BY <1>1, <2>1 DEF AuthType
<1>2. CASE UNCHANGED owner
  BY <1>2 DEF AuthType
<1>3. ASSUME NEW p \in Callers, NEW new \in BOOLEAN, RefreshSucceeds(p, new)
      PROVE  owner' \in [Ids -> Seq(Nat)]
  <2>1. CASE new
    <3>1. call[p].base.epoch \in Nat
      BY <1>3, SucceedsOwner DEF AuthRec
    <3>2. /\ call[p].id \in Ids
          /\ owner' = [owner EXCEPT ![call[p].id] = Append(@, call[p].base.epoch)]
      BY <1>3, <2>1, SucceedsOwner
    <3> QED
      BY <1>1, <3>1, <3>2
  <2> QED
    BY <1>2, <1>3, <2>1, SucceedsOwner
<1>4. ASSUME NEW e \in Editors, Writes(e) PROVE owner' \in [Ids -> Seq(Nat)]
  <2>1. CASE Replaces(e, edit[e].id) /\ edit[e].id \in Ids
    <3>1. auths[edit[e].id].epoch \in Nat
      BY <2>1 DEF Replaces, Rewritten, AuthRec
    <3> QED
      BY <1>1, <2>1, <3>1 DEF Replaces
  <2> QED
    BY <1>2, <1>4, <2>1, WriteEffect DEF Refused, Restores
<1>5. ASSUME NEW e \in Editors, Register(e) PROVE owner' \in [Ids -> Seq(Nat)]
  <2>1. /\ edit[e].id \in Ids
        /\ owner' = [owner EXCEPT ![edit[e].id] = Append(@, authEpochs[edit[e].id] + 1)]
    BY <1>5, RegisterEffect
  <2>2. authEpochs[edit[e].id] + 1 \in Nat
    BY <2>1 DEF AuthType
  <2> QED
    BY <1>1, <2>1, <2>2
<1>6. ASSUME NEW e \in Editors, NEW i \in Ids, Remove(e, i) PROVE owner' \in [Ids -> Seq(Nat)]
  BY <1>2, <1>6, RemoveEffect
<1> QED
  BY <1>2, <1>3, <1>4, <1>5, <1>6, AuthFrame, OthersOwner

\* Registrations are numbered from 1.
LEMMA EpochType ==
    ASSUME AuthType, CallType, EditType, [Next]_vars
    PROVE  authEpochs' \in [Ids -> Nat \ {0}]
<1>1. ASSUME NEW i \in Ids, authEpochs' = [authEpochs EXCEPT ![i] = @ + 1]
      PROVE  authEpochs' \in [Ids -> Nat \ {0}]
  <2>1. authEpochs[i] + 1 \in Nat \ {0}
    BY DEF AuthType
  <2> QED
    BY <1>1, <2>1 DEF AuthType
<1>2. CASE UNCHANGED authEpochs
  BY <1>2 DEF AuthType
<1>3. ASSUME NEW e \in Editors, Register(e) PROVE authEpochs' \in [Ids -> Nat \ {0}]
  BY <1>1, <1>3, RegisterEffect
<1> QED
  BY <1>1, <1>2, <1>3, AuthFrame, OthersOwner, SucceedsOwner, RemoveEffect

\* The last note of an edit is a number.
LEMMA NotedType ==
    ASSUME AuthType, CallType, EditType, LoopType, OwnInv, [Next]_vars
    PROVE  noted' \in [Ids -> Nat]
<1>1. ASSUME NEW e \in Editors, NEW id \in Ids, Kept(e, id), auths'[id] \in AuthRec
      PROVE  noted' \in [Ids -> Nat]
  <2>1. auths'[id].note \in Nat
    BY <1>1 DEF AuthRec
  <2> QED
    BY <1>1, <2>1 DEF AuthType, Kept
<1>2. CASE UNCHANGED noted
  BY <1>2 DEF AuthType
<1>3. ASSUME NEW e \in Editors, Register(e) PROVE noted' \in [Ids -> Nat]
  BY <1>1, <1>3, RegisterEffect
<1>4. ASSUME NEW e \in Editors, Writes(e) PROVE noted' \in [Ids -> Nat]
  BY <1>1, <1>2, <1>4, WriteEffect DEF Rewritten, Refused, Replaces, Restores
<1> QED
  BY <1>2, <1>3, <1>4, AuthFrame, OthersOwner, SucceedsOwner, RemoveEffect

\* The clock stays in its bound and never goes back.
LEMMA ClockStep ==
    ASSUME AuthType, [Next]_vars
    PROVE  now' \in 1..MaxTime /\ now' >= now
<1>1. now \in Nat /\ now >= 1 /\ now <= MaxTime /\ MaxTime \in Nat
  BY Clock, RefreshAssumption
<1>2. CASE Tick
  BY <1>1, <1>2 DEF Tick
<1>3. CASE UNCHANGED now
  BY <1>1, <1>3
<1> QED
  BY <1>2, <1>3, ClockFrame

\* The outside events are counted.
LEMMA EventType ==
    ASSUME AuthType, [Next]_vars
    PROVE  events' \in Nat
<1>1. events \in Nat
  BY DEF AuthType
<1>2. CASE events' \in {events, events + 1}
  BY <1>1, <1>2
<1>3. ASSUME NEW p \in Callers, refreshAuthForRequest(p) PROVE events' \in {events, events + 1}
  BY <1>3 DEF refreshAuthForRequest
<1>4. ASSUME NEW p \in Callers, RefreshAnnounced(p) PROVE events' \in {events, events + 1}
  BY <1>4 DEF RefreshAnnounced, persist
<1>5. ASSUME NEW e \in Editors, EditAnnounced(e) PROVE events' \in {events, events + 1}
  BY <1>5 DEF EditAnnounced, persist
<1>6. ASSUME NEW e \in Editors, NEW id \in Ids, NEW upload \in BOOLEAN, LookUp(e, id, upload)
      PROVE  events' \in {events, events + 1}
  BY <1>6 DEF LookUp
<1>7. ASSUME NEW e \in Editors, NEW id \in Ids, resolveTokenForAuth(e, id)
      PROVE  events' \in {events, events + 1}
  BY <1>7 DEF resolveTokenForAuth
<1> QED
  BY <1>2, <1>3, <1>4, <1>5, <1>6, <1>7, EventFrame

\* Every step keeps the types of the manager's part.
LEMMA AuthTypeStep ==
    ASSUME AuthType, CallType, EditType, LoopType, OwnInv, [Next]_vars
    PROVE  AuthType'
BY AuthsType, OwnerType, EpochType, NotedType, ClockStep, EventType DEF AuthType

\* A caller, and an editor, after its step.
LEMMA CallTypeStep ==
    ASSUME AuthType, CallType, EditType, LoopType, OwnInv, [Next]_vars
    PROVE  CallType'
<1>1. ASSUME NEW p \in Callers, NEW c \in Calls, call' = [call EXCEPT ![p] = c] PROVE CallType'
  BY <1>1 DEF CallType
<1>2. ASSUME NEW p \in Callers, Return(p), call[p].id \in Ids PROVE CallType'
  <2>1. [pc |-> "again", id |-> call[p].id] \in Calls /\ Idle \in Calls
    BY <1>2 DEF Calls
  <2> QED
    BY <1>1, <1>2, <2>1 DEF Return
<1>3. ASSUME NEW p \in Callers, TakeJob(p) PROVE CallType'
  <2>1. Head(jobs) \in Ids
    BY <1>3 DEF TakeJob, LoopType
  <2>2. [pc |-> "enter", id |-> Head(jobs), failed |-> 0] \in Calls
    BY <2>1 DEF Calls
  <2> QED
    BY <1>1, <1>3, <2>2 DEF TakeJob
<1>4. ASSUME NEW p \in Callers, refreshAuthForRequest(p) PROVE CallType'
  <2>1. call[p].id \in Ids
    BY <1>4, CallKinds DEF refreshAuthForRequest, CallType
  <2>2. CASE Return(p)
    BY <1>2, <2>1, <2>2
  <2>3. CASE /\ Present(call[p].id)
             /\ call' = [call EXCEPT ![p] = [pc |-> "calling", id |-> call[p].id,
                                             base |-> Clone(call[p].id)]]
    <3>1. Clone(call[p].id) \in AuthRec
      BY <2>1, <2>3, CloneRec
    <3>2. [pc |-> "calling", id |-> call[p].id, base |-> Clone(call[p].id)] \in Calls
      BY <2>1, <3>1 DEF Calls
    <3> QED
      BY <1>1, <2>3, <3>2
  <2> QED
    BY <1>4, <2>2, <2>3 DEF refreshAuthForRequest
<1>5. ASSUME NEW p \in Callers, Cancels(p) \/ RefreshAnnounced(p) PROVE CallType'
  BY <1>2, <1>5, CallKinds DEF Cancels, RefreshCanceled, RefreshAnnounced, CallType
<1>6. ASSUME NEW p \in Callers, WorkerRequeue(p) PROVE CallType'
  BY <1>1, <1>6 DEF WorkerRequeue, Calls
<1>7. ASSUME NEW p \in Callers, NEW id \in Ids, RequestRefused(p, id) PROVE CallType'
  <2>1. auths[id].token \in Nat
    BY <1>7, PresentRec DEF RequestRefused, AuthRec
  <2>2. [pc |-> "enter", id |-> id, failed |-> auths[id].token] \in Calls
    BY <2>1 DEF Calls
  <2> QED
    BY <1>1, <1>7, <2>2 DEF RequestRefused
<1>8. ASSUME NEW p \in Callers, NEW err \in {"unauthorized", "failed"}, Fails(p, err)
      PROVE  CallType'
  <2>1. call[p].id \in Ids
    BY <1>8, CallKinds DEF Fails, RefreshFails, CallType
  <2>2. [pc |-> "announce", id |-> call[p].id, saved |-> NoAuth] \in Calls
    BY <2>1 DEF Calls
  <2> QED
    BY <1>1, <1>2, <1>8, <2>1, <2>2, FailsEffect
<1>9. ASSUME NEW p \in Callers, NEW new \in BOOLEAN, RefreshSucceeds(p, new) PROVE CallType'
  <2>1. call[p].id \in Ids
    BY <1>9, SucceedsOwner
  <2>2. CASE Return(p)
    BY <1>2, <2>1, <2>2
  <2>3. CASE /\ Rewritten(call[p].id)
             /\ call' = [call EXCEPT ![p] = [pc |-> "announce", id |-> call[p].id,
                                             saved |-> Saving(auths'[call[p].id])]]
    <3>1. Saving(auths'[call[p].id]) \in SavedRec
      BY <2>3, SavingRec DEF Rewritten
    <3>2. [pc |-> "announce", id |-> call[p].id, saved |-> Saving(auths'[call[p].id])] \in Calls
      BY <2>1, <3>1 DEF Calls
    <3> QED
      BY <1>1, <2>3, <3>2
  <2> QED
    BY <1>9, <2>2, <2>3, SucceedsEffect
<1>10. CASE UNCHANGED call
  BY <1>10 DEF CallType
<1> QED
  BY <1>3, <1>4, <1>5, <1>6, <1>7, <1>8, <1>9, <1>10, CallFrame

\* An edit that is being announced carries what was registered.
LEMMA KeptEdit ==
    ASSUME EditType, NEW e \in Editors, NEW id \in Ids, Kept(e, id), auths'[id] \in AuthRec
    PROVE  EditType'
<1>1. Saving(auths'[id]) \in SavedRec
  BY SavingRec
<1>2. [pc |-> "announce", id |-> id, saved |-> Saving(auths'[id])] \in Edits
  BY <1>1 DEF Edits
<1> QED
  BY <1>2 DEF Kept, EditType

\* Every step keeps the types of the editors.
LEMMA EditTypeStep ==
    ASSUME AuthType, EditType, OwnInv, [Next]_vars
    PROVE  EditType'
<1>1. ASSUME NEW e \in Editors, NEW c \in Edits, edit' = [edit EXCEPT ![e] = c] PROVE EditType'
  BY <1>1 DEF EditType
<1>2. Idle \in Edits
  BY DEF Edits
<1>3. ASSUME NEW e \in Editors, Writes(e) PROVE EditType'
  BY <1>1, <1>2, <1>3, WriteEffect, KeptEdit DEF Rewritten, Refused, Replaces, Restores
<1>4. ASSUME NEW e \in Editors, Register(e) PROVE EditType'
  BY <1>4, RegisterEffect, KeptEdit
<1>5. ASSUME NEW e \in Editors, EditAnnounced(e) \/ queueRefreshUnschedule(e) PROVE EditType'
  BY <1>1, <1>2, <1>5 DEF EditAnnounced, queueRefreshUnschedule
<1>6. ASSUME NEW e \in Editors, NEW id \in Ids, Remove(e, id) PROVE EditType'
  BY <1>1, <1>6 DEF Remove, Edits
<1>7. ASSUME NEW e \in Editors, NEW id \in Ids, NEW upload \in BOOLEAN, LookUp(e, id, upload)
      PROVE  EditType'
  <2> DEFINE read == [Clone(id) EXCEPT !.note = events + 1]
  <2>1. events + 1 \in Nat
    BY DEF AuthType
  <2>2. CASE Present(id) /\ edit' = [edit EXCEPT ![e] =
                                        [pc |-> "update", id |-> id, upload |-> upload, read |-> read]]
    <3>1. read \in AuthRec
      BY <2>1, <2>2, CloneRec DEF AuthRec
    <3> HIDE DEF read
    <3>2. [pc |-> "update", id |-> id, upload |-> upload, read |-> read] \in Edits
      BY <3>1 DEF Edits
    <3> QED
      BY <1>1, <2>2, <3>2
  <2>3. CASE edit' = [edit EXCEPT ![e] = [pc |-> "register", id |-> id, note |-> events + 1]]
    BY <1>1, <2>1, <2>3 DEF Edits
  <2> QED
    BY <1>7, <2>2, <2>3 DEF LookUp
<1>8. ASSUME NEW e \in Editors, NEW id \in Ids, resolveTokenForAuth(e, id) PROVE EditType'
  <2>1. Clone(id) \in AuthRec
    BY <1>8, CloneRec DEF resolveTokenForAuth
  <2>2. [pc |-> "exchange", id |-> id, read |-> Clone(id)] \in Edits
    BY <2>1 DEF Edits
  <2> QED
    BY <1>1, <1>8, <2>2 DEF resolveTokenForAuth
<1>9. ASSUME NEW e \in Editors, Loses(e) PROVE EditType'
  BY <1>1, <1>2, <1>9 DEF Loses, ExchangeFails
<1>10. CASE UNCHANGED edit
  BY <1>10 DEF EditType
<1> QED
  BY <1>3, <1>4, <1>5, <1>6, <1>7, <1>8, <1>9, <1>10, EditFrame

\* What is persisted.
LEMMA PersistType ==
    ASSUME StoreType, NEW id \in Ids, NEW s \in SavedRec, persist(id, s)
    PROVE  StoreType'
<1>1. <<s.epoch, s.gen>> \in Nat \X Nat /\ <<s.token, s.note>> \in Nat \X Nat
  BY DEF SavedRec
<1>2. CASE UNCHANGED storeVars
  BY <1>2 DEF StoreType, storeVars
<1>3. CASE /\ watermark' = [watermark EXCEPT ![id] = <<s.epoch, s.gen>>]
           /\ store' = [store EXCEPT ![id] = <<s.token, s.note>>]
           /\ unsaved' = unsaved \ {id}
  BY <1>1, <1>3 DEF StoreType
<1>4. CASE /\ watermark' = [watermark EXCEPT ![id] = <<s.epoch, s.gen>>]
           /\ UNCHANGED store /\ unsaved' = unsaved \cup {id}
  BY <1>1, <1>4 DEF StoreType
<1> QED
  BY <1>2, <1>3, <1>4 DEF persist

\* Every step keeps the types of the store.
LEMMA StoreTypeStep ==
    ASSUME CallType, EditType, StoreType, [Next]_vars
    PROVE  StoreType'
<1>1. CASE UNCHANGED storeVars
  BY <1>1 DEF StoreType, storeVars
<1>2. ASSUME NEW p \in Callers, RefreshAnnounced(p) PROVE StoreType'
  <2>1. call[p].id \in Ids /\ call[p].saved \in SavedRec \cup {NoAuth}
    BY <1>2, CallKinds DEF RefreshAnnounced, CallType
  <2> QED
    BY <1>1, <1>2, <2>1, PersistType DEF RefreshAnnounced
<1>3. ASSUME NEW e \in Editors, EditAnnounced(e) PROVE StoreType'
  <2>1. edit[e].id \in Ids /\ edit[e].saved \in SavedRec
    BY <1>3, EditKinds DEF EditAnnounced, EditType
  <2> QED
    BY <1>3, <2>1, PersistType DEF EditAnnounced
<1> QED
  BY <1>1, <1>2, <1>3, StoreFrame

\* The next look is a time.
LEMMA CheckNat ==
    ASSUME AuthType, NEW id \in Ids, NEW t \in Nat
    PROVE  nextRefreshCheckAt(t, auths[id]) \in Nat
<1>1. CASE ~Present(id)
  BY <1>1, CheckAtNone DEF Present
<1>2. CASE Present(id)
  <2>1. auths[id] \in AuthRec
    BY <1>2, PresentRec
  <2>2. auths[id].nra \in Nat /\ auths[id].due \in Nat
    BY <2>1 DEF AuthRec
  <2> QED
    BY <2>1, <2>2, CheckAt
<1> QED
  BY <1>1, <1>2

\* The loop returns to the phase it came from.
LEMMA BackType ==
    ASSUME LoopType, loop.pc \in {"send", "put"}
    PROVE  /\ Back \in Loops /\ Back.pc \in {"due", "dirty"}
           /\ Back.seen = loop.seen /\ Back.todo = loop.todo
BY LoopKinds DEF Back, Loops

\* The loop takes a credential in hand.
LEMMA InHandType ==
    ASSUME LoopType, NEW id \in Ids, NEW next \in Nat, loop.pc \in {"due", "dirty"},
           NEW pc \in {"mark", "put"}
    PROVE  InHand(pc, id, next) \in Loops /\ InHand(pc, id, next).seen = loop.seen
BY LoopKinds DEF InHand, Loops

\* The loop's place, and its time, which is not ahead of the clock.
LEMMA LoopsStep ==
    ASSUME AuthType, LoopType, [Next]_vars
    PROVE  loop' \in Loops /\ loop'.seen <= now'
<1> DEFINE Goal == loop' \in Loops /\ loop'.seen <= now'
<1>1. now \in Nat /\ now' \in Nat /\ now' >= now /\ now >= 1
  BY ClockStep, Clock
<1>2. /\ loop \in Loops /\ loop.seen \in Nat /\ loop.seen <= now
      /\ loop.todo \subseteq Ids
  BY LoopKinds DEF LoopType
<1>3. ASSUME NEW l \in Loops, l.seen = loop.seen, loop' = l PROVE Goal
  BY <1>1, <1>2, <1>3
<1>4. ASSUME NEW l \in Loops, l.seen = now, loop' = l PROVE Goal
  BY <1>1, <1>4
<1>5. ASSUME StartAutoRefresh PROVE Goal
  BY <1>1, <1>2, <1>5 DEF StartAutoRefresh, Loops
<1>6. ASSUME RebuildRead PROVE Goal
  <2>1. [id \in Ids |-> nextRefreshCheckAt(now, auths[id])] \in [Ids -> Nat]
    BY <1>1, CheckNat
  <2> DEFINE plan == [id \in Ids |-> nextRefreshCheckAt(now, auths[id])]
  <2> HIDE DEF plan
  <2>2. [pc |-> "install", todo |-> {}, seen |-> now, plan |-> plan] \in Loops
    BY <1>1, <2>1 DEF Loops, plan
  <2> QED
    BY <1>4, <1>6, <2>2 DEF RebuildRead, plan
<1>7. ASSUME RebuildInstall PROVE Goal
  BY <1>1, <1>7 DEF RebuildInstall, Loops
<1>8. ASSUME LoopWoken PROVE Goal
  BY <1>1, <1>8 DEF LoopWoken, Loops
<1>9. ASSUME popDue PROVE Goal
  BY <1>1, <1>9 DEF popDue, Loops
<1>10. ASSUME markRefreshPending PROVE Goal
  <2>1. [loop EXCEPT !.pc = "send"] \in Loops /\ [loop EXCEPT !.pc = "reread"] \in Loops
        /\ [loop EXCEPT !.pc = "send"].seen = loop.seen
        /\ [loop EXCEPT !.pc = "reread"].seen = loop.seen
    BY <1>2, <1>10 DEF Loops, markRefreshPending
  <2> QED
    BY <1>3, <1>10, <2>1 DEF markRefreshPending
<1>11. ASSUME RereadDue PROVE Goal
  <2>1. loop.id \in Ids /\ loop.pc = "reread"
    BY <1>11, LoopKinds DEF RereadDue
  <2> DEFINE next == nextRefreshCheckAt(loop.seen, auths[loop.id])
  <2>2. next \in Nat
    BY <1>2, <2>1, CheckNat
  <2> HIDE DEF next
  <2>3. [loop EXCEPT !.pc = "put", !.next = next] \in Loops
        /\ [loop EXCEPT !.pc = "put", !.next = next].seen = loop.seen
    BY <1>2, <2>1, <2>2 DEF Loops
  <2> QED
    BY <1>3, <1>11, <2>3 DEF RereadDue, next
<1>12. ASSUME SendJob \/ upsert PROVE Goal
  BY <1>3, <1>12, BackType DEF SendJob, upsert
<1>13. ASSUME drainDirty PROVE Goal
  BY <1>1, <1>2, <1>13 DEF drainDirty, Loops, LoopType
<1>14. ASSUME resetTimer PROVE Goal
  <2>1. /\ [loop EXCEPT !.pc = "select"] \in Loops
        /\ [loop EXCEPT !.pc = "select"].seen = loop.seen
    BY <1>2, <1>14 DEF resetTimer, Loops
  <2> QED
    BY <1>3, <1>14, <2>1 DEF resetTimer
<1>15. ASSUME NEW id \in Ids, handleDueAuth(id) PROVE Goal
  <2> DEFINE next == nextRefreshCheckAt(loop.seen, auths[id])
             l == [loop EXCEPT !.todo = @ \ {id}]
  <2>1. next \in Nat /\ loop.pc = "due"
    BY <1>2, <1>15, CheckNat DEF handleDueAuth
  <2>2. l \in Loops /\ l.seen = loop.seen
    BY <1>2, <2>1 DEF Loops
  <2>3. loop' = l \/ loop' = InHand("put", id, next) \/ loop' = InHand("mark", id, 0)
    BY <1>15 DEF handleDueAuth
  <2> HIDE DEF next, l
  <2> QED
    BY <1>3, <2>1, <2>2, <2>3, InHandType
<1>16. ASSUME NEW id \in Ids, applyDirty(id) PROVE Goal
  <2>1. nextRefreshCheckAt(loop.seen, auths[id]) \in Nat
    BY <1>2, CheckNat
  <2> QED
    BY <1>3, <1>16, <2>1, InHandType DEF applyDirty
<1>17. ASSUME NEW e \in Editors, queueRefreshUnschedule(e) PROVE Goal
  BY <1>1, <1>2, <1>17 DEF queueRefreshUnschedule
<1>18. ASSUME UNCHANGED <<loop, heap, timer>> PROVE Goal
  BY <1>1, <1>2, <1>18
<1> QED
  BY <1>5, <1>6, <1>7, <1>8, <1>9, <1>10, <1>11, <1>12, <1>13, <1>14, <1>15, <1>16, <1>17,
     <1>18, LoopFrame

\* Every step keeps the types of the heap and the timer.
LEMMA HeapStep ==
    ASSUME AuthType, LoopType, [Next]_vars
    PROVE  heap' \in [Ids -> Nat] /\ timer' \in Nat
<1> DEFINE Goal == heap' \in [Ids -> Nat] /\ timer' \in Nat
<1> USE DEF loopVars
<1>1. heap \in [Ids -> Nat] /\ timer \in Nat
  BY DEF LoopType
<1>2. ASSUME RebuildInstall PROVE Goal
  BY <1>1, <1>2, LoopKinds DEF RebuildInstall
<1>3. ASSUME LoopWoken PROVE Goal
  BY <1>1, <1>3 DEF LoopWoken
<1>4. ASSUME popDue PROVE Goal
  BY <1>1, <1>4 DEF popDue
<1>5. ASSUME upsert PROVE Goal
  BY <1>1, <1>5, LoopKinds DEF upsert
<1>6. ASSUME resetTimer PROVE Goal
  <2> DEFINE queued == {heap[id] : id \in Ids} \ {0}
  <2>1. queued \in SUBSET Nat
    BY <1>1
  <2>2. /\ timer' = (IF queued = {} THEN 0 ELSE now + Max({0, Min(queued) - loop.seen}))
        /\ UNCHANGED heap
    BY <1>6 DEF resetTimer
  <2> HIDE DEF queued
  <2>3. CASE queued # {}
    <3>1. Min(queued) \in Nat /\ loop.seen \in Nat /\ now \in Nat
      BY <2>1, <2>3, MinOfSet, LoopKinds, Clock
    <3>2. Min(queued) - loop.seen \in Int
      BY <3>1
    <3>3. Max({0, Min(queued) - loop.seen}) \in Nat
      BY <3>2, MaxOfZero
    <3> QED
      BY <1>1, <2>2, <2>3, <3>1, <3>3
  <2> QED
    BY <1>1, <2>2, <2>3
<1>7. ASSUME NEW e \in Editors, queueRefreshUnschedule(e) PROVE Goal
  <2>1. edit[e].id \in Ids \/ edit[e].id \notin Ids
    OBVIOUS
  <2> QED
    BY <1>1, <1>7 DEF queueRefreshUnschedule
<1>8. ASSUME \/ StartAutoRefresh \/ RebuildRead \/ RereadDue \/ SendJob \/ drainDirty
      PROVE  Goal
  BY <1>1, <1>8 DEF StartAutoRefresh, RebuildRead, RereadDue, SendJob, drainDirty
<1>9. ASSUME markRefreshPending \/ (\E id \in Ids : handleDueAuth(id) \/ applyDirty(id))
      PROVE  Goal
  BY <1>1, <1>9 DEF markRefreshPending, handleDueAuth, applyDirty
<1>10. ASSUME UNCHANGED <<loop, heap, timer>> PROVE Goal
  BY <1>1, <1>10
<1> QED
  BY <1>2, <1>3, <1>4, <1>5, <1>6, <1>7, <1>8, <1>9, <1>10, LoopFrame

\* Every step keeps the types of the dirty set and the wake-up.
LEMMA DirtyStep ==
    ASSUME CallType, EditType, LoopType, [Next]_vars
    PROVE  dirty' \subseteq Ids /\ wake' \in BOOLEAN
<1> DEFINE Goal == dirty' \subseteq Ids /\ wake' \in BOOLEAN
<1> USE DEF LoopType
<1>1. ASSUME NEW id \in Ids, queueReschedule(id) PROVE Goal
  BY <1>1 DEF queueReschedule
<1>2. ASSUME UNCHANGED <<dirty, wake>> PROVE Goal
  BY <1>2
<1>3. ASSUME NEW id \in Ids, queueRefreshReschedule(id) PROVE Goal
  BY <1>1, <1>2, <1>3 DEF queueRefreshReschedule
<1>4. ASSUME LoopWoken PROVE Goal
  BY <1>4 DEF LoopWoken
<1>5. ASSUME markRefreshPending PROVE Goal
  BY <1>2, <1>3, <1>5, LoopKinds DEF markRefreshPending
<1>6. ASSUME drainDirty PROVE Goal
  BY <1>6 DEF drainDirty
<1>7. ASSUME NEW p \in Callers, RefreshAnnounced(p) PROVE Goal
  BY <1>3, <1>7, CallKinds DEF RefreshAnnounced, CallType
<1>8. ASSUME NEW p \in Callers, WorkerRequeue(p) PROVE Goal
  BY <1>1, <1>8, CallKinds DEF WorkerRequeue, CallType
<1>9. ASSUME NEW e \in Editors, EditAnnounced(e) PROVE Goal
  BY <1>3, <1>9, EditKinds DEF EditAnnounced, EditType
<1>10. ASSUME NEW e \in Editors, queueRefreshUnschedule(e) PROVE Goal
  BY <1>2, <1>10 DEF queueRefreshUnschedule
<1> QED
  BY <1>2, <1>4, <1>5, <1>6, <1>7, <1>8, <1>9, <1>10, DirtyFrame

\* The job channel never holds more than its buffer.
LEMMA JobsStep ==
    ASSUME LoopType, [Next]_vars
    PROVE  jobs' \in Seq(Ids) /\ Len(jobs') <= JobBuffer
<1>1. jobs \in Seq(Ids) /\ Len(jobs) <= JobBuffer /\ JobBuffer \in Nat
  BY RefreshAssumption DEF LoopType
<1>2. ASSUME SendJob PROVE jobs' \in Seq(Ids) /\ Len(jobs') <= JobBuffer
  <2>1. loop.id \in Ids /\ jobs' = Append(jobs, loop.id) /\ Len(jobs) < JobBuffer
    BY <1>2, LoopKinds DEF SendJob
  <2> QED
    BY <1>1, <2>1
<1>3. ASSUME NEW p \in Callers, TakeJob(p) PROVE jobs' \in Seq(Ids) /\ Len(jobs') <= JobBuffer
  BY <1>1, <1>3 DEF TakeJob
<1> QED
  BY <1>1, <1>2, <1>3, JobFrame

\* Every step keeps the types of the loop.
LEMMA LoopTypeStep ==
    ASSUME AuthType, CallType, EditType, LoopType, [Next]_vars
    PROVE  LoopType'
BY LoopsStep, HeapStep, DirtyStep, JobsStep DEF LoopType

(***************************************************************************)
(* Tokens and errors stay with the registration they were issued to, and   *)
(* every write of a credential is one of four kinds.                       *)
(***************************************************************************)
LEMMA IssuedStays ==
    ASSUME AuthType, CallType, EditType, OwnInv, [Next]_vars, NEW id \in Ids, NEW a, Issued(id, a)
    PROVE  Issued(id, a)'
<1>1. Grown(id) /\ authEpochs[id] \in Nat /\ Len(owner[id]) \in Nat
  BY OwnersGrow DEF AuthType
<1> QED
  BY <1>1 DEF Grown, Issued

Stays(id) ==
    auths'[id] = auths[id] /\ authEpochs'[id] = authEpochs[id] /\ noted'[id] = noted[id]

Retouched(id) ==
    /\ Present(id) /\ auths[id] \in AuthRec /\ auths'[id] \in AuthRec
    /\ authEpochs'[id] = authEpochs[id] /\ noted'[id] = noted[id]
    /\ auths'[id].epoch = auths[id].epoch /\ auths'[id].token = auths[id].token
    /\ auths'[id].note = auths[id].note /\ auths'[id].gen > auths[id].gen
    /\ auths'[id].err # "none" => auths'[id].errOf = auths[id].epoch

Renewed(id) ==
    \E a \in AuthRec :
        /\ auths'[id] = a /\ Issued(id, a)' /\ a.epoch = authEpochs'[id]
        /\ noted'[id] = a.note /\ Saving(a) \in Savings(id)'
        /\ \/ authEpochs'[id] = authEpochs[id] /\ Present(id) /\ a.gen > auths[id].gen
           \/ authEpochs'[id] = authEpochs[id] + 1

Removed(id) == auths'[id] = NoAuth /\ authEpochs'[id] = authEpochs[id] + 1

Written(id) == Stays(id) \/ Retouched(id) \/ Renewed(id) \/ Removed(id)

\* What a caller announces is on its way to the store.
LEMMA CallSaves ==
    ASSUME CallType, NEW p \in Callers, NEW id \in Ids, NEW s \in SavedRec,
           call' = [call EXCEPT ![p] = [pc |-> "announce", id |-> id, saved |-> s]]
    PROVE  s \in Savings(id)'
<1>1. call'[p].pc = "announce" /\ call'[p].id = id /\ call'[p].saved = s
  BY DEF CallType
<1> QED
  BY <1>1 DEF Savings

\* What an editor announces is on its way to the store.
LEMMA EditSaves ==
    ASSUME EditType, NEW e \in Editors, NEW id \in Ids, NEW s \in SavedRec,
           edit' = [edit EXCEPT ![e] = [pc |-> "announce", id |-> id, saved |-> s]]
    PROVE  s \in Savings(id)'
<1>1. edit'[e].pc = "announce" /\ edit'[e].id = id /\ edit'[e].saved = s
  BY DEF EditType
<1> QED
  BY <1>1 DEF Savings

\* Every write of a credential is one of the four kinds.
LEMMA AuthsWritten ==
    ASSUME AuthType, CallType, EditType, LoopType, OwnInv, LastNoteStands, [Next]_vars
    PROVE  \A id \in Ids : Written(id)
<1> SUFFICES ASSUME NEW id \in Ids PROVE Written(id)
  OBVIOUS
<1> USE DEF Written
<1>1. ASSUME NEW i \in Ids, Touched(i), UNCHANGED <<authEpochs, noted>> PROVE Written(id)
  <2>1. CASE id = i
    BY <1>1, <2>1 DEF Touched, Retouched
  <2>2. CASE id # i
    BY <1>1, <2>2 DEF Touched, Stays, AuthType
  <2> QED
    BY <2>1, <2>2
<1>2. CASE UNCHANGED <<auths, authEpochs, noted>>
  BY <1>2 DEF Stays
<1>3. CASE markRefreshPending
  BY <1>1, <1>2, <1>3, MarkEffect, OthersOwner
<1>4. ASSUME NEW p \in Callers, NEW err \in {"unauthorized", "failed"}, Fails(p, err)
      PROVE  Written(id)
  BY <1>1, <1>2, <1>4, FailsEffect, OthersOwner
<1>5. ASSUME NEW p \in Callers, NEW new \in BOOLEAN, RefreshSucceeds(p, new) PROVE Written(id)
  <2>1. PICK i \in Ids : i = call[p].id
    BY <1>5, SucceedsOwner
  <2>2. PICK base \in AuthRec : base = call[p].base
    BY <1>5, SucceedsOwner
  <2>3. UNCHANGED <<authEpochs, noted>>
    BY <1>5, SucceedsOwner
  <2>4. CASE UNCHANGED auths
    BY <1>2, <2>3, <2>4
  <2>5. CASE /\ Rewritten(i) /\ auths[i].epoch = base.epoch /\ auths'[i].note = auths[i].note
             /\ auths'[i].token = IF new THEN Len(owner[i]) + 1 ELSE auths[i].token
             /\ call' = [call EXCEPT ![p] = [pc |-> "announce", id |-> i,
                                             saved |-> Saving(auths'[i])]]
    <3>1. CASE id # i
      BY <2>3, <2>5, <3>1 DEF Rewritten, Stays, AuthType
    <3>2. CASE id = i
      <4>1. PICK a \in AuthRec : a = auths'[i]
        BY <2>5 DEF Rewritten
      <4>2. Saving(a) \in Savings(i)'
        BY <2>5, <4>1, CallSaves, SavingRec
      <4>3. Issued(i, auths[i]) /\ auths[i].epoch = authEpochs[i]
        BY <2>5 DEF OwnInv, Rewritten
      <4>4. noted'[i] = a.note
        BY <2>3, <2>5, <4>1 DEF LastNoteStands, Rewritten
      <4>5. /\ a.epoch = auths[i].epoch /\ a.gen > auths[i].gen /\ Present(i)
            /\ a.err # "none" => a.errOf = auths[i].epoch
        BY <2>5, <4>1 DEF Rewritten
      <4>6. CASE new
        <5>1. owner' = [owner EXCEPT ![i] = Append(@, base.epoch)]
          BY <1>5, <2>1, <2>2, <4>6, SucceedsOwner
        <5>2. base.epoch \in Nat /\ owner[i] \in Seq(Nat) /\ Len(owner[i]) \in Nat
          BY DEF AuthRec, AuthType
        <5>3. owner'[i] = Append(owner[i], base.epoch)
          BY <5>1 DEF AuthType
        <5>4. Len(owner'[i]) = Len(owner[i]) + 1 /\ owner'[i][Len(owner[i]) + 1] = base.epoch
          BY <5>2, <5>3, AppendGrows
        <5>5. a.token = Len(owner[i]) + 1 /\ a.epoch = base.epoch
          BY <2>5, <4>1, <4>5, <4>6
        <5>6. a.token \in 1..Len(owner'[i]) /\ owner'[i][a.token] = a.epoch
          BY <5>2, <5>4, <5>5
        <5>7. a.epoch \in 1..authEpochs'[i]
          BY <2>3, <4>3, <4>5 DEF Issued
        <5>8. Issued(i, a)'
          BY <4>5, <5>6, <5>7 DEF Issued
        <5> QED
          BY <2>3, <3>2, <4>1, <4>2, <4>3, <4>4, <4>5, <5>8 DEF Renewed
      <4>7. CASE ~new
        <5>1. a.token = auths[i].token
          BY <2>5, <4>1, <4>7
        <5>2. Issued(i, a)
          BY <4>3, <4>5, <5>1 DEF Issued
        <5>3. Issued(i, a)'
          BY <5>2, IssuedStays
        <5> QED
          BY <2>3, <3>2, <4>1, <4>2, <4>3, <4>4, <4>5, <5>3 DEF Renewed
      <4> QED
        BY <4>6, <4>7
    <3> QED
      BY <3>1, <3>2
  <2> QED
    BY <1>5, <2>1, <2>2, <2>4, <2>5, SucceedsEffect
<1>6. ASSUME NEW e \in Editors, NEW i \in Ids, Kept(e, i), auths'[i] \in AuthRec,
             Issued(i, auths[i])', auths'[i].epoch = authEpochs'[i],
             \/ authEpochs'[i] = authEpochs[i] /\ Present(i) /\ auths'[i].gen > auths[i].gen
             \/ authEpochs'[i] = authEpochs[i] + 1,
             auths' = [auths EXCEPT ![i] = auths'[i]],
             \A j \in Ids \ {i} : authEpochs'[j] = authEpochs[j]
      PROVE  Written(id)
  <2>1. CASE id # i
    BY <1>6, <2>1 DEF Kept, Stays, AuthType
  <2>2. CASE id = i
    <3>1. PICK a \in AuthRec : a = auths'[i]
      BY <1>6
    <3>2. noted'[i] = a.note
      BY <1>6, <3>1 DEF Kept, AuthType
    <3>3. Saving(a) \in Savings(i)'
      BY <1>6, <3>1, EditSaves, SavingRec DEF Kept
    <3>4. Issued(i, a)'
      BY <1>6, <3>1 DEF Issued
    <3> QED
      BY <1>6, <2>2, <3>1, <3>2, <3>3, <3>4 DEF Renewed
  <2> QED
    BY <2>1, <2>2
<1>7. ASSUME NEW e \in Editors, Writes(e) PROVE Written(id)
  <2>1. PICK i \in Ids : i = edit[e].id
    BY <1>7, WriteEffect
  <2>2. UNCHANGED authEpochs
    BY <1>7, OthersOwner
  <2>3. CASE UNCHANGED <<auths, noted>>
    BY <1>2, <2>2, <2>3
  <2>4. CASE Replaces(e, i)
    <3> USE DEF Replaces
    <3>1. Issued(i, auths[i]) /\ auths[i].epoch = authEpochs[i]
      BY <2>4 DEF OwnInv, Rewritten
    <3>2. auths[i].epoch \in Nat /\ owner[i] \in Seq(Nat) /\ Len(owner[i]) \in Nat
      BY <2>4 DEF AuthRec, AuthType, Rewritten
    <3>3. owner'[i] = Append(owner[i], auths[i].epoch)
      BY <2>4 DEF AuthType
    <3>4. Len(owner'[i]) = Len(owner[i]) + 1 /\ owner'[i][Len(owner[i]) + 1] = auths[i].epoch
      BY <3>2, <3>3, AppendGrows
    <3>5. /\ auths'[i].token \in 1..Len(owner'[i])
          /\ owner'[i][auths'[i].token] = auths'[i].epoch
      BY <2>4, <3>2, <3>4 DEF Rewritten
    <3>6. auths'[i].epoch \in 1..authEpochs'[i]
      BY <2>2, <2>4, <3>1 DEF Issued, Rewritten
    <3>7. Issued(i, auths[i])'
      BY <2>4, <3>5, <3>6 DEF Issued, Rewritten
    <3> QED
      BY <1>6, <2>2, <2>4, <3>1, <3>7 DEF Rewritten
  <2>5. CASE Restores(e, i)
    <3> USE DEF Restores
    <3>1. Issued(i, auths[i]) /\ auths[i].epoch = authEpochs[i]
      BY <2>5 DEF OwnInv, Rewritten
    <3>2. Issued(i, edit[e].read)
      BY <1>7, <2>1 DEF OwnInv, Writes, Update, ExchangeSucceeds
    <3>3. Issued(i, auths[i])'
      BY <2>2, <2>5, <3>1, <3>2 DEF Issued, Rewritten
    <3> QED
      BY <1>6, <2>2, <2>5, <3>1, <3>3 DEF Rewritten
  <2> QED
    BY <1>7, <2>1, <2>3, <2>4, <2>5, WriteEffect DEF Refused
<1>8. ASSUME NEW e \in Editors, Register(e) PROVE Written(id)
  <2>1. PICK i \in Ids : i = edit[e].id
    BY <1>8, RegisterEffect
  <2>2. /\ Kept(e, i) /\ auths' = [auths EXCEPT ![i] = auths'[i]] /\ auths'[i] \in AuthRec
        /\ authEpochs' = [authEpochs EXCEPT ![i] = @ + 1]
        /\ owner' = [owner EXCEPT ![i] = Append(@, authEpochs[i] + 1)]
        /\ auths'[i].epoch = authEpochs[i] + 1 /\ auths'[i].err = "none"
        /\ auths'[i].token = Len(owner[i]) + 1 /\ auths'[i].gen = 1
    BY <1>8, <2>1, RegisterEffect
  <2>3. authEpochs[i] \in Nat /\ authEpochs[i] + 1 \in Nat /\ owner[i] \in Seq(Nat)
        /\ Len(owner[i]) \in Nat
    BY DEF AuthType
  <2>4. owner'[i] = Append(owner[i], authEpochs[i] + 1) /\ authEpochs'[i] = authEpochs[i] + 1
    BY <2>2 DEF AuthType
  <2>5. Len(owner'[i]) = Len(owner[i]) + 1 /\ owner'[i][Len(owner[i]) + 1] = authEpochs[i] + 1
    BY <2>3, <2>4, AppendGrows
  <2>6. Issued(i, auths[i])'
    BY <2>2, <2>3, <2>4, <2>5 DEF Issued
  <2>7. \A j \in Ids \ {i} : authEpochs'[j] = authEpochs[j]
    BY <2>2 DEF AuthType
  <2> QED
    BY <1>6, <2>2, <2>4, <2>6, <2>7
<1>9. ASSUME NEW e \in Editors, NEW i \in Ids, Remove(e, i) PROVE Written(id)
  BY <1>9, RemoveEffect DEF Removed, Stays, AuthType
<1> QED
  BY <1>2, <1>3, <1>4, <1>5, <1>7, <1>8, <1>9, AuthFrame

(***************************************************************************)
(* Each caller and each editor after a step.                               *)
(***************************************************************************)
CallKept(p) == call'[p] = call[p]
CallRests(p) == call'[p].pc \in {"idle", "enter", "again"}
CallBegins(p) ==
    /\ refreshAuthForRequest(p) /\ call[p].id \in Ids /\ Present(call[p].id) /\ ~Locked(call[p].id)
    /\ call'[p].pc = "calling" /\ call'[p].id = call[p].id /\ call'[p].base = Clone(call[p].id)
CallEnds(p) ==
    /\ call[p].pc = "calling" /\ call'[p].id = call[p].id /\ call'[p].pc = "announce"
    /\ \/ call'[p].saved = NoAuth
       \/ auths'[call[p].id] \in AuthRec /\ call'[p].saved = Saving(auths'[call[p].id])

\* A caller that returns no longer works on a credential.
LEMMA ReturnRests ==
    ASSUME CallType, NEW p \in Callers, Return(p)
    PROVE  CallRests(p) /\ \A q \in Callers \ {p} : CallKept(q)
BY DEF Return, CallType, CallRests, CallKept, Idle

\* What a step may do to the callers: one of them moves, one stage on.
LEMMA CallStep ==
    ASSUME AuthType, CallType, OwnInv, [Next]_vars
    PROVE  \A p \in Callers :
              /\ CallKept(p) \/ CallRests(p) \/ CallBegins(p) \/ CallEnds(p)
              /\ call[p].pc = "announce" => CallKept(p) \/ RefreshAnnounced(p)
              /\ call[p].pc = "again" => CallKept(p) \/ WorkerRequeue(p)
              /\ ~CallKept(p) => \A q \in Callers \ {p} : CallKept(q)
<1> DEFINE Case(p) == /\ CallKept(p) \/ CallRests(p) \/ CallBegins(p) \/ CallEnds(p)
                      /\ call[p].pc = "announce" => CallKept(p) \/ RefreshAnnounced(p)
                      /\ call[p].pc = "again" => CallKept(p) \/ WorkerRequeue(p)
           Goal == \A p \in Callers : Case(p) /\ (~CallKept(p) => \A q \in Callers \ {p} : CallKept(q))
<1>1. ASSUME NEW p \in Callers, Case(p), \A q \in Callers \ {p} : CallKept(q) PROVE Goal
  BY <1>1
<1>2. CASE UNCHANGED call
  BY <1>2 DEF CallKept
<1> HIDE DEF Goal
<1>3. ASSUME NEW p \in Callers, Return(p), call[p].pc # "again",
             call[p].pc # "announce" \/ RefreshAnnounced(p)
      PROVE  Goal
  BY <1>1, <1>3, ReturnRests
<1>4. ASSUME NEW p \in Callers, TakeJob(p) PROVE Goal
  <2>1. CallRests(p) /\ (\A q \in Callers \ {p} : CallKept(q)) /\ call[p].pc = "idle"
    BY <1>4 DEF TakeJob, CallType, CallRests, CallKept, Idle
  <2> QED
    BY <1>1, <2>1
<1>5. ASSUME NEW p \in Callers, WorkerRequeue(p) PROVE Goal
  <2>1. CallRests(p) /\ (\A q \in Callers \ {p} : CallKept(q)) /\ call[p].pc = "again"
    BY <1>5 DEF WorkerRequeue, CallType, CallRests, CallKept, Idle
  <2> QED
    BY <1>1, <1>5, <2>1
<1>6. ASSUME NEW p \in Callers, NEW id \in Ids, RequestRefused(p, id) PROVE Goal
  <2>1. CallRests(p) /\ (\A q \in Callers \ {p} : CallKept(q)) /\ call[p].pc = "idle"
    BY <1>6 DEF RequestRefused, CallType, CallRests, CallKept, Idle
  <2> QED
    BY <1>1, <2>1
<1>7. ASSUME NEW p \in Callers, Cancels(p) PROVE Goal
  BY <1>3, <1>7 DEF Cancels, RefreshCanceled
<1>8. ASSUME NEW p \in Callers, RefreshAnnounced(p) PROVE Goal
  BY <1>3, <1>8 DEF RefreshAnnounced
<1>9. ASSUME NEW p \in Callers, refreshAuthForRequest(p) PROVE Goal
  <2>1. call[p].id \in Ids /\ call[p].pc = "enter" /\ ~Locked(call[p].id)
    BY <1>9, CallKinds DEF refreshAuthForRequest, CallType
  <2>2. CASE Return(p)
    BY <1>3, <2>1, <2>2
  <2>3. CASE /\ Present(call[p].id)
             /\ call' = [call EXCEPT ![p] = [pc |-> "calling", id |-> call[p].id,
                                             base |-> Clone(call[p].id)]]
    <3>1. CallBegins(p) /\ \A q \in Callers \ {p} : CallKept(q)
      BY <1>9, <2>1, <2>3 DEF CallType, CallBegins, CallKept
    <3> QED
      BY <1>1, <2>1, <3>1
  <2> QED
    BY <1>9, <2>2, <2>3 DEF refreshAuthForRequest
<1>10. ASSUME NEW p \in Callers, NEW s, call[p].pc = "calling",
              call' = [call EXCEPT ![p] = [pc |-> "announce", id |-> call[p].id, saved |-> s]],
              s = NoAuth \/ (auths'[call[p].id] \in AuthRec /\ s = Saving(auths'[call[p].id]))
       PROVE  Goal
  <2>1. /\ call'[p].pc = "announce" /\ call'[p].id = call[p].id /\ call'[p].saved = s
        /\ \A q \in Callers \ {p} : CallKept(q)
    BY <1>10 DEF CallType, CallKept
  <2>2. CallEnds(p)
    BY <1>10, <2>1 DEF CallEnds
  <2> QED
    BY <1>1, <1>10, <2>1, <2>2
<1>11. ASSUME NEW p \in Callers, NEW err \in {"unauthorized", "failed"}, Fails(p, err)
       PROVE  Goal
  <2>1. call[p].pc = "calling"
    BY <1>11 DEF Fails, RefreshFails
  <2> QED
    BY <1>3, <1>10, <1>11, <2>1, FailsEffect
<1>12. ASSUME NEW p \in Callers, NEW new \in BOOLEAN, RefreshSucceeds(p, new) PROVE Goal
  <2>1. call[p].pc = "calling"
    BY <1>12 DEF RefreshSucceeds
  <2> QED
    BY <1>3, <1>10, <1>12, <2>1, SucceedsEffect DEF Rewritten
<1>13. Goal
  BY <1>2, <1>4, <1>5, <1>6, <1>7, <1>8, <1>9, <1>11, <1>12, CallFrame DEF Goal
<1> QED
  BY <1>13 DEF Goal

EditKept(e) == edit'[e] = edit[e]
EditRests(e) == edit'[e].pc \in {"idle", "register", "unschedule"}
EditReads(e) ==
    /\ edit'[e].id \in Ids /\ Present(edit'[e].id)
    /\ \/ /\ edit'[e].pc = "update"
          /\ edit'[e].read = [Clone(edit'[e].id) EXCEPT !.note = events + 1]
       \/ edit'[e].pc = "exchange" /\ edit'[e].read = Clone(edit'[e].id)
EditEnds(e) ==
    /\ edit'[e].pc = "announce" /\ edit'[e].id \in Ids /\ auths'[edit'[e].id] \in AuthRec
    /\ edit'[e].saved = Saving(auths'[edit'[e].id])

\* What a step may do to the editors.
LEMMA EditStep ==
    ASSUME AuthType, EditType, OwnInv, [Next]_vars
    PROVE  \A e \in Editors :
              /\ EditKept(e) \/ EditRests(e) \/ EditReads(e) \/ EditEnds(e)
              /\ edit[e].pc = "announce" => EditKept(e) \/ EditAnnounced(e)
<1> DEFINE Case(e) == /\ EditKept(e) \/ EditRests(e) \/ EditReads(e) \/ EditEnds(e)
                      /\ edit[e].pc = "announce" => EditKept(e) \/ EditAnnounced(e)
           Goal == \A e \in Editors : Case(e)
<1>1. ASSUME NEW e \in Editors, Case(e), \A d \in Editors \ {e} : EditKept(d) PROVE Goal
  BY <1>1
<1>2. CASE UNCHANGED edit
  BY <1>2 DEF EditKept
<1>3. ASSUME NEW e \in Editors, edit' = [edit EXCEPT ![e] = Idle],
             edit[e].pc # "announce" \/ EditAnnounced(e)
      PROVE  Goal
  <2>1. EditRests(e) /\ \A d \in Editors \ {e} : EditKept(d)
    BY <1>3 DEF EditType, EditKept, EditRests, Idle
  <2> QED
    BY <1>1, <1>3, <2>1
<1>4. ASSUME NEW e \in Editors, NEW id \in Ids, Kept(e, id), auths'[id] \in AuthRec,
             edit[e].pc # "announce"
      PROVE  Goal
  <2>1. EditEnds(e) /\ \A d \in Editors \ {e} : EditKept(d)
    <3>1. /\ edit'[e].pc = "announce" /\ edit'[e].id = id /\ edit'[e].saved = Saving(auths'[id])
          /\ \A d \in Editors \ {e} : EditKept(d)
      BY <1>4 DEF Kept, EditType, EditKept
    <3> QED
      BY <1>4, <3>1 DEF EditEnds
  <2> QED
    BY <1>1, <1>4, <2>1
<1> HIDE DEF Goal
<1>5. ASSUME NEW e \in Editors, Writes(e) PROVE Goal
  <2>1. edit[e].pc # "announce"
    BY <1>5 DEF Writes, Update, ExchangeSucceeds
  <2> QED
    BY <1>3, <1>4, <1>5, <2>1, WriteEffect DEF Rewritten, Refused, Replaces, Restores
<1>6. ASSUME NEW e \in Editors, Register(e) PROVE Goal
  <2>1. edit[e].pc # "announce"
    BY <1>6 DEF Register
  <2> QED
    BY <1>4, <1>6, <2>1, RegisterEffect
<1>7. ASSUME NEW e \in Editors, EditAnnounced(e) PROVE Goal
  BY <1>3, <1>7 DEF EditAnnounced
<1>8. ASSUME NEW e \in Editors, queueRefreshUnschedule(e) PROVE Goal
  BY <1>3, <1>8 DEF queueRefreshUnschedule
<1>9. ASSUME NEW e \in Editors, NEW id \in Ids, Remove(e, id) PROVE Goal
  <2>1. /\ EditRests(e) /\ edit[e].pc # "announce"
        /\ \A d \in Editors \ {e} : EditKept(d)
    BY <1>9 DEF EditType, EditKept, EditRests, Remove, Idle
  <2> QED
    BY <1>1, <2>1
<1>10. ASSUME NEW e \in Editors, NEW id \in Ids, NEW upload \in BOOLEAN, LookUp(e, id, upload)
       PROVE  Goal
  <2>1. edit[e].pc # "announce"
    BY <1>10 DEF LookUp, Idle
  <2> DEFINE read == [Clone(id) EXCEPT !.note = events + 1]
  <2>2. CASE /\ Present(id)
             /\ edit' = [edit EXCEPT ![e] = [pc |-> "update", id |-> id, upload |-> upload,
                                             read |-> read]]
    <3> HIDE DEF read
    <3>1. /\ edit'[e].pc = "update" /\ edit'[e].id = id /\ edit'[e].read = read
          /\ \A d \in Editors \ {e} : EditKept(d)
      BY <2>2 DEF EditType, EditKept
    <3>2. EditReads(e)
      BY <2>2, <3>1 DEF EditReads, read
    <3> QED
      BY <1>1, <2>1, <3>1, <3>2
  <2>3. CASE edit' = [edit EXCEPT ![e] = [pc |-> "register", id |-> id, note |-> events + 1]]
    <3>1. EditRests(e) /\ \A d \in Editors \ {e} : EditKept(d)
      BY <2>3 DEF EditRests, EditType, EditKept
    <3> QED
      BY <1>1, <2>1, <3>1
  <2> QED
    BY <1>10, <2>2, <2>3 DEF LookUp
<1>11. ASSUME NEW e \in Editors, NEW id \in Ids, resolveTokenForAuth(e, id) PROVE Goal
  <2>1. /\ edit[e].pc # "announce" /\ Present(id)
        /\ edit' = [edit EXCEPT ![e] = [pc |-> "exchange", id |-> id, read |-> Clone(id)]]
    BY <1>11 DEF resolveTokenForAuth, Idle
  <2>2. /\ edit'[e].pc = "exchange" /\ edit'[e].id = id /\ edit'[e].read = Clone(id)
        /\ \A d \in Editors \ {e} : EditKept(d)
    BY <2>1 DEF EditType, EditKept
  <2>3. EditReads(e)
    BY <2>1, <2>2 DEF EditReads
  <2> QED
    BY <1>1, <2>1, <2>2, <2>3
<1>12. ASSUME NEW e \in Editors, Loses(e) PROVE Goal
  <2>1. edit[e].pc # "announce" /\ edit' = [edit EXCEPT ![e] = Idle]
    BY <1>12 DEF Loses, ExchangeFails
  <2> QED
    BY <1>3, <2>1
<1>13. Goal
  BY <1>2, <1>5, <1>6, <1>7, <1>8, <1>9, <1>10, <1>11, <1>12, EditFrame DEF Goal
<1> QED
  BY <1>13 DEF Goal

(***************************************************************************)
(* Registrations, notes and what is saved.                                 *)
(***************************************************************************)
LEMMA OwnStep ==
    ASSUME AuthType, CallType, EditType, LoopType, OwnInv, LastNoteStands, [Next]_vars
    PROVE  OwnInv'
<1>1. ASSUME NEW id \in Ids, Present(id)'
      PROVE  Issued(id, auths[id])' /\ auths'[id].epoch = authEpochs'[id]
  <2>1. CASE Stays(id)
    <3>1. PICK a : a = auths[id]
      OBVIOUS
    <3>2. Issued(id, a) /\ a.epoch = authEpochs[id]
      BY <1>1, <2>1, <3>1 DEF OwnInv, Stays, Present
    <3>3. Issued(id, a)'
      BY <3>2, IssuedStays
    <3> QED
      BY <2>1, <3>1, <3>2, <3>3 DEF Stays, Issued
  <2>2. CASE Retouched(id)
    <3>1. PICK a \in AuthRec : a = auths'[id]
      BY <2>2 DEF Retouched
    <3>2. Issued(id, auths[id]) /\ auths[id].epoch = authEpochs[id]
      BY <2>2 DEF OwnInv, Retouched
    <3>3. Issued(id, a)
      BY <2>2, <3>1, <3>2 DEF Issued, Retouched
    <3>4. Issued(id, a)'
      BY <3>3, IssuedStays
    <3> QED
      BY <2>2, <3>1, <3>2, <3>4 DEF Retouched, Issued
  <2>3. CASE Renewed(id)
    BY <2>3 DEF Renewed, Issued
  <2>4. CASE Removed(id)
    BY <1>1, <2>4 DEF Removed, Present
  <2> QED
    BY <2>1, <2>2, <2>3, <2>4, AuthsWritten DEF Written
<1>2. ASSUME NEW p \in Callers, call'[p].pc = "calling" PROVE Issued(call[p].id, call[p].base)'
  <2>1. \E id \in Ids : \E a \in AuthRec : call'[p].id = id /\ call'[p].base = a /\ Issued(id, a)
    <3>1. CASE CallKept(p)
      BY <1>2, <3>1, CallKinds DEF CallKept, OwnInv, CallType
    <3>2. CASE CallBegins(p)
      BY <3>2, CloneRec DEF CallBegins
    <3> QED
      BY <1>2, <3>1, <3>2, CallStep DEF CallRests, CallEnds
  <2>2. PICK id \in Ids, a \in AuthRec : call'[p].id = id /\ call'[p].base = a /\ Issued(id, a)
    BY <2>1
  <2>3. Issued(id, a)'
    BY <2>2, IssuedStays
  <2> QED
    BY <2>2, <2>3 DEF Issued
<1>3. ASSUME NEW e \in Editors, edit'[e].pc \in {"update", "exchange"}
      PROVE  Issued(edit[e].id, edit[e].read)'
  <2>1. \E id \in Ids : \E a \in AuthRec : edit'[e].id = id /\ edit'[e].read = a /\ Issued(id, a)
    <3>1. CASE EditKept(e)
      BY <1>3, <3>1, EditKinds DEF EditKept, OwnInv, EditType
    <3>2. CASE EditReads(e)
      <4>1. PICK id \in Ids : id = edit'[e].id
        BY <3>2 DEF EditReads
      <4>2. /\ Present(id)
            /\ edit'[e].read \in {Clone(id), [Clone(id) EXCEPT !.note = events + 1]}
        BY <3>2, <4>1 DEF EditReads
      <4>3. Clone(id) \in AuthRec /\ Issued(id, Clone(id)) /\ events + 1 \in Nat
        BY <4>2, CloneRec DEF AuthType
      <4>4. PICK c \in AuthRec : c = Clone(id)
        BY <4>3
      <4> DEFINE a == [c EXCEPT !.note = events + 1]
      <4>5. a \in AuthRec /\ a.token = c.token /\ a.epoch = c.epoch /\ a.err = c.err
            /\ a.errOf = c.errOf
        BY <4>3 DEF AuthRec
      <4>6. edit'[e].read \in {a, c}
        BY <4>2, <4>4
      <4> HIDE DEF a
      <4>7. Issued(id, a)
        BY <4>3, <4>4, <4>5 DEF Issued
      <4> QED
        BY <4>1, <4>3, <4>4, <4>5, <4>6, <4>7
    <3> QED
      BY <1>3, <3>1, <3>2, EditStep DEF EditRests, EditEnds
  <2>2. PICK id \in Ids, a \in AuthRec : edit'[e].id = id /\ edit'[e].read = a /\ Issued(id, a)
    BY <2>1
  <2>3. Issued(id, a)'
    BY <2>2, IssuedStays
  <2> QED
    BY <2>2, <2>3 DEF Issued
<1> QED
  BY <1>1, <1>2, <1>3 DEF OwnInv, Present

\* Every step keeps the last note standing.
LEMMA NoteStep ==
    ASSUME AuthType, CallType, EditType, LoopType, OwnInv, LastNoteStands, [Next]_vars
    PROVE  LastNoteStands'
<1> SUFFICES ASSUME NEW id \in Ids, Present(id)' PROVE auths'[id].note = noted'[id]
  BY DEF LastNoteStands
<1>1. Written(id)
  BY AuthsWritten
<1> QED
  BY <1>1 DEF Written, Stays, Retouched, Renewed, Removed, LastNoteStands, Present

\* What is on its way to be saved is a copy of the credential as it is now.
LEMMA SavingsAdded ==
    ASSUME AuthType, CallType, EditType, OwnInv, [Next]_vars, NEW id \in Ids,
           NEW s, s \in Savings(id)'
    PROVE  s \in SavedRec /\ (s \in Savings(id) \/ (auths'[id] \in AuthRec /\ s = Saving(auths'[id])))
<1>1. s \in SavedRec
  BY DEF Savings
<1>2. ASSUME NEW p \in Callers, call'[p].pc = "announce", call'[p].id = id, call'[p].saved = s
      PROVE  s \in Savings(id) \/ (auths'[id] \in AuthRec /\ s = Saving(auths'[id]))
  <2>1. CASE CallKept(p)
    BY <1>1, <1>2, <2>1 DEF CallKept, Savings
  <2>2. CASE CallEnds(p)
    BY <1>1, <1>2, <2>2, NotSaved DEF CallEnds
  <2> QED
    BY <1>2, <2>1, <2>2, CallStep DEF CallRests, CallBegins
<1>3. ASSUME NEW e \in Editors, edit'[e].pc = "announce", edit'[e].id = id, edit'[e].saved = s
      PROVE  s \in Savings(id) \/ (auths'[id] \in AuthRec /\ s = Saving(auths'[id]))
  <2>1. CASE EditKept(e)
    BY <1>1, <1>3, <2>1 DEF EditKept, Savings
  <2>2. CASE EditEnds(e)
    BY <1>3, <2>2 DEF EditEnds
  <2> QED
    BY <1>3, <2>1, <2>2, EditStep DEF EditRests, EditReads
<1> QED
  BY <1>1, <1>2, <1>3 DEF Savings

\* What the store makes of something that was on its way.
Skipped(id, s) ==
    /\ Older(s, watermark[id]) /\ watermark'[id] = watermark[id] /\ store'[id] = store[id]
    /\ id \in unsaved' <=> id \in unsaved
Persisted(id, s) ==
    /\ ~Older(s, watermark[id]) /\ watermark'[id] = <<s.epoch, s.gen>>
    /\ id \in unsaved' \/ store'[id] = <<s.token, s.note>>
StoreKept(id) ==
    /\ watermark'[id] = watermark[id] /\ store'[id] = store[id]
    /\ id \in unsaved' <=> id \in unsaved

\* A save is skipped when its mark is older, or written with its mark.
LEMMA PersistEffect ==
    ASSUME StoreType, NEW i \in Ids, NEW s \in SavedRec, persist(i, s)
    PROVE  /\ Skipped(i, s) \/ Persisted(i, s)
           /\ \A id \in Ids \ {i} : StoreKept(id)
BY DEF persist, storeVars, StoreType, Skipped, Persisted, StoreKept

\* A step that persists s, of a caller or of an editor, leaves the others alone.
LEMMA CallAnnounced ==
    ASSUME AuthType, CallType, EditType, StoreType, OwnInv, [Next]_vars, NEW p \in Callers,
           RefreshAnnounced(p)
    PROVE  /\ UNCHANGED <<auths, authEpochs, noted, edit>> /\ call[p].id \in Ids
           /\ call[p].pc = "announce" /\ \A q \in Callers \ {p} : CallKept(q)
           /\ \/ call[p].saved = NoAuth /\ \A id \in Ids : StoreKept(id)
              \/ /\ call[p].saved \in SavedRec
                 /\ Skipped(call[p].id, call[p].saved) \/ Persisted(call[p].id, call[p].saved)
                 /\ \A id \in Ids \ {call[p].id} : StoreKept(id)
<1>1. call[p].id \in Ids /\ call[p].saved \in SavedRec \cup {NoAuth} /\ call[p].pc = "announce"
  BY CallKinds DEF RefreshAnnounced, CallType
<1>2. \A q \in Callers \ {p} : CallKept(q)
  BY ReturnRests DEF RefreshAnnounced
<1>3. UNCHANGED <<auths, authEpochs, noted, edit>>
  BY DEF RefreshAnnounced
<1>4. CASE call[p].saved = NoAuth /\ UNCHANGED storeVars
  BY <1>1, <1>2, <1>3, <1>4 DEF StoreKept, storeVars
<1>5. CASE call[p].saved # NoAuth /\ persist(call[p].id, call[p].saved)
  BY <1>1, <1>2, <1>3, <1>5, PersistEffect
<1> QED
  BY <1>4, <1>5 DEF RefreshAnnounced

\* What the announcement of an edit does to the store.
LEMMA SavedAnnounced ==
    ASSUME AuthType, CallType, EditType, StoreType, OwnInv, [Next]_vars, NEW e \in Editors,
           EditAnnounced(e)
    PROVE  /\ UNCHANGED <<auths, authEpochs, noted, call>> /\ edit[e].id \in Ids
           /\ edit[e].pc = "announce" /\ \A d \in Editors \ {e} : EditKept(d)
           /\ edit[e].saved \in SavedRec
           /\ Skipped(edit[e].id, edit[e].saved) \/ Persisted(edit[e].id, edit[e].saved)
           /\ \A id \in Ids \ {edit[e].id} : StoreKept(id)
<1>1. edit[e].id \in Ids /\ edit[e].saved \in SavedRec /\ edit[e].pc = "announce"
  BY EditKinds DEF EditAnnounced, EditType
<1>2. \A d \in Editors \ {e} : EditKept(d)
  BY DEF EditAnnounced, EditType, EditKept
<1>3. UNCHANGED <<auths, authEpochs, noted, call>>
  BY DEF EditAnnounced
<1>4. persist(edit[e].id, edit[e].saved)
  BY DEF EditAnnounced
<1> QED
  BY <1>1, <1>2, <1>3, <1>4, PersistEffect

\* The store of one credential is left alone, except perhaps for something outdated, or
\* takes one of the copies on their way to it.
Quiet(id) ==
    /\ StoreKept(id)
    /\ \A t \in Savings(id) : t \in Savings(id)' \/ Older(t, watermark[id])
Takes(id, s) ==
    /\ s \in Savings(id) /\ Persisted(id, s) /\ Stays(id)
    /\ \A t \in Savings(id) \ {s} : t \in Savings(id)'

\* A step leaves the store of a credential alone or takes one save of it.
LEMMA StoreStep ==
    ASSUME AuthType, CallType, EditType, StoreType, OwnInv, [Next]_vars, NEW id \in Ids
    PROVE  Quiet(id) \/ \E s \in Savings(id) : Takes(id, s)
<1>1. ASSUME NEW t \in Savings(id), t \notin Savings(id)'
      PROVE  \/ \E p \in Callers : RefreshAnnounced(p) /\ call[p].id = id /\ call[p].saved = t
             \/ \E e \in Editors : EditAnnounced(e) /\ edit[e].id = id /\ edit[e].saved = t
  <2>1. t \in SavedRec
    BY DEF Savings
  <2>2. ASSUME NEW p \in Callers, call[p].pc = "announce", call[p].id = id, call[p].saved = t
        PROVE  RefreshAnnounced(p)
    BY <1>1, <2>1, <2>2, CallStep DEF CallKept, Savings
  <2>3. ASSUME NEW e \in Editors, edit[e].pc = "announce", edit[e].id = id, edit[e].saved = t
        PROVE  EditAnnounced(e)
    BY <1>1, <2>1, <2>3, EditStep DEF EditKept, Savings
  <2> QED
    BY <2>2, <2>3 DEF Savings
<1>2. ASSUME NEW p \in Callers, RefreshAnnounced(p)
      PROVE  Quiet(id) \/ \E s \in Savings(id) : Takes(id, s)
  <2>1. /\ UNCHANGED <<auths, authEpochs, noted, edit>> /\ call[p].id \in Ids
        /\ call[p].pc = "announce" /\ \A q \in Callers \ {p} : CallKept(q)
    BY <1>2, CallAnnounced
  <2>2. ASSUME NEW t \in Savings(id), ~(call[p].id = id /\ call[p].saved = t)
        PROVE  t \in Savings(id)'
    BY <2>1, <2>2 DEF Savings, CallKept
  <2>3. CASE call[p].saved = NoAuth \/ call[p].id # id
    <3>1. StoreKept(id)
      BY <1>2, <2>3, CallAnnounced, NotSaved
    <3>2. \A t \in Savings(id) : t \in Savings(id)'
      BY <2>2, <2>3, NotSaved DEF Savings
    <3> QED
      BY <3>1, <3>2 DEF Quiet
  <2>4. CASE call[p].saved # NoAuth /\ call[p].id = id
    <3>1. PICK s \in SavedRec : s = call[p].saved /\ (Skipped(id, s) \/ Persisted(id, s))
      BY <1>2, <2>4, CallAnnounced
    <3>2. s \in Savings(id)
      BY <2>1, <2>4, <3>1 DEF Savings
    <3>3. \A t \in Savings(id) \ {s} : t \in Savings(id)'
      BY <2>2, <3>1
    <3>4. CASE Skipped(id, s)
      BY <3>3, <3>4 DEF Skipped, Quiet, StoreKept
    <3>5. CASE Persisted(id, s)
      BY <2>1, <3>2, <3>3, <3>5 DEF Takes, Stays
    <3> QED
      BY <3>1, <3>4, <3>5
  <2> QED
    BY <2>3, <2>4
<1>3. ASSUME NEW e \in Editors, EditAnnounced(e)
      PROVE  Quiet(id) \/ \E s \in Savings(id) : Takes(id, s)
  <2>1. /\ UNCHANGED <<auths, authEpochs, noted, call>> /\ edit[e].id \in Ids
        /\ edit[e].pc = "announce" /\ \A d \in Editors \ {e} : EditKept(d)
    BY <1>3, SavedAnnounced
  <2>2. ASSUME NEW t \in Savings(id), ~(edit[e].id = id /\ edit[e].saved = t)
        PROVE  t \in Savings(id)'
    BY <2>1, <2>2 DEF Savings, EditKept
  <2>3. CASE edit[e].id # id
    <3>1. StoreKept(id)
      BY <1>3, <2>3, SavedAnnounced
    <3> QED
      BY <2>2, <2>3, <3>1 DEF Quiet
  <2>4. CASE edit[e].id = id
    <3>1. PICK s \in SavedRec : s = edit[e].saved /\ (Skipped(id, s) \/ Persisted(id, s))
      BY <1>3, <2>4, SavedAnnounced
    <3>2. s \in Savings(id)
      BY <2>1, <2>4, <3>1 DEF Savings
    <3>3. \A t \in Savings(id) \ {s} : t \in Savings(id)'
      BY <2>2, <3>1
    <3>4. CASE Skipped(id, s)
      BY <3>3, <3>4 DEF Skipped, Quiet, StoreKept
    <3>5. CASE Persisted(id, s)
      BY <2>1, <3>2, <3>3, <3>5 DEF Takes, Stays
    <3> QED
      BY <3>1, <3>4, <3>5
  <2> QED
    BY <2>3, <2>4
<1>4. CASE UNCHANGED storeVars /\ ~(\E p \in Callers : RefreshAnnounced(p))
           /\ ~(\E e \in Editors : EditAnnounced(e))
  <2>1. \A t \in Savings(id) : t \in Savings(id)'
    BY <1>1, <1>4
  <2> QED
    BY <1>4, <2>1 DEF Quiet, StoreKept, storeVars
<1> QED
  BY <1>2, <1>3, <1>4, StoreFrame

\* A mark the manager has reached stays reached.
LEMMA ReachedStays ==
    ASSUME AuthType, NEW id \in Ids, Written(id), NEW epoch \in Nat, NEW gen \in Nat,
           Reached(id, epoch, gen)
    PROVE  Reached(id, epoch, gen)'
<1>1. authEpochs[id] \in Nat /\ (Present(id) => auths[id].gen \in Nat)
  BY PresentRec DEF AuthType, AuthRec
<1>2. CASE Stays(id)
  BY <1>2 DEF Stays, Reached, Present
<1>3. CASE Retouched(id)
  <2>1. auths'[id] \in AuthRec /\ auths'[id].gen \in Nat /\ auths'[id] # NoAuth
    BY <1>3 DEF Retouched, AuthRec, NoAuth
  <2> QED
    BY <1>1, <1>3, <2>1 DEF Retouched, Reached, Present
<1>4. CASE Renewed(id)
  <2>1. PICK a \in AuthRec :
           /\ auths'[id] = a
           /\ \/ authEpochs'[id] = authEpochs[id] /\ Present(id) /\ a.gen > auths[id].gen
              \/ authEpochs'[id] = authEpochs[id] + 1
    BY <1>4 DEF Renewed
  <2>2. a.gen \in Nat /\ a # NoAuth
    BY DEF AuthRec, NoAuth
  <2> QED
    BY <1>1, <2>1, <2>2 DEF Reached, Present
<1>5. CASE Removed(id)
  BY <1>1, <1>5 DEF Removed, Reached
<1> QED
  BY <1>2, <1>3, <1>4, <1>5 DEF Written

\* Every step keeps marks and saves behind the manager.
LEMMA MarkStep ==
    ASSUME AuthType, CallType, EditType, LoopType, StoreType, OwnInv, LastNoteStands, MarkInv,
           [Next]_vars
    PROVE  MarkInv'
<1> SUFFICES ASSUME NEW id \in Ids
             PROVE  /\ Reached(id, watermark[id][1], watermark[id][2])'
                    /\ \A s \in Savings(id)' : Reached(id, s.epoch, s.gen)'
  BY DEF MarkInv
<1>1. Written(id)
  BY AuthsWritten
<1>2. ASSUME NEW s \in Savings(id) PROVE Reached(id, s.epoch, s.gen)'
  <2>1. s \in SavedRec /\ Reached(id, s.epoch, s.gen)
    BY DEF MarkInv, Savings
  <2>2. s.epoch \in Nat /\ s.gen \in Nat
    BY <2>1 DEF SavedRec
  <2> QED
    BY <1>1, <2>1, <2>2, ReachedStays
<1>3. Reached(id, watermark[id][1], watermark[id][2])'
  <2>1. CASE watermark'[id] = watermark[id]
    <3>1. PICK epoch \in Nat, gen \in Nat : watermark[id] = <<epoch, gen>>
      BY DEF StoreType
    <3>2. Reached(id, epoch, gen)
      BY <3>1 DEF MarkInv
    <3>3. Reached(id, epoch, gen)'
      BY <1>1, <3>2, ReachedStays
    <3> QED
      BY <2>1, <3>1, <3>3 DEF Reached
  <2>2. ASSUME NEW s \in Savings(id), watermark'[id] = <<s.epoch, s.gen>>
        PROVE  Reached(id, watermark[id][1], watermark[id][2])'
    BY <1>2, <2>2 DEF Reached
  <2> QED
    BY <2>1, <2>2, StoreStep DEF Quiet, StoreKept, Takes, Persisted
<1>4. ASSUME NEW s, s \in Savings(id)' PROVE Reached(id, s.epoch, s.gen)'
  <2>1. CASE s \in Savings(id)
    BY <1>2, <2>1
  <2>2. CASE auths'[id] \in AuthRec /\ s = Saving(auths'[id])
    <3>1. s.epoch = auths'[id].epoch /\ s.gen = auths'[id].gen /\ auths'[id] # NoAuth
      BY <2>2, SavingRec DEF AuthRec, NoAuth
    <3>2. auths'[id].epoch = authEpochs'[id]
      BY <3>1, OwnStep DEF OwnInv, Present
    <3>3. authEpochs'[id] \in Nat /\ auths'[id].gen \in Nat
      BY <2>2, OwnersGrow DEF Grown, AuthRec
    <3> QED
      BY <3>1, <3>2, <3>3 DEF Reached, Present
  <2> QED
    BY <1>4, <2>1, <2>2, SavingsAdded
<1> QED
  BY <1>3, <1>4

\* Older is an order on what is saved.
LEMMA OlderOrder ==
    ASSUME NEW s \in SavedRec, NEW t \in SavedRec, NEW m \in Nat \X Nat
    PROVE  /\ Older(t, m) /\ ~Older(s, m) => Older(t, <<s.epoch, s.gen>>)
           /\ ~Older(s, <<s.epoch, s.gen>>)
           /\ Older(s, <<t.epoch, t.gen>>) => ~Older(t, <<s.epoch, s.gen>>)
<1>1. PICK e \in Nat, g \in Nat : m = <<e, g>>
  OBVIOUS
<1>2. s.epoch \in Nat /\ s.gen \in Nat /\ t.epoch \in Nat /\ t.gen \in Nat
  BY DEF SavedRec
<1> QED
  BY <1>1, <1>2 DEF Older

\* Being older is transitive.
LEMMA OlderTransitive ==
    ASSUME NEW s \in SavedRec, NEW t \in SavedRec, NEW u \in SavedRec,
           Older(s, <<t.epoch, t.gen>>), Older(t, <<u.epoch, u.gen>>)
    PROVE  Older(s, <<u.epoch, u.gen>>)
<1>1. /\ s.epoch \in Nat /\ s.gen \in Nat /\ t.epoch \in Nat /\ t.gen \in Nat
      /\ u.epoch \in Nat /\ u.gen \in Nat
  BY DEF SavedRec
<1> QED
  BY <1>1 DEF Older

\* The two ways in which the store keeps up.
Settled(id) ==
    /\ id \in unsaved \/ store[id] = <<auths[id].token, auths[id].note>>
    /\ \A t \in Savings(id) : Current(id, t) \/ Older(t, watermark[id])
Leads(id, s) ==
    /\ s \in Savings(id) /\ Current(id, s) /\ ~Older(s, watermark[id])
    /\ \A t \in Savings(id) : Current(id, t) \/ Older(t, <<s.epoch, s.gen>>)

\* Every step keeps the store settled, or a current save ahead of the others.
LEMMA SaveStep ==
    ASSUME AuthType, CallType, EditType, LoopType, StoreType, OwnInv, LastNoteStands, MarkInv,
           SaveInv, [Next]_vars
    PROVE  SaveInv'
<1> SUFFICES ASSUME NEW id \in Ids, Present(id)'
             PROVE  Settled(id)' \/ \E s : Leads(id, s)'
  BY DEF SaveInv, Settled, Leads
<1>1. Written(id)
  BY AuthsWritten
<1>2. watermark[id] \in Nat \X Nat
  BY DEF StoreType
<1>3. Savings(id) \subseteq SavedRec /\ Savings(id)' \subseteq SavedRec
  BY DEF Savings
<1>4. ASSUME NEW t, t \in Savings(id)', t \notin Savings(id) PROVE Current(id, t)'
  BY <1>4, SavingsAdded, SavingRec DEF Current
<1>5. CASE Renewed(id)
  <2>1. PICK a \in AuthRec :
           /\ auths'[id] = a /\ a.epoch = authEpochs'[id] /\ Saving(a) \in Savings(id)'
           /\ \/ authEpochs'[id] = authEpochs[id] /\ Present(id) /\ a.gen > auths[id].gen
              \/ authEpochs'[id] = authEpochs[id] + 1
    BY <1>5 DEF Renewed
  <2>2. PICK s \in SavedRec : s = Saving(a)
    BY SavingRec
  <2>3. s.epoch = a.epoch /\ s.gen = a.gen /\ s.token = a.token /\ s.note = a.note
    BY <2>2, SavingRec
  <2>4. Current(id, s)'
    BY <2>1, <2>3 DEF Current
  <2>5. /\ a.gen \in Nat /\ a.epoch \in Nat /\ authEpochs[id] \in Nat
        /\ (Present(id) => auths[id].gen \in Nat)
    BY PresentRec DEF AuthRec, AuthType
  <2>6. ~Older(s, watermark[id])'
    <3>1. Reached(id, watermark[id][1], watermark[id][2])'
      BY MarkStep DEF MarkInv
    <3>2. PICK e \in Nat, g \in Nat : watermark'[id] = <<e, g>>
      BY StoreTypeStep DEF StoreType
    <3>3. e <= a.epoch /\ (e = a.epoch => g <= a.gen)
      BY <2>1, <3>1, <3>2 DEF Reached
    <3> QED
      BY <2>3, <2>5, <3>2, <3>3 DEF Older
  <2>7. ASSUME NEW t, t \in Savings(id)' PROVE Current(id, t)' \/ Older(t, <<s.epoch, s.gen>>)
    <3>1. CASE t \in Savings(id)
      <4>1. Reached(id, t.epoch, t.gen) /\ t.epoch \in Nat /\ t.gen \in Nat
        BY <1>3, <3>1 DEF MarkInv, SavedRec
      <4> QED
        BY <2>1, <2>3, <2>5, <4>1 DEF Reached, Older
    <3> QED
      BY <1>4, <2>7, <3>1
  <2>8. Leads(id, s)'
    BY <2>1, <2>2, <2>4, <2>6, <2>7 DEF Leads
  <2> QED
    BY <2>8
<1>6. CASE Stays(id) \/ Retouched(id)
  <2>1. Present(id) /\ auths'[id].token = auths[id].token /\ auths'[id].note = auths[id].note
    BY <1>6 DEF Stays, Retouched, Present
  <2>2. \A t : Current(id, t) => Current(id, t)'
    BY <2>1 DEF Current
  <2>3. CASE Quiet(id)
    <3>1. CASE Settled(id)
      <4>1. Settled(id)'
        BY <1>4, <2>1, <2>2, <2>3, <3>1 DEF Settled, Quiet, StoreKept, Older
      <4> QED
        BY <4>1
    <3>2. ASSUME NEW s, Leads(id, s) PROVE Leads(id, s)'
      <4>1. s \in Savings(id)' /\ Current(id, s)' /\ ~Older(s, watermark[id])'
        BY <2>2, <2>3, <3>2 DEF Leads, Quiet, StoreKept, Older
      <4>2. ASSUME NEW t, t \in Savings(id)' PROVE Current(id, t)' \/ Older(t, <<s.epoch, s.gen>>)
        BY <1>4, <2>2, <3>2, <4>2 DEF Leads
      <4> QED
        BY <4>1, <4>2 DEF Leads, Older
    <3> QED
      BY <2>1, <3>1, <3>2 DEF SaveInv, Settled, Leads
  <2>4. ASSUME NEW s \in Savings(id), Takes(id, s)
        PROVE  Settled(id)' \/ \E c : Leads(id, c)'
    <3>1. /\ s \in SavedRec /\ ~Older(s, watermark[id]) /\ watermark'[id] = <<s.epoch, s.gen>>
          /\ id \in unsaved' \/ store'[id] = <<s.token, s.note>>
          /\ \A t \in Savings(id) \ {s} : t \in Savings(id)'
      BY <1>3, <2>4 DEF Takes, Persisted
    \* When s is current and none of the others would undo it, the store is settled.
    <3>2. ASSUME Current(id, s), \A t \in Savings(id) : Current(id, t) \/ Older(t, <<s.epoch, s.gen>>)
          PROVE  Settled(id)'
      <4>1. id \in unsaved' \/ store'[id] = <<auths'[id].token, auths'[id].note>>
        BY <2>1, <3>1, <3>2 DEF Current
      <4>2. ASSUME NEW t, t \in Savings(id)' PROVE Current(id, t)' \/ Older(t, watermark[id])'
        <5>1. CASE t \in Savings(id)
          BY <2>2, <3>1, <3>2, <5>1 DEF Older
        <5> QED
          BY <1>4, <4>2, <5>1
      <4> QED
        BY <4>1, <4>2 DEF Settled
    <3>3. CASE Settled(id)
      <4>1. Current(id, s)
        BY <3>1, <3>3 DEF Settled
      <4>2. \A t \in Savings(id) : Current(id, t) \/ Older(t, <<s.epoch, s.gen>>)
        BY <1>2, <1>3, <3>1, <3>3, OlderOrder DEF Settled
      <4> QED
        BY <3>2, <4>1, <4>2
    <3>4. ASSUME NEW c, Leads(id, c) PROVE Settled(id)' \/ Leads(id, c)'
      <4>1. /\ c \in SavedRec /\ c \in Savings(id) /\ Current(id, c) /\ ~Older(c, watermark[id])
            /\ \A t \in Savings(id) : Current(id, t) \/ Older(t, <<c.epoch, c.gen>>)
        BY <1>3, <3>4 DEF Leads
      <4>2. CASE c = s
        BY <3>2, <4>1, <4>2
      <4>3. CASE c # s /\ ~Older(c, <<s.epoch, s.gen>>)
        <5>1. c \in Savings(id)' /\ Current(id, c)' /\ ~Older(c, watermark[id])'
          BY <2>2, <3>1, <4>1, <4>3 DEF Older
        <5>2. ASSUME NEW t, t \in Savings(id)' PROVE Current(id, t)' \/ Older(t, <<c.epoch, c.gen>>)
          BY <1>4, <2>2, <4>1, <5>2
        <5> QED
          BY <5>1, <5>2 DEF Leads, Older
      <4>4. CASE c # s /\ Older(c, <<s.epoch, s.gen>>)
        <5>1. Current(id, s)
          BY <3>1, <4>1, <4>4, OlderOrder, <1>2
        <5>2. \A t \in Savings(id) : Current(id, t) \/ Older(t, <<s.epoch, s.gen>>)
          BY <1>3, <3>1, <4>1, <4>4, OlderTransitive
        <5> QED
          BY <3>2, <5>1, <5>2
      <4> QED
        BY <4>2, <4>3, <4>4
    <3> QED
      BY <2>1, <3>3, <3>4 DEF SaveInv, Settled, Leads
  <2> QED
    BY <2>3, <2>4, StoreStep
<1>7. ~Removed(id)
  BY DEF Removed, Present
<1> QED
  BY <1>1, <1>5, <1>6, <1>7 DEF Written

(***************************************************************************)
(* Tokens that were exchanged.                                             *)
(***************************************************************************)
\* A call of a provider that is not answered, or not made under the credential's lock: it
\* may have exchanged the token it had.
Loosens(id, token) ==
    /\ id \in Ids /\ token \in 1..Len(owner[id]) /\ UNCHANGED restored
    /\ \/ UNCHANGED <<spent, loose>>
       \/ /\ spent' = [spent EXCEPT ![id] = @ \cup {token}]
          /\ loose' = [loose EXCEPT ![id] = @ \cup {token}]

\* These calls are the cancelled, the failed and the unlocked ones.
LEMMA UnansweredLoosens ==
    ASSUME AuthType, CallType, EditType, OwnInv
    PROVE  /\ \A p \in Callers : Cancels(p) => Loosens(call[p].id, call[p].base.token)
           /\ \A p \in Callers : \A err :
                 Fails(p, err) => Loosens(call[p].id, call[p].base.token)
           /\ \A e \in Editors : Loses(e) \/ ExchangeSucceeds(e) =>
                 Loosens(edit[e].id, edit[e].read.token)
<1>1. ASSUME NEW p \in Callers, call[p].pc = "calling"
      PROVE  call[p].id \in Ids /\ call[p].base.token \in 1..Len(owner[call[p].id])
  BY <1>1, CallKinds DEF CallType, OwnInv, Issued
<1>2. ASSUME NEW e \in Editors, edit[e].pc = "exchange"
      PROVE  edit[e].id \in Ids /\ edit[e].read.token \in 1..Len(owner[edit[e].id])
  BY <1>2, EditKinds DEF EditType, OwnInv, Issued
<1>3. ASSUME NEW p \in Callers, Cancels(p) PROVE Loosens(call[p].id, call[p].base.token)
  BY <1>1, <1>3 DEF Cancels, RefreshCanceled, Unanswered, Loosens
<1>4. ASSUME NEW p \in Callers, NEW err, Fails(p, err)
      PROVE  Loosens(call[p].id, call[p].base.token)
  BY <1>1, <1>4 DEF Fails, RefreshFails, Unanswered, Loosens
<1>5. ASSUME NEW e \in Editors, Loses(e) PROVE Loosens(edit[e].id, edit[e].read.token)
  BY <1>2, <1>5 DEF Loses, ExchangeFails, Unanswered, Loosens
<1>6. ASSUME NEW e \in Editors, ExchangeSucceeds(e)
      PROVE  Loosens(edit[e].id, edit[e].read.token)
  BY <1>2, <1>6 DEF ExchangeSucceeds, Loosens
<1> QED
  BY <1>3, <1>4, <1>5, <1>6

\* An update exchanges nothing.
LEMMA UpdateSpends ==
    ASSUME AuthType, EditType, OwnInv, SpentType, NEW e \in Editors, Update(e)
    PROVE  /\ UNCHANGED <<spent, loose>> /\ restored' \in [Ids -> SUBSET Nat]
           /\ \A id \in Ids : restored[id] \subseteq restored'[id]
<1>1. UNCHANGED <<spent, loose>> /\ edit[e].pc = "update"
  BY DEF Update
<1>2. CASE UNCHANGED restored
  BY <1>1, <1>2 DEF SpentType
<1>3. CASE Restores(e, edit[e].id) /\ edit[e].id \in Ids
  <2>1. edit[e].read.token \in Nat
    BY <1>1, EditKinds DEF EditType, AuthRec
  <2> QED
    BY <1>1, <1>3, <2>1 DEF SpentType, Restores
<1> QED
  BY <1>2, <1>3, UpdateEffect DEF Refused, Replaces

\* Every step keeps the types of these histories, and forgets nothing that is spared.
LEMMA SpentTypeStep ==
    ASSUME AuthType, CallType, EditType, OwnInv, SpentType, [Next]_vars
    PROVE  /\ SpentType' /\ \A id \in Ids : restored[id] \subseteq restored'[id]
           /\ \A id \in Ids : loose[id] \subseteq loose'[id]
<1> DEFINE Goal == /\ SpentType' /\ \A id \in Ids : restored[id] \subseteq restored'[id]
                   /\ \A id \in Ids : loose[id] \subseteq loose'[id]
<1>1. ASSUME UNCHANGED <<spent, restored, loose>> PROVE Goal
  BY <1>1 DEF SpentType
<1>2. ASSUME NEW id, NEW token, Loosens(id, token) PROVE Goal
  <2>1. id \in Ids /\ token \in Nat
    BY <1>2 DEF Loosens, AuthType
  <2> QED
    BY <1>1, <1>2, <2>1 DEF Loosens, SpentType
<1>3. ASSUME NEW p \in Callers, NEW new \in BOOLEAN, RefreshSucceeds(p, new) PROVE Goal
  <2>1. UNCHANGED <<restored, loose>> /\ call[p].id \in Ids /\ call[p].base.token \in Nat
    BY <1>3, SucceedsOwner DEF AuthRec
  <2>2. CASE new
    <3>1. spent' = [spent EXCEPT ![call[p].id] = @ \cup {call[p].base.token}]
      BY <1>3, <2>2, SucceedsOwner
    <3> QED
      BY <2>1, <3>1 DEF SpentType
  <2>3. CASE ~new
    BY <1>1, <1>3, <2>1, <2>3, SucceedsOwner
  <2> QED
    BY <2>2, <2>3
<1>4. ASSUME NEW e \in Editors, Writes(e) PROVE Goal
  <2>1. CASE Update(e)
    BY <2>1, UpdateSpends DEF SpentType
  <2>2. CASE ExchangeSucceeds(e)
    BY <1>2, <2>2, UnansweredLoosens
  <2> QED
    BY <1>4, <2>1, <2>2 DEF Writes
<1> QED
  BY <1>1, <1>2, <1>3, <1>4, SpentFrame, UnansweredLoosens

\* A token of the credential that counts as spent is one that did before.
Eased(id) ==
    /\ spent'[id] \ Spared(id)' \subseteq spent[id] \ Spared(id)
    /\ spent'[id] \subseteq 1..Len(owner[id])

\* A token exchanged without the lock, or unseen, is spared.
LEMMA LoosensEased ==
    ASSUME AuthType, SpentType, SpentInv, NEW i, NEW token, Loosens(i, token)
    PROVE  \A id \in Ids : Eased(id)
<1> SUFFICES ASSUME NEW id \in Ids PROVE Eased(id)
  OBVIOUS
<1>1. spent[id] \subseteq 1..Len(owner[id])
  BY DEF SpentInv
<1>2. CASE spent'[id] = spent[id] /\ loose'[id] = loose[id]
  BY <1>1, <1>2 DEF Loosens, Eased, Spared
<1>3. CASE id = i /\ spent'[id] = spent[id] \cup {token} /\ loose'[id] = loose[id] \cup {token}
  BY <1>1, <1>3 DEF Loosens, Eased, Spared
<1> QED
  BY <1>2, <1>3 DEF Loosens, SpentType

\* What an editor writes exchanges no token that would not be spared.
LEMMA WritesEased ==
    ASSUME AuthType, EditType, CallType, OwnInv, SpentType, SpentInv, NEW e \in Editors, Writes(e)
    PROVE  \A id \in Ids : Eased(id)
<1>1. CASE Update(e)
  BY <1>1, UpdateSpends DEF SpentInv, Eased, Spared
<1>2. CASE ExchangeSucceeds(e)
  BY <1>2, UnansweredLoosens, LoosensEased
<1> QED
  BY <1>1, <1>2 DEF Writes

\* Any other token is spent by the caller that works on the credential.
Spends(p) ==
    /\ call[p].pc = "calling" /\ call[p].id \in Ids /\ call'[p].pc # "calling"
    /\ spent' = [spent EXCEPT ![call[p].id] = @ \cup {call[p].base.token}]
    /\ UNCHANGED <<restored, loose>>

\* Only a successful refresh exchanges a token that is not spared.
LEMMA SpentOnlyBy ==
    ASSUME AuthType, CallType, EditType, OwnInv, SpentType, SpentInv, [Next]_vars
    PROVE  \/ \A id \in Ids : Eased(id)
           \/ \E p \in Callers, new \in BOOLEAN : RefreshSucceeds(p, new)
<1>1. CASE UNCHANGED <<spent, restored, loose>>
  BY <1>1 DEF SpentInv, Eased, Spared
<1> QED
  BY <1>1, SpentFrame, UnansweredLoosens, LoosensEased, WritesEased

\* It exchanges the token of its own copy.
LEMMA Spending ==
    ASSUME AuthType, CallType, EditType, OwnInv, SpentType, SpentInv, [Next]_vars
    PROVE  (\A id \in Ids : Eased(id)) \/ \E p \in Callers : Spends(p)
<1>1. ASSUME NEW p \in Callers, NEW new \in BOOLEAN, RefreshSucceeds(p, new)
      PROVE  (\A id \in Ids : Eased(id)) \/ Spends(p)
  <2>1. CASE ~new
    BY <1>1, <2>1, SucceedsOwner DEF SpentInv, Eased, Spared
  <2>2. CASE new
    <3>1. call'[p].pc # "calling"
      <4>1. CASE Return(p)
        BY <4>1, ReturnRests DEF CallRests
      <4>2. CASE call' = [call EXCEPT ![p] = [pc |-> "announce", id |-> call[p].id,
                                              saved |-> Saving(auths'[call[p].id])]]
        BY <4>2 DEF CallType
      <4> QED
        BY <1>1, <4>1, <4>2, SucceedsEffect
    <3> QED
      BY <1>1, <2>2, <3>1, SucceedsOwner DEF Spends
  <2> QED
    BY <2>1, <2>2
<1> QED
  BY <1>1, SpentOnlyBy

\* What is in use was not spent.
LEMMA InUse ==
    ASSUME AuthType, CallType, EditType, LoopType, OwnInv, SpentType, SpentInv, [Next]_vars,
           NEW id \in Ids, Present(id)'
    PROVE  auths'[id].token \notin spent'[id] \ Spared(id)'
<1> DEFINE Goal == auths'[id].token \notin spent'[id] \ Spared(id)'
<1>1. /\ Spared(id) \subseteq Spared(id)' /\ spent[id] \subseteq 1..Len(owner[id])
      /\ Len(owner[id]) \in Nat /\ Len(owner[id]) + 1 \notin 1..Len(owner[id])
  <2>1. spent[id] \subseteq 1..Len(owner[id]) /\ Len(owner[id]) \in Nat
    BY DEF SpentInv, AuthType
  <2>2. Len(owner[id]) + 1 \notin 1..Len(owner[id])
    BY <2>1
  <2> QED
    BY <2>1, <2>2, SpentTypeStep DEF Spared
<1>2. ASSUME Eased(id), Present(id), auths'[id].token = auths[id].token PROVE Goal
  BY <1>2 DEF SpentInv, Eased
<1>3. ASSUME Eased(id), auths'[id].token = Len(owner[id]) + 1 PROVE Goal
  BY <1>1, <1>3 DEF Eased
<1>4. ASSUME UNCHANGED auths, Eased(id) PROVE Goal
  BY <1>2, <1>4 DEF Present
<1>5. ASSUME NEW i \in Ids, Touched(i), Eased(id) PROVE Goal
  <2>1. CASE id = i
    BY <1>2, <1>5, <2>1 DEF Touched
  <2>2. CASE id # i
    BY <1>2, <1>5, <2>2 DEF Touched, Present, AuthType
  <2> QED
    BY <2>1, <2>2
<1>6. ASSUME markRefreshPending PROVE Goal
  <2>1. Eased(id)
    BY <1>1, <1>6 DEF markRefreshPending, tokenVars, Eased, Spared
  <2> QED
    BY <1>4, <1>5, <1>6, <2>1, MarkEffect
<1>7. ASSUME NEW p \in Callers, NEW err \in {"unauthorized", "failed"}, Fails(p, err)
      PROVE  Goal
  <2>1. Eased(id)
    BY <1>7, UnansweredLoosens, LoosensEased
  <2> QED
    BY <1>4, <1>5, <1>7, <2>1, FailsEffect
<1>8. ASSUME NEW p \in Callers, NEW new \in BOOLEAN, RefreshSucceeds(p, new) PROVE Goal
  <2>1. PICK i \in Ids : i = call[p].id
    BY <1>8, SucceedsOwner
  <2>2. PICK base \in AuthRec : base = call[p].base
    BY <1>8, SucceedsOwner
  <2>3. Issued(i, base)
    BY <1>8, <2>1, <2>2 DEF OwnInv, RefreshSucceeds
  <2>4. CASE id # i
    <3>1. Eased(id)
      BY <1>1, <1>8, <2>1, <2>4, SucceedsOwner DEF SpentType, Eased, Spared
    <3>2. auths'[id] = auths[id]
      BY <1>8, <2>1, <2>4, SucceedsEffect DEF Rewritten, AuthType
    <3> QED
      BY <1>2, <3>1, <3>2 DEF Present
  <2>5. CASE id = i /\ UNCHANGED auths /\ auths[i].epoch # base.epoch
    <3>1. Present(i) /\ Issued(i, auths[i])
      BY <2>5 DEF Present, OwnInv
    <3>2. auths[i].token # base.token
      BY <2>3, <2>5, <3>1 DEF Issued
    <3>3. spent'[i] \subseteq spent[i] \cup {base.token} /\ Spared(i)' = Spared(i)
      BY <1>8, <2>1, <2>2, SucceedsOwner DEF SpentType, Spared
    <3> QED
      BY <1>1, <2>5, <3>1, <3>2, <3>3 DEF SpentInv
  <2>6. CASE /\ id = i /\ Rewritten(i)
             /\ auths'[i].token = IF new THEN Len(owner[i]) + 1 ELSE auths[i].token
    <3>1. CASE new
      <4>1. spent'[i] = spent[i] \cup {base.token}
        <5>1. spent' = [spent EXCEPT ![i] = @ \cup {base.token}]
          BY <1>8, <2>1, <2>2, <3>1, SucceedsOwner
        <5> QED
          BY <5>1 DEF SpentType
      <4>2. base.token # Len(owner[i]) + 1
        BY <1>1, <2>3, <2>6 DEF Issued
      <4> QED
        BY <1>1, <2>6, <3>1, <4>1, <4>2
    <3>2. CASE ~new
      <4>1. Eased(id)
        BY <1>1, <1>8, <3>2, SucceedsOwner DEF Eased, Spared
      <4> QED
        BY <1>2, <2>6, <3>2, <4>1 DEF Rewritten
    <3> QED
      BY <3>1, <3>2
  <2> QED
    BY <1>8, <2>1, <2>2, <2>4, <2>5, <2>6, SucceedsEffect
<1>9. ASSUME NEW e \in Editors, Writes(e) PROVE Goal
  <2>1. PICK i \in Ids : i = edit[e].id
    BY <1>9, WriteEffect
  <2>2. Eased(id)
    BY <1>9, WritesEased
  <2>3. CASE UNCHANGED auths
    BY <1>4, <2>2, <2>3
  <2>4. CASE id # i /\ Rewritten(i)
    BY <1>2, <2>2, <2>4 DEF Rewritten, Present, AuthType
  <2>5. CASE id = i /\ auths'[i].token = Len(owner[i]) + 1
    BY <1>3, <2>2, <2>5
  <2>6. CASE id = i /\ Restores(e, i)
    <3>1. CASE edit[e].read.token = auths[i].token
      BY <1>2, <2>2, <2>6, <3>1 DEF Rewritten, Restores
    <3>2. CASE edit[e].read.token # auths[i].token
      BY <2>6, <3>2 DEF SpentType, Restores, Spared
    <3> QED
      BY <3>1, <3>2
  <2> QED
    BY <1>9, <2>1, <2>3, <2>4, <2>5, <2>6, WriteEffect DEF Refused, Replaces, Restores
<1>10. ASSUME NEW e \in Editors, Register(e) PROVE Goal
  <2>1. Eased(id)
    BY <1>1, <1>10, OthersOwner DEF Eased, Spared
  <2>2. CASE id = edit[e].id
    BY <1>3, <1>10, <2>1, <2>2, RegisterEffect
  <2>3. CASE id # edit[e].id
    BY <1>2, <1>10, <2>1, <2>3, RegisterEffect DEF Present, AuthType
  <2> QED
    BY <2>2, <2>3
<1>11. ASSUME NEW e \in Editors, NEW i \in Ids, Remove(e, i) PROVE Goal
  <2>1. Eased(id)
    BY <1>1, <1>11 DEF Remove, tokenVars, Eased, Spared
  <2>2. id # i
    BY <1>11, RemoveEffect DEF Present, AuthType
  <2> QED
    BY <1>2, <1>11, <2>1, <2>2, RemoveEffect DEF Present, AuthType
<1>12. ASSUME UNCHANGED auths, ~(\E p \in Callers, new \in BOOLEAN : RefreshSucceeds(p, new))
       PROVE  Goal
  <2>1. Eased(id)
    BY <1>12, SpentOnlyBy
  <2> QED
    BY <1>4, <1>12, <2>1
<1> QED
  BY <1>6, <1>7, <1>8, <1>9, <1>10, <1>11, <1>12, AuthFrame

\* Every step keeps the tokens in use unspent.
LEMMA SpentStep ==
    ASSUME AuthType, CallType, EditType, LoopType, OwnInv, SpentType, SpentInv, [Next]_vars
    PROVE  SpentInv'
<1>1. ASSUME NEW id \in Ids PROVE spent'[id] \subseteq 1..Len(owner'[id])
  <2>1. spent[id] \subseteq 1..Len(owner[id]) /\ Grown(id) /\ Len(owner[id]) \in Nat
    BY OwnersGrow DEF SpentInv, AuthType
  <2>2. Len(owner'[id]) \in Nat /\ 1..Len(owner[id]) \subseteq 1..Len(owner'[id])
    BY <2>1 DEF Grown
  <2>3. ASSUME NEW p \in Callers, Spends(p) PROVE spent'[id] \subseteq 1..Len(owner[id])
    <3>1. call[p].id = id => call[p].base.token \in 1..Len(owner[id])
      BY <2>3 DEF Spends, OwnInv, Issued
    <3> QED
      BY <2>1, <2>3, <3>1 DEF Spends, SpentType
  <2>4. spent'[id] \subseteq 1..Len(owner[id])
    BY <2>3, Spending DEF Eased
  <2> QED
    BY <2>1, <2>2, <2>4
<1>2. ASSUME NEW p \in Callers, call'[p].pc = "calling"
      PROVE  call'[p].base.token \notin spent'[call'[p].id] \ Spared(call[p].id)'
  <2>1. CASE CallKept(p)
    <3>1. PICK id \in Ids : id = call[p].id
      BY <1>2, <2>1, CallKinds DEF CallKept, CallType
    <3>2. call[p].pc = "calling" /\ call[p].base.token \notin spent[id] \ Spared(id)
      BY <1>2, <2>1, <3>1 DEF CallKept, SpentInv
    <3>3. call[p].base.token \notin spent'[id] \ Spared(id)'
      <4>1. ASSUME NEW q \in Callers, Spends(q) PROVE Spared(id)' = Spared(id) /\ spent'[id] = spent[id]
        <5>1. call[q].id # id
          BY <1>2, <3>1, <3>2, <4>1 DEF Spends, SpentInv
        <5> QED
          BY <4>1, <5>1 DEF Spends, SpentType, Spared
      <4>2. CASE Eased(id)
        BY <3>2, <4>2 DEF Eased
      <4> QED
        BY <3>2, <4>1, <4>2, Spending
    <3>4. call'[p].id = id /\ call'[p].base = call[p].base
      BY <2>1, <3>1 DEF CallKept
    <3> QED
      BY <3>3, <3>4 DEF Spared
  <2>2. CASE CallBegins(p)
    <3>1. PICK id \in Ids : id = call[p].id
      BY <2>2 DEF CallBegins
    <3>2. /\ Present(id) /\ call'[p].id = id /\ call'[p].base = Clone(id)
          /\ UNCHANGED <<auths, spent, restored, loose>>
      BY <2>2, <3>1 DEF CallBegins, refreshAuthForRequest, tokenVars
    <3>3. Clone(id).token = auths[id].token
      BY <3>2, CloneRec
    <3> QED
      BY <3>2, <3>3 DEF SpentInv, Spared
  <2> QED
    BY <1>2, <2>1, <2>2, CallStep DEF CallRests, CallEnds
<1>3. ASSUME NEW p \in Callers, NEW q \in Callers, call'[p].pc = "calling",
             call'[q].pc = "calling", call'[p].id = call'[q].id
      PROVE  p = q
  <2>1. ASSUME NEW x \in Callers, call'[x].pc = "calling" PROVE CallKept(x) \/ CallBegins(x)
    BY <2>1, CallStep DEF CallRests, CallEnds
  <2>2. ASSUME NEW x \in Callers, NEW y \in Callers, CallBegins(x), CallKept(y), x # y,
               call'[y].pc = "calling"
        PROVE  call'[x].id # call'[y].id
    BY <2>2 DEF CallBegins, CallKept, Locked
  <2>3. CASE CallKept(p) /\ CallKept(q)
    BY <1>3, <2>3 DEF CallKept, SpentInv
  <2>4. ASSUME NEW x \in Callers, CallBegins(x) PROVE \A y \in Callers \ {x} : CallKept(y)
    <3>1. ~CallKept(x)
      BY <2>4 DEF CallBegins, CallKept, refreshAuthForRequest
    <3> QED
      BY <3>1, CallStep
  <2> QED
    BY <1>3, <2>1, <2>2, <2>3, <2>4
<1> QED
  BY <1>1, <1>2, <1>3, InUse DEF SpentInv, Present, Spared

(***************************************************************************)
(* The loop.  What each of its steps makes of its place.                   *)
(***************************************************************************)
InHandPcs == {"mark", "reread", "send", "put"}
\* It keeps what it has in hand, and the list that came from.
SameHand ==
    /\ loop'.phase = loop.phase /\ loop'.id = loop.id
    /\ loop'.todo = loop.todo /\ loop'.seen = loop.seen

\* What the loop does while it builds its heap,
LEMMA RebuildMoves ==
    ASSUME LoopType
    PROVE  /\ StartAutoRefresh => /\ loop.pc = "off" /\ loop'.pc = "rebuild" /\ UNCHANGED heap
                                  /\ loop'.todo = loop.todo
           /\ RebuildRead => /\ loop.pc = "rebuild" /\ loop'.pc = "install" /\ loop'.todo = {}
                             /\ UNCHANGED heap
                             /\ \A id \in Ids : loop'.plan[id] = nextRefreshCheckAt(now, auths[id])
           /\ RebuildInstall => /\ loop.pc = "install" /\ loop'.pc = "dirty" /\ loop'.seen = now
                                /\ heap' = loop.plan
<1>1. ASSUME StartAutoRefresh
      PROVE  loop.pc = "off" /\ loop'.pc = "rebuild" /\ UNCHANGED heap /\ loop'.todo = loop.todo
  BY <1>1 DEF StartAutoRefresh, LoopType, Loops
<1>2. ASSUME RebuildRead
      PROVE  /\ loop.pc = "rebuild" /\ loop'.pc = "install" /\ loop'.todo = {} /\ UNCHANGED heap
             /\ \A id \in Ids : loop'.plan[id] = nextRefreshCheckAt(now, auths[id])
  BY <1>2 DEF RebuildRead
<1>3. ASSUME RebuildInstall
      PROVE  loop.pc = "install" /\ loop'.pc = "dirty" /\ loop'.seen = now /\ heap' = loop.plan
  BY <1>3 DEF RebuildInstall
<1> QED
  BY <1>1, <1>2, <1>3

\* The timer u fires for t, set at now.
TimerSet(u, t) == u \in 1..(Max({t, loop.seen}) + (now - loop.seen))

\* while it waits,
LEMMA SelectMoves ==
    ASSUME AuthType, LoopType
    PROVE  /\ LoopWoken => /\ loop.pc = "select" /\ loop'.pc = "due" /\ loop'.seen = now
                           /\ UNCHANGED heap
           /\ popDue => /\ loop.pc = "select" /\ loop'.pc = "due" /\ loop'.seen = now
                        /\ \A id \in Ids : heap'[id] = heap[id] \/ id \in loop'.todo
           /\ resetTimer => /\ loop.pc = "dirty" /\ loop.todo = {} /\ UNCHANGED <<heap, now>>
                            /\ loop'.pc = "select" /\ loop'.todo = {} /\ loop'.seen = loop.seen
                            /\ \A id \in Ids : heap[id] # 0 => TimerSet(timer', heap[id])
<1>1. ASSUME LoopWoken
      PROVE  loop.pc = "select" /\ loop'.pc = "due" /\ loop'.seen = now /\ UNCHANGED heap
  BY <1>1 DEF LoopWoken
<1>2. ASSUME popDue
      PROVE  /\ loop.pc = "select" /\ loop'.pc = "due" /\ loop'.seen = now
             /\ \A id \in Ids : heap'[id] = heap[id] \/ id \in loop'.todo
  BY <1>2 DEF popDue
<1>3. ASSUME resetTimer
      PROVE  /\ loop.pc = "dirty" /\ loop.todo = {} /\ UNCHANGED <<heap, now>>
             /\ loop'.pc = "select" /\ loop'.todo = {} /\ loop'.seen = loop.seen
             /\ \A id \in Ids : heap[id] # 0 => TimerSet(timer', heap[id])
  <2> DEFINE queued == {heap[id] : id \in Ids} \ {0}
  <2>1. queued \in SUBSET Nat /\ heap \in [Ids -> Nat]
    BY DEF LoopType
  <2>2. timer' = IF queued = {} THEN 0 ELSE now + Max({0, Min(queued) - loop.seen})
    BY <1>3 DEF resetTimer
  <2>3. now \in Nat /\ now >= 1 /\ loop.seen \in Nat /\ loop.seen <= now
    BY Clock, LoopKinds DEF LoopType
  <2>4. ASSUME NEW id \in Ids, heap[id] # 0 PROVE TimerSet(timer', heap[id])
    <3>1. heap[id] \in queued /\ 0 \notin queued /\ heap[id] \in Nat
      BY <2>1, <2>4
    <3> HIDE DEF queued
    <3>2. PICK next \in Nat : next = Min(queued) /\ next <= heap[id]
      BY <2>1, <3>1, MinOfSet
    <3>3. next - loop.seen \in Int
      BY <2>3
    <3>4. Max({0, next - loop.seen}) = IF next - loop.seen >= 0 THEN next - loop.seen ELSE 0
      BY <3>3, MaxOfZero
    <3>5. Max({heap[id], loop.seen}) = IF heap[id] >= loop.seen THEN heap[id] ELSE loop.seen
      BY <2>3, <3>1, MaxOfTwo
    <3>6. timer' = now + (IF next - loop.seen >= 0 THEN next - loop.seen ELSE 0)
      BY <2>2, <3>1, <3>2, <3>4
    <3> QED
      BY <2>3, <3>1, <3>2, <3>5, <3>6 DEF TimerSet
  <2>5. loop'.pc = "select" /\ loop'.todo = {} /\ loop'.seen = loop.seen
    BY <1>3 DEF resetTimer, LoopType, Loops
  <2> QED
    BY <1>3, <2>4, <2>5 DEF resetTimer, outside
<1> QED
  BY <1>1, <1>2, <1>3

\* with a credential in hand,
LEMMA HandMoves ==
    ASSUME LoopType
    PROVE  /\ markRefreshPending => /\ loop.pc = "mark" /\ loop'.pc \in {"send", "reread"}
                                    /\ SameHand /\ UNCHANGED heap
           /\ RereadDue => /\ loop.pc = "reread" /\ loop'.pc = "put" /\ SameHand /\ UNCHANGED heap
                           /\ loop'.next = nextRefreshCheckAt(loop.seen, auths[loop.id])
           /\ SendJob => /\ loop.pc = "send" /\ loop'.pc = loop.phase /\ UNCHANGED heap
                         /\ loop'.todo = loop.todo /\ loop'.seen = loop.seen
           /\ upsert => /\ loop.pc = "put" /\ loop'.pc = loop.phase
                        /\ loop'.todo = loop.todo /\ loop'.seen = loop.seen
                        /\ heap' = [heap EXCEPT ![loop.id] = loop.next]
<1>1. ASSUME markRefreshPending
      PROVE  loop.pc = "mark" /\ loop'.pc \in {"send", "reread"} /\ SameHand /\ UNCHANGED heap
  BY <1>1 DEF markRefreshPending, LoopType, Loops, SameHand
<1>2. ASSUME RereadDue
      PROVE  /\ loop.pc = "reread" /\ loop'.pc = "put" /\ SameHand /\ UNCHANGED heap
             /\ loop'.next = nextRefreshCheckAt(loop.seen, auths[loop.id])
  <2> DEFINE next == nextRefreshCheckAt(loop.seen, auths[loop.id])
  <2>1. loop.pc = "reread" /\ loop' = [loop EXCEPT !.pc = "put", !.next = next] /\ UNCHANGED heap
    BY <1>2 DEF RereadDue
  <2> HIDE DEF next
  <2>2. loop'.pc = "put" /\ SameHand /\ loop'.next = next
    BY <2>1 DEF LoopType, Loops, SameHand
  <2> QED
    BY <2>1, <2>2 DEF next
<1>3. ASSUME SendJob
      PROVE  /\ loop.pc = "send" /\ loop'.pc = loop.phase /\ UNCHANGED heap
             /\ loop'.todo = loop.todo /\ loop'.seen = loop.seen
  BY <1>3 DEF SendJob, Back
<1>4. ASSUME upsert
      PROVE  /\ loop.pc = "put" /\ loop'.pc = loop.phase
             /\ loop'.todo = loop.todo /\ loop'.seen = loop.seen
             /\ heap' = [heap EXCEPT ![loop.id] = loop.next]
  BY <1>4 DEF upsert, Back
<1> QED
  BY <1>1, <1>2, <1>3, <1>4

\* The loop has taken id in hand.
TakesInHand(id) ==
    /\ loop'.pc \in {"put", "mark"} /\ loop'.phase = loop.pc /\ loop'.id = id
    /\ loop'.todo = loop.todo \ {id} /\ loop'.seen = loop.seen
    /\ loop'.pc = "put" => loop'.next = nextRefreshCheckAt(loop.seen, auths[id])

\* and with the credentials still to be taken in hand.
LEMMA TodoMoves ==
    ASSUME LoopType, NEW id \in Ids
    PROVE  /\ drainDirty => /\ loop.pc = "due" /\ loop.todo = {} /\ loop'.pc = "dirty"
                            /\ loop'.todo = dirty /\ loop'.seen = loop.seen /\ UNCHANGED heap
           /\ handleDueAuth(id) =>
                 /\ loop.pc = "due" /\ UNCHANGED <<auths, heap>>
                 /\ \/ /\ auths[id] = NoAuth /\ loop'.pc = "due" /\ loop'.todo = loop.todo \ {id}
                       /\ loop'.seen = loop.seen
                    \/ TakesInHand(id)
           /\ applyDirty(id) => loop.pc = "dirty" /\ UNCHANGED <<auths, heap>> /\ TakesInHand(id)
<1>1. ASSUME drainDirty
      PROVE  /\ loop.pc = "due" /\ loop.todo = {} /\ loop'.pc = "dirty"
             /\ loop'.todo = dirty /\ loop'.seen = loop.seen /\ UNCHANGED heap
  BY <1>1 DEF drainDirty
<1> DEFINE next == nextRefreshCheckAt(loop.seen, auths[id])
<1>2. ASSUME NEW pc \in {"put", "mark"}, NEW n, loop' = InHand(pc, id, n),
             pc = "put" => n = next
      PROVE  TakesInHand(id)
  <2> HIDE DEF next
  <2>1. /\ loop'.pc = pc /\ loop'.phase = loop.pc /\ loop'.id = id /\ loop'.next = n
        /\ loop'.todo = loop.todo \ {id} /\ loop'.seen = loop.seen
    BY <1>2 DEF InHand
  <2> QED
    BY <1>2, <2>1 DEF TakesInHand, next
<1>3. ASSUME handleDueAuth(id)
      PROVE  /\ loop.pc = "due" /\ UNCHANGED <<auths, heap>>
             /\ \/ /\ auths[id] = NoAuth /\ loop'.pc = "due" /\ loop'.todo = loop.todo \ {id}
                   /\ loop'.seen = loop.seen
                \/ TakesInHand(id)
  <2>1. loop.pc = "due" /\ UNCHANGED <<auths, heap>>
    BY <1>3 DEF handleDueAuth, outside
  <2>2. CASE auths[id] = NoAuth /\ loop' = [loop EXCEPT !.todo = @ \ {id}]
    BY <2>1, <2>2 DEF LoopType, Loops
  <2>3. CASE loop' = InHand("put", id, next)
    BY <1>2, <2>1, <2>3
  <2>4. CASE loop' = InHand("mark", id, 0)
    BY <1>2, <2>1, <2>4
  <2> QED
    BY <1>3, <2>2, <2>3, <2>4 DEF handleDueAuth
<1>4. ASSUME applyDirty(id)
      PROVE  loop.pc = "dirty" /\ UNCHANGED <<auths, heap>> /\ TakesInHand(id)
  BY <1>2, <1>4 DEF applyDirty, outside
<1> QED
  BY <1>1, <1>3, <1>4

\* A reschedule wakes the loop, once it is published.
LEMMA Reschedules ==
    ASSUME NEW id
    PROVE  /\ queueReschedule(id) => wake' /\ dirty' = dirty \cup {id} /\ orphaned' = orphaned \ {id}
           /\ queueRefreshReschedule(id) =>
                 \/ Published /\ wake' /\ dirty' = dirty \cup {id} /\ orphaned' = orphaned \ {id}
                 \/ ~Published /\ UNCHANGED <<dirty, wake, orphaned>>
BY DEF queueReschedule, queueRefreshReschedule

\* Whoever marks a credential dirty wakes the loop.
LEMMA AwakeStep ==
    ASSUME AuthType, LoopType, LoopInv, [Next]_vars
    PROVE  dirty' # {} => Awake'
<1> DEFINE Goal == dirty' # {} => Awake'
<1> USE DEF Awake
<1>1. dirty # {} => Awake
  BY DEF LoopInv
<1>2. loop.pc \in InHandPcs => loop.phase \in {"due", "dirty"}
  BY LoopKinds DEF InHandPcs
<1>3. ASSUME NEW id, queueReschedule(id) PROVE Goal
  BY <1>3, Reschedules
<1>4. ASSUME UNCHANGED <<dirty, wake, loop>> PROVE Goal
  BY <1>1, <1>4
<1>5. ASSUME NEW id, queueRefreshReschedule(id), UNCHANGED loop PROVE Goal
  BY <1>4, <1>5, Reschedules
<1>6. ASSUME LoopWoken \/ popDue PROVE Goal
  BY <1>6, SelectMoves
<1>7. ASSUME markRefreshPending PROVE Goal
  <2>1. CASE queueRefreshReschedule(loop.id)
    <3>1. Published
      BY <1>7, HandMoves DEF Published
    <3> QED
      BY <2>1, <3>1, Reschedules
  <2>2. CASE UNCHANGED <<dirty, wake>> /\ loop'.pc = "reread"
    BY <1>1, <1>7, <2>2, HandMoves DEF SameHand
  <2>3. \/ queueRefreshReschedule(loop.id)
        \/ UNCHANGED <<dirty, wake>> /\ loop' = [loop EXCEPT !.pc = "reread"]
    BY <1>7 DEF markRefreshPending
  <2>4. [loop EXCEPT !.pc = "reread"].pc = "reread"
    BY DEF LoopType, Loops
  <2> QED
    BY <2>1, <2>2, <2>3, <2>4
<1>8. ASSUME drainDirty PROVE Goal
  BY <1>8 DEF drainDirty
<1>9. ASSUME NEW p \in Callers, RefreshAnnounced(p) PROVE Goal
  BY <1>5, <1>9 DEF RefreshAnnounced
<1>10. ASSUME NEW p \in Callers, WorkerRequeue(p) PROVE Goal
  BY <1>3, <1>10 DEF WorkerRequeue
<1>11. ASSUME NEW e \in Editors, EditAnnounced(e) PROVE Goal
  BY <1>5, <1>11 DEF EditAnnounced
<1>12. ASSUME NEW e \in Editors, queueRefreshUnschedule(e) PROVE Goal
  BY <1>4, <1>12 DEF queueRefreshUnschedule
<1>13. ASSUME UNCHANGED <<dirty, wake>>
       PROVE  Goal \/ LoopWoken \/ popDue \/ markRefreshPending \/ drainDirty
  <2>1. CASE StartAutoRefresh \/ RebuildRead \/ RebuildInstall
    BY <1>1, <1>13, <2>1, RebuildMoves
  <2>2. CASE resetTimer
    BY <1>1, <1>13, <2>2, SelectMoves
  <2>3. CASE RereadDue \/ SendJob \/ upsert
    BY <1>1, <1>2, <1>13, <2>3, HandMoves DEF SameHand, InHandPcs
  <2>4. ASSUME NEW id \in Ids, handleDueAuth(id) PROVE Goal
    BY <2>4, TodoMoves DEF TakesInHand
  <2>5. ASSUME NEW id \in Ids, applyDirty(id) PROVE Goal
    BY <1>1, <1>13, <2>5, TodoMoves DEF TakesInHand
  <2>6. CASE UNCHANGED loop
    BY <1>4, <1>13, <2>6
  <2> QED
    BY <1>12, <2>1, <2>2, <2>3, <2>4, <2>5, <2>6, LoopFrame
<1> QED
  BY <1>6, <1>7, <1>8, <1>9, <1>10, <1>11, <1>12, <1>13, DirtyFrame

\* Every step keeps the loop awake while something is dirty.
LEMMA LoopInvStep ==
    ASSUME AuthType, EditType, LoopType, LoopInv, [Next]_vars
    PROVE  LoopInv'
<1> DEFINE A == loop'.pc \in {"off", "rebuild", "install"} => \A id \in Ids : heap'[id] = 0
           B == loop'.pc \in {"off", "rebuild", "install", "select"} => loop'.todo = {}
           C == loop'.pc \in {"due", "dirty", "mark", "reread", "send", "put"} => loop'.seen >= 1
           Goal == A /\ B /\ C
<1>1. /\ loop.pc \in {"off", "rebuild", "install"} => \A id \in Ids : heap[id] = 0
      /\ loop.pc \in {"off", "rebuild", "install", "select"} => loop.todo = {}
      /\ loop.pc \in {"due", "dirty", "mark", "reread", "send", "put"} => loop.seen >= 1
  BY DEF LoopInv
<1>2. loop.pc \in InHandPcs => loop.phase \in {"due", "dirty"}
  BY LoopKinds DEF InHandPcs
<1>3. now >= 1
  BY Clock
<1>4. ASSUME StartAutoRefresh \/ RebuildRead \/ RebuildInstall PROVE Goal
  BY <1>1, <1>3, <1>4, RebuildMoves
<1>5. ASSUME LoopWoken \/ popDue \/ resetTimer PROVE Goal
  BY <1>3, <1>5, SelectMoves
<1>6. ASSUME markRefreshPending \/ RereadDue \/ SendJob \/ upsert PROVE Goal
  BY <1>1, <1>2, <1>6, HandMoves DEF SameHand, InHandPcs
<1>7. ASSUME drainDirty PROVE Goal
  <2>1. loop.pc = "due" /\ loop'.pc = "dirty" /\ loop'.seen = loop.seen
    BY <1>7, TodoMoves DEF drainDirty
  <2> QED
    BY <1>1, <2>1
<1>8. ASSUME NEW id \in Ids, handleDueAuth(id) \/ applyDirty(id) PROVE Goal
  BY <1>1, <1>8, TodoMoves DEF TakesInHand
<1>9. ASSUME NEW e \in Editors, queueRefreshUnschedule(e) PROVE Goal
  <2>1. UNCHANGED loop /\ \A id \in Ids : heap'[id] \in {0, heap[id]}
    BY <1>9 DEF queueRefreshUnschedule, LoopType
  <2> QED
    BY <1>1, <2>1
<1>10. ASSUME UNCHANGED <<loop, heap>> PROVE Goal
  BY <1>1, <1>10
<1>11. Goal
  BY <1>4, <1>5, <1>6, <1>7, <1>8, <1>9, <1>10, LoopFrame
<1> QED
  BY <1>11, AwakeStep DEF LoopInv

(***************************************************************************)
(* No credential is forgotten.                                             *)
(***************************************************************************)
LEMMA DueLater ==
    ASSUME AuthType, [Next]_vars, NEW id \in Ids, auths'[id] = auths[id]
    PROVE  /\ Due(id) \in Nat /\ Due(id)' \in Nat /\ Due(id) <= Due(id)'
           /\ Due(id) = 0 <=> Due(id)' = 0
<1>1. PICK a \in AuthRec \cup {NoAuth} : a = auths[id]
  BY DEF AuthType
<1>2. now \in Nat /\ now >= 1 /\ now' \in Nat /\ now' >= now
  BY Clock, ClockStep
<1>3. /\ nextRefreshCheckAt(now, a) \in Nat /\ nextRefreshCheckAt(now', a) \in Nat
      /\ nextRefreshCheckAt(now, a) <= nextRefreshCheckAt(now', a)
      /\ nextRefreshCheckAt(now, a) = 0 <=> nextRefreshCheckAt(now', a) = 0
  BY <1>2, CheckLater
<1>4. Due(id) = nextRefreshCheckAt(now, a)
  BY <1>1 DEF Due
<1>5. Due(id)' = nextRefreshCheckAt(now, a)'
  BY <1>1 DEF Due
<1>6. nextRefreshCheckAt(now, a)' = nextRefreshCheckAt(now', a)
  BY DEF nextRefreshCheckAt
<1> QED
  BY <1>3, <1>4, <1>5, <1>6

\* What is in time for a credential stays so while it is not written.
LEMMA InTimeStays ==
    ASSUME AuthType, [Next]_vars, NEW id \in Ids, auths'[id] = auths[id], NEW t, InTime(t, id)
    PROVE  InTime(t, id)'
<1>1. /\ Due(id) \in Nat /\ Due(id)' \in Nat /\ Due(id) <= Due(id)'
  BY DueLater
<1>2. t \in 1..Due(id)
  BY DEF InTime, Due
<1>3. t \in 1..Due(id)'
  BY <1>1, <1>2
<1> QED
  BY <1>3 DEF InTime, Due

\* A look at the loop's time is in time.
LEMMA CheckInTime ==
    ASSUME AuthType, NEW t \in Nat, 1 <= t, t <= now, NEW id \in Ids, Due(id) # 0
    PROVE  InTime(nextRefreshCheckAt(t, auths[id]), id)
<1>1. PICK a \in AuthRec \cup {NoAuth} : a = auths[id]
  BY DEF AuthType
<1>2. now \in Nat
  BY Clock
<1>3. /\ nextRefreshCheckAt(t, a) \in Nat /\ nextRefreshCheckAt(now, a) \in Nat
      /\ nextRefreshCheckAt(t, a) <= nextRefreshCheckAt(now, a)
      /\ nextRefreshCheckAt(t, a) = 0 <=> nextRefreshCheckAt(now, a) = 0
  BY <1>2, CheckLater
<1> QED
  BY <1>1, <1>3 DEF InTime, Due

\* Who is about to reschedule a credential does so, and only the loop takes the mark.
LEMMA CaredStays ==
    ASSUME AuthType, CallType, EditType, LoopType, OwnInv, [Next]_vars, Published, NEW id \in Ids,
           Cared(id), ~(drainDirty /\ id \in dirty)
    PROVE  Cared(id)'
<1>1. ASSUME NEW i, queueReschedule(i) \/ queueRefreshReschedule(i), i = id \/ id \in dirty \/ id \in orphaned
      PROVE  id \in dirty' \/ id \in orphaned'
  BY <1>1, Reschedules
<1>2. CASE id \in dirty \/ id \in orphaned
  <2>1. CASE UNCHANGED <<dirty, wake, orphaned>>
    BY <1>2, <2>1 DEF Cared
  <2>2. CASE LoopWoken
    BY <1>2, <2>2 DEF LoopWoken, outside, Cared
  <2>3. CASE markRefreshPending
    BY <1>1, <1>2, <2>3 DEF markRefreshPending, Cared
  <2>4. CASE drainDirty
    BY <1>2, <2>4 DEF drainDirty, outside, Cared
  <2>5. ASSUME NEW p \in Callers, RefreshAnnounced(p) \/ WorkerRequeue(p) PROVE Cared(id)'
    BY <1>1, <1>2, <2>5 DEF RefreshAnnounced, WorkerRequeue, Cared
  <2>6. ASSUME NEW e \in Editors, EditAnnounced(e) PROVE Cared(id)'
    BY <1>1, <1>2, <2>6 DEF EditAnnounced, Cared
  <2>7. ASSUME NEW e \in Editors, queueRefreshUnschedule(e) PROVE Cared(id)'
    BY <1>2, <2>7 DEF queueRefreshUnschedule, Cared
  <2> QED
    BY <2>1, <2>2, <2>3, <2>4, <2>5, <2>6, <2>7, DirtyFrame
<1>3. ASSUME NEW p \in Callers, call[p].pc \in {"announce", "again"}, call[p].id = id
      PROVE  Cared(id)'
  <2>1. CASE CallKept(p)
    BY <1>3, <2>1 DEF CallKept, Cared
  <2>2. CASE RefreshAnnounced(p) \/ WorkerRequeue(p)
    BY <1>1, <1>3, <2>2 DEF RefreshAnnounced, WorkerRequeue, Cared
  <2> QED
    BY <1>3, <2>1, <2>2, CallStep
<1>4. ASSUME NEW e \in Editors, edit[e].pc = "announce", edit[e].id = id PROVE Cared(id)'
  <2>1. CASE EditKept(e)
    BY <1>4, <2>1 DEF EditKept, Cared
  <2>2. CASE EditAnnounced(e)
    BY <1>1, <1>4, <2>2 DEF EditAnnounced, Cared
  <2> QED
    BY <1>4, <2>1, <2>2, EditStep
<1> QED
  BY <1>2, <1>3, <1>4 DEF Cared

\* Who changes a credential reschedules it.
LEMMA AuthsCared ==
    ASSUME AuthType, CallType, EditType, LoopType, OwnInv, [Next]_vars, Published, NEW id \in Ids,
           auths'[id] # auths[id], Present(id)'
    PROVE  Cared(id)'
<1>1. CASE markRefreshPending
  <2>1. loop.id = id
    BY <1>1, MarkEffect DEF Touched, AuthType
  <2>2. queueRefreshReschedule(loop.id)
    BY <1>1 DEF markRefreshPending
  <2> QED
    BY <2>1, <2>2, Reschedules DEF Cared
<1>2. ASSUME NEW p \in Callers, NEW err \in {"unauthorized", "failed"}, Fails(p, err)
      PROVE  Cared(id)'
  <2>1. /\ call[p].id = id
        /\ call' = [call EXCEPT ![p] = [pc |-> "announce", id |-> call[p].id, saved |-> NoAuth]]
    BY <1>2, FailsEffect DEF Touched, AuthType
  <2> QED
    BY <2>1 DEF CallType, Cared
<1>6. ASSUME NEW p \in Callers, NEW new \in BOOLEAN, RefreshSucceeds(p, new) PROVE Cared(id)'
  <2>1. /\ call[p].id = id
        /\ call' = [call EXCEPT ![p] = [pc |-> "announce", id |-> call[p].id,
                                        saved |-> Saving(auths'[call[p].id])]]
    BY <1>6, SucceedsEffect DEF Rewritten, AuthType
  <2> QED
    BY <2>1 DEF CallType, Cared
<1>3. ASSUME NEW e \in Editors, Writes(e) PROVE Cared(id)'
  <2>1. edit[e].id = id /\ Kept(e, id)
    BY <1>3, WriteEffect DEF Rewritten, AuthType, Refused, Replaces, Restores
  <2> QED
    BY <2>1 DEF Kept, EditType, Cared
<1>4. ASSUME NEW e \in Editors, Register(e) PROVE Cared(id)'
  <2>1. edit[e].id = id /\ Kept(e, id)
    BY <1>4, RegisterEffect DEF AuthType
  <2> QED
    BY <2>1 DEF Kept, EditType, Cared
<1>5. ASSUME NEW e \in Editors, NEW i \in Ids, Remove(e, i) PROVE FALSE
  BY <1>5, RemoveEffect DEF AuthType, Present
<1> QED
  BY <1>1, <1>2, <1>3, <1>4, <1>5, <1>6, AuthFrame

\* What is scheduled stays so, or someone cares for it.
LEMMA ScheduledStays ==
    ASSUME AuthType, CallType, EditType, LoopType, OwnInv, LoopInv, PutInv, [Next]_vars, Published,
           NEW id \in Ids, auths'[id] = auths[id], Due(id) # 0, Scheduled(id)
    PROVE  Scheduled(id)' \/ Cared(id)'
<1> DEFINE Goal == Scheduled(id)' \/ Cared(id)'
           InHeap == InTime(heap[id], id) /\ (loop.pc = "select" => TimerSetFor(heap[id]))
<1>1. \A t : InTime(t, id) => InTime(t, id)'
  BY InTimeStays
<1>2. ASSUME InTime(heap[id], id), heap'[id] = heap[id], loop'.pc # "select" PROVE Goal
  <2>1. PICK t : t = heap[id]
    OBVIOUS
  <2>2. InTime(t, id)'
    BY <1>1, <1>2, <2>1
  <2> QED
    BY <1>2, <2>1, <2>2 DEF InTime, Scheduled
<1>3. ASSUME NEW t, InTime(t, id), loop'.pc = "put", loop'.id = id, loop'.next = t PROVE Goal
  <2>1. InTime(t, id)'
    BY <1>1, <1>3
  <2> QED
    BY <1>3, <2>1 DEF InTime, Scheduled
<1>4. /\ loop.pc \in {"off", "rebuild", "install"} => heap[id] = 0
      /\ loop.pc \in {"off", "rebuild", "install", "select"} => loop.todo = {}
      /\ loop.pc \in {"due", "dirty", "mark", "reread", "send", "put"} => loop.seen >= 1
  BY DEF LoopInv
<1>5. loop.pc \in InHandPcs => loop.phase \in {"due", "dirty"} /\ loop.id \in Ids
  BY LoopKinds DEF InHandPcs
<1>6. loop.seen \in Nat /\ loop.seen <= now
  BY LoopKinds DEF LoopType
<1>7. ASSUME loop.pc \in {"due", "dirty", "reread"}
      PROVE  InTime(nextRefreshCheckAt(loop.seen, auths[id]), id)
  BY <1>4, <1>6, <1>7, CheckInTime
<1>8. ASSUME loop.pc \in {"off", "rebuild", "install"} PROVE ~InTime(heap[id], id)
  BY <1>4, <1>8 DEF InTime
<1>9. ASSUME RebuildRead PROVE Goal
  <2>1. PICK t : t = Due(id)
    OBVIOUS
  <2>2. InTime(t, id)
    BY <2>1, DueLater DEF InTime, Due
  <2>3. InTime(t, id)'
    BY <1>1, <2>2
  <2>4. loop'.pc = "install" /\ loop'.plan[id] = t
    BY <1>9, <2>1, RebuildMoves DEF Due
  <2> QED
    BY <2>3, <2>4 DEF InTime, Scheduled
<1>10. ASSUME RebuildInstall PROVE Goal
  <2>1. loop.pc = "install" /\ loop'.pc = "dirty" /\ heap' = loop.plan
    BY <1>10, RebuildMoves
  <2>2. InTime(loop.plan[id], id)
    BY <1>4, <1>8, <2>1 DEF Scheduled
  <2>3. PICK t : t = loop.plan[id]
    OBVIOUS
  <2>4. InTime(t, id)'
    BY <1>1, <2>2, <2>3
  <2> QED
    BY <2>1, <2>3, <2>4 DEF InTime, Scheduled
<1>11. ASSUME LoopWoken \/ popDue PROVE Goal
  <2>1. loop.pc = "select" /\ loop'.pc = "due" /\ (heap'[id] = heap[id] \/ id \in loop'.todo)
    BY <1>11, SelectMoves
  <2>2. InTime(heap[id], id)
    BY <1>4, <2>1 DEF Scheduled
  <2>3. CASE id \in loop'.todo
    BY <2>3 DEF Scheduled
  <2> QED
    BY <1>2, <2>1, <2>2, <2>3
<1>12. ASSUME resetTimer PROVE Goal
  <2>1. /\ loop.pc = "dirty" /\ loop.todo = {} /\ UNCHANGED heap /\ loop'.pc = "select"
        /\ heap[id] # 0 => TimerSet(timer', heap[id])
        /\ UNCHANGED now /\ loop'.seen = loop.seen
    BY <1>12, SelectMoves
  <2>2. InTime(heap[id], id) /\ heap[id] # 0
    BY <2>1 DEF Scheduled, InTime
  <2>3. PICK t : t = heap[id]
    OBVIOUS
  <2>4. InTime(t, id)'
    BY <1>1, <2>2, <2>3
  <2>5. TimerSetFor(t)'
    BY <2>1, <2>2, <2>3 DEF TimerSet, TimerSetFor
  <2> QED
    BY <2>1, <2>2, <2>3, <2>4, <2>5 DEF InTime, TimerSetFor, Scheduled
<1>13. ASSUME markRefreshPending PROVE Goal
  <2>1. loop.pc = "mark" /\ loop'.pc \in {"send", "reread"} /\ SameHand /\ UNCHANGED heap
    BY <1>13, HandMoves
  <2>2. CASE InTime(heap[id], id)
    BY <1>2, <2>1, <2>2
  <2>3. CASE id \in loop.todo
    BY <2>1, <2>3 DEF SameHand, Scheduled
  <2>4. CASE loop.id = id /\ loop'.pc = "reread"
    BY <2>1, <2>4 DEF SameHand, Scheduled
  <2>5. CASE loop.id = id /\ loop'.pc = "send"
    <3>1. queueRefreshReschedule(loop.id)
      <4>1. [loop EXCEPT !.pc = "reread"].pc = "reread"
        BY DEF LoopType, Loops
      <4> QED
        BY <1>13, <2>5, <4>1 DEF markRefreshPending
    <3> QED
      BY <2>5, <3>1, Reschedules DEF Cared
  <2> QED
    BY <2>1, <2>2, <2>3, <2>4, <2>5 DEF Scheduled
<1>14. ASSUME RereadDue PROVE Goal
  <2>1. /\ loop.pc = "reread" /\ loop'.pc = "put" /\ SameHand /\ UNCHANGED heap
        /\ loop'.next = nextRefreshCheckAt(loop.seen, auths[loop.id])
    BY <1>14, HandMoves
  <2>2. CASE InTime(heap[id], id)
    BY <1>2, <2>1, <2>2
  <2>3. CASE id \in loop.todo
    BY <2>1, <2>3 DEF SameHand, Scheduled
  <2>4. CASE loop.id = id
    BY <1>3, <1>7, <2>1, <2>4 DEF SameHand
  <2> QED
    BY <2>1, <2>2, <2>3, <2>4 DEF Scheduled
<1>15. ASSUME SendJob PROVE Goal
  <2>1. /\ loop.pc = "send" /\ loop'.pc = loop.phase /\ UNCHANGED heap /\ loop'.todo = loop.todo
    BY <1>15, HandMoves
  <2>2. loop'.pc # "select"
    BY <1>5, <2>1 DEF InHandPcs
  <2>3. CASE InTime(heap[id], id)
    BY <1>2, <2>1, <2>2, <2>3
  <2>4. CASE id \in loop.todo
    BY <2>1, <2>4 DEF Scheduled
  <2> QED
    BY <2>1, <2>3, <2>4 DEF Scheduled
<1>16. ASSUME upsert PROVE Goal
  <2>1. /\ loop.pc = "put" /\ loop'.pc = loop.phase /\ loop'.todo = loop.todo
        /\ heap' = [heap EXCEPT ![loop.id] = loop.next]
    BY <1>16, HandMoves
  <2>2. loop'.pc # "select" /\ loop.id \in Ids
    BY <1>5, <2>1 DEF InHandPcs
  <2>3. CASE id \in loop.todo
    BY <2>1, <2>3 DEF Scheduled
  <2>4. CASE loop.id # id /\ InTime(heap[id], id)
    BY <1>2, <2>1, <2>2, <2>4 DEF LoopType
  <2>5. CASE loop.id = id /\ InTime(loop.next, id)
    <3>1. PICK t : t = loop.next
      OBVIOUS
    <3>2. InTime(t, id)' /\ heap'[id] = t
      BY <1>1, <2>1, <2>5, <3>1 DEF LoopType
    <3> QED
      BY <2>2, <3>2 DEF InTime, Scheduled
  <2>6. CASE Cared(id)
    <3>1. ~drainDirty
      BY <2>1 DEF drainDirty
    <3> QED
      BY <2>6, <3>1, CaredStays
  <2> QED
    BY <2>1, <2>3, <2>4, <2>5, <2>6 DEF Scheduled, PutInv
<1>17. ASSUME drainDirty PROVE Goal
  <2>1. loop.pc = "due" /\ loop.todo = {} /\ loop'.pc = "dirty" /\ UNCHANGED heap
    BY <1>17, TodoMoves
  <2> QED
    BY <1>2, <2>1 DEF Scheduled
<1>18. ASSUME NEW i \in Ids, loop.pc \in {"due", "dirty"}, TakesInHand(i), UNCHANGED heap PROVE Goal
  <2>1. CASE InTime(heap[id], id)
    BY <1>2, <1>18, <2>1 DEF TakesInHand
  <2>2. CASE id \in loop.todo /\ id # i
    BY <1>18, <2>2 DEF TakesInHand, Scheduled
  <2>3. CASE id = i /\ loop'.pc = "mark"
    BY <1>18, <2>3 DEF TakesInHand, Scheduled
  <2>4. CASE id = i /\ loop'.pc = "put"
    BY <1>3, <1>7, <1>18, <2>4 DEF TakesInHand
  <2> QED
    BY <1>18, <2>1, <2>2, <2>3, <2>4 DEF TakesInHand, Scheduled
<1>19. ASSUME NEW i \in Ids, handleDueAuth(i) PROVE Goal
  <2>1. loop.pc = "due" /\ UNCHANGED heap
    BY <1>19, TodoMoves
  <2>2. CASE TakesInHand(i)
    BY <1>18, <2>1, <2>2
  <2>3. CASE auths[i] = NoAuth /\ loop'.pc = "due" /\ loop'.todo = loop.todo \ {i}
    <3>1. id # i
      BY <2>3, CheckAtNone DEF Due
    <3>2. CASE InTime(heap[id], id)
      BY <1>2, <2>1, <2>3, <3>2
    <3>3. CASE id \in loop.todo
      BY <2>3, <3>1, <3>3 DEF Scheduled
    <3> QED
      BY <2>1, <3>2, <3>3 DEF Scheduled
  <2> QED
    BY <1>19, <2>2, <2>3, TodoMoves
<1>20. ASSUME NEW i \in Ids, applyDirty(i) PROVE Goal
  BY <1>18, <1>20, TodoMoves
<1>21. ASSUME UNCHANGED <<loop, timer>>, heap'[id] = heap[id] PROVE Goal
  <2>1. CASE InHeap
    <3>1. PICK t : t = heap[id]
      OBVIOUS
    <3>2. InTime(t, id)'
      BY <1>1, <2>1, <3>1
    <3>3. ASSUME TimerSetFor(t) PROVE TimerSetFor(t)'
      <4>1. t \in Nat
        BY <3>1 DEF LoopType
      <4>2. Max({t, loop.seen}) \in Nat
        BY <1>6, <4>1, MaxOfTwo
      <4>3. now \in Nat /\ now' \in Nat /\ now' >= now
        BY Clock, ClockStep
      <4>4. PICK m \in Nat : m = Max({t, loop.seen})
        BY <4>2
      <4>5. timer \in 1..(m + (now' - loop.seen))
        BY <1>6, <3>3, <4>3, <4>4 DEF TimerSetFor
      <4> QED
        BY <1>21, <4>4, <4>5 DEF TimerSetFor
    <3> QED
      BY <1>21, <2>1, <3>1, <3>2, <3>3 DEF InTime, TimerSetFor, Scheduled
  <2>2. CASE loop.pc = "install" /\ InTime(loop.plan[id], id)
    <3>1. PICK t : t = loop.plan[id]
      OBVIOUS
    <3>2. InTime(t, id)'
      BY <1>1, <2>2, <3>1
    <3> QED
      BY <1>21, <2>2, <3>1, <3>2 DEF InTime, Scheduled
  <2>3. CASE loop.pc = "put" /\ loop.id = id /\ InTime(loop.next, id)
    BY <1>3, <1>21, <2>3
  <2>4. CASE \/ loop.pc = "rebuild" \/ id \in loop.todo
             \/ loop.pc \in {"mark", "reread"} /\ loop.id = id
    BY <1>21, <2>4 DEF Scheduled
  <2> QED
    BY <2>1, <2>2, <2>3, <2>4 DEF Scheduled
<1>22. ASSUME NEW e \in Editors, queueRefreshUnschedule(e) PROVE Goal
  <2>1. UNCHANGED <<loop, timer>>
    BY <1>22 DEF queueRefreshUnschedule
  <2>2. CASE edit[e].id # id
    <3>1. heap'[id] = heap[id]
      BY <1>22, <2>2 DEF queueRefreshUnschedule, LoopType
    <3> QED
      BY <1>21, <2>1, <3>1
  <2>3. CASE edit[e].id = id
    <3>1. Present(id)
      BY CheckAtNone DEF Due, Present
    <3>2. id \in orphaned'
      BY <1>22, <2>3, <3>1 DEF queueRefreshUnschedule
    <3> QED
      BY <3>2 DEF Cared
  <2> QED
    BY <2>2, <2>3
<1>23. ~StartAutoRefresh
  BY DEF StartAutoRefresh, Published
<1>24. CASE UNCHANGED <<loop, heap, timer>>
  BY <1>21, <1>24
<1> QED
  BY <1>9, <1>10, <1>11, <1>12, <1>13, <1>14, <1>15, <1>16, <1>17, <1>19, <1>20, <1>22, <1>23,
     <1>24, LoopFrame

\* Published for good.
LEMMA StaysPublished ==
    ASSUME AuthType, LoopType, [Next]_vars, Published'
    PROVE  Published \/ loop'.pc = "rebuild"
<1>1. CASE UNCHANGED loop
  BY <1>1 DEF Published
<1>2. CASE StartAutoRefresh
  BY <1>2, RebuildMoves
<1>3. CASE RebuildRead \/ RebuildInstall
  BY <1>3, RebuildMoves DEF Published
<1>4. CASE LoopWoken \/ popDue \/ resetTimer
  BY <1>4, SelectMoves DEF Published
<1>5. CASE markRefreshPending \/ RereadDue \/ SendJob \/ upsert
  BY <1>5, HandMoves DEF Published
<1>6. CASE drainDirty
  BY <1>6 DEF drainDirty, Published
<1>7. ASSUME NEW id \in Ids, handleDueAuth(id) \/ applyDirty(id) PROVE Published
  BY <1>7, TodoMoves DEF Published
<1>8. ASSUME NEW e \in Editors, queueRefreshUnschedule(e) PROVE UNCHANGED loop
  BY <1>8 DEF queueRefreshUnschedule
<1> QED
  BY <1>1, <1>2, <1>3, <1>4, <1>5, <1>6, <1>7, <1>8, LoopFrame

\* Every step keeps each credential scheduled or cared for.
LEMMA KeptStep ==
    ASSUME AuthType, CallType, EditType, LoopType, OwnInv, LoopInv, KeptInv, PutInv, [Next]_vars
    PROVE  KeptInv'
<1> SUFFICES ASSUME Published', NEW id \in Ids, Due(id)' # 0
             PROVE  Scheduled(id)' \/ Cared(id)'
  BY DEF KeptInv
<1>1. CASE loop'.pc = "rebuild"
  BY <1>1 DEF Scheduled
<1>2. CASE Published
  <2>1. CASE auths'[id] # auths[id]
    <3>1. Present(id)'
      <4>1. auths'[id] # NoAuth
        BY CheckAtNone DEF Due, nextRefreshCheckAt
      <4> QED
        BY <4>1 DEF Present
    <3> QED
      BY <1>2, <2>1, <3>1, AuthsCared
  <2>2. CASE auths'[id] = auths[id]
    <3>1. Due(id) # 0
      BY <2>2, DueLater
    <3>2. CASE Scheduled(id)
      BY <1>2, <2>2, <3>1, <3>2, ScheduledStays
    <3>3. CASE Cared(id) /\ ~(drainDirty /\ id \in dirty)
      BY <1>2, <3>3, CaredStays
    <3>4. CASE drainDirty /\ id \in dirty
      BY <3>4, TodoMoves DEF Scheduled
    <3> QED
      BY <1>2, <3>1, <3>2, <3>3, <3>4 DEF KeptInv
  <2> QED
    BY <2>1, <2>2
<1> QED
  BY <1>1, <1>2, StaysPublished

\* Every step keeps what is about to be put into the heap in time.
LEMMA PutStep ==
    ASSUME AuthType, CallType, EditType, LoopType, OwnInv, LoopInv, PutInv, [Next]_vars
    PROVE  PutInv'
<1> SUFFICES ASSUME NEW id \in Ids, loop'.pc = "put", loop'.id = id, Due(id)' # 0
             PROVE  InTime(loop.next, id)' \/ id \in loop'.todo \/ Cared(id)'
  BY DEF PutInv
<1>1. ASSUME NEW t, InTime(t, id), auths'[id] = auths[id], loop'.next = t
      PROVE  InTime(loop.next, id)'
  <2>1. InTime(t, id)'
    BY <1>1, InTimeStays
  <2> QED
    BY <1>1, <2>1 DEF InTime
<1>2. loop.seen \in Nat /\ loop.seen <= now
  BY LoopKinds DEF LoopType
<1>3. loop.pc \in {"due", "dirty", "mark", "reread", "send", "put"} => loop.seen >= 1
  BY DEF LoopInv
<1>4. ASSUME UNCHANGED auths, loop.pc \in {"due", "dirty", "reread"},
             loop'.next = nextRefreshCheckAt(loop.seen, auths[id])
      PROVE  InTime(loop.next, id)'
  <2>1. Due(id) # 0
    BY <1>4, DueLater
  <2>2. InTime(nextRefreshCheckAt(loop.seen, auths[id]), id)
    BY <1>2, <1>3, <1>4, <2>1, CheckInTime
  <2> QED
    BY <1>1, <1>4, <2>2
<1>5. CASE UNCHANGED loop
  <2>1. Published /\ ~drainDirty
    BY <1>5 DEF Published, drainDirty
  <2>2. CASE auths'[id] # auths[id]
    <3>1. Present(id)'
      <4>1. auths'[id] # NoAuth
        BY CheckAtNone DEF Due, nextRefreshCheckAt
      <4> QED
        BY <4>1 DEF Present
    <3> QED
      BY <2>1, <2>2, <3>1, AuthsCared
  <2>3. CASE auths'[id] = auths[id]
    <3>1. Due(id) # 0
      BY <2>3, DueLater
    <3>2. CASE Cared(id)
      BY <2>1, <3>2, CaredStays
    <3>3. CASE InTime(loop.next, id)
      BY <1>1, <1>5, <2>3, <3>3
    <3> QED
      BY <1>5, <3>1, <3>2, <3>3 DEF PutInv
  <2> QED
    BY <2>2, <2>3
<1>6. CASE RereadDue
  <2>1. loop.id = id /\ UNCHANGED auths
    BY <1>6, HandMoves DEF SameHand, RereadDue, outside
  <2> QED
    BY <1>4, <1>6, <2>1, HandMoves
<1>7. ASSUME NEW i \in Ids, handleDueAuth(i) \/ applyDirty(i) PROVE InTime(loop.next, id)'
  <2>1. TakesInHand(i) /\ UNCHANGED auths /\ loop.pc \in {"due", "dirty"}
    BY <1>7, TodoMoves
  <2> QED
    BY <1>4, <2>1 DEF TakesInHand
<1>8. CASE \/ StartAutoRefresh \/ RebuildRead \/ RebuildInstall \/ LoopWoken \/ popDue \/ resetTimer
           \/ drainDirty
  BY <1>8, RebuildMoves, SelectMoves DEF drainDirty
<1>9. CASE markRefreshPending
  BY <1>9, HandMoves
<1>10. CASE SendJob \/ upsert
  BY <1>10, HandMoves, LoopKinds
<1>11. ASSUME NEW e \in Editors, queueRefreshUnschedule(e) PROVE UNCHANGED loop
  BY <1>11 DEF queueRefreshUnschedule
<1> QED
  BY <1>5, <1>6, <1>7, <1>8, <1>9, <1>10, <1>11, LoopFrame

(***************************************************************************)
(* The invariant and what follows.                                         *)
(***************************************************************************)
LEMMA RefreshIndInit == Init => RefreshInd
<1> SUFFICES ASSUME Init PROVE RefreshInd
  OBVIOUS
<1> DEFINE fresh == [epoch |-> 1, gen |-> 1, token |-> 1, due |-> now + Life, nra |-> 0,
                     err |-> "none", errOf |-> 0, down |-> FALSE, note |-> 0]
           first == [fresh EXCEPT !.due = now]
<1>1. Login(1, 1, 1, 0) = fresh
  BY DEF Login
<1>2. now = 1 /\ MaxTime \in Nat /\ MaxTime >= 1 /\ now + Life \in Nat
  BY RefreshAssumption DEF Init
<1>3. \A id \in Ids : auths[id] = first
  BY <1>1 DEF Init
<1>4. fresh \in AuthRec /\ fresh.epoch = 1 /\ fresh.token = 1 /\ fresh.err = "none" /\ fresh.note = 0
  BY <1>2 DEF AuthRec
<1> HIDE DEF fresh
<1>5. first \in AuthRec /\ first.epoch = 1 /\ first.token = 1 /\ first.err = "none" /\ first.note = 0
  BY <1>2, <1>4 DEF AuthRec
<1>6. auths = [id \in Ids |-> first]
  BY <1>1 DEF Init
<1> HIDE DEF first
<1>7. first # NoAuth
  BY <1>5 DEF AuthRec, NoAuth
<1>8. <<1>> \in Seq(Nat) /\ Len(<<1>>) = 1 /\ <<1>>[1] = 1
  OBVIOUS
<1>9. AuthType
  <2>1. auths \in [Ids -> AuthRec \cup {NoAuth}]
    BY <1>5, <1>6
  <2>2. authEpochs \in [Ids -> Nat \ {0}] /\ noted \in [Ids -> Nat] /\ events \in Nat
    BY DEF Init
  <2>3. owner \in [Ids -> Seq(Nat)]
    BY <1>8 DEF Init
  <2>4. now \in 1..MaxTime
    BY <1>2
  <2> QED
    BY <2>1, <2>2, <2>3, <2>4 DEF AuthType
<1>10. CallType /\ EditType
  BY DEF Init, CallType, EditType, Calls, Edits
<1>11. StoreType /\ SpentType
  BY DEF Init, StoreType, SpentType
<1>12. LoopType
  <2>1. loop \in Loops /\ loop.seen <= now
    BY <1>2 DEF Init, Loops
  <2>2. jobs \in Seq(Ids) /\ Len(jobs) <= JobBuffer
    BY RefreshAssumption DEF Init
  <2>3. heap \in [Ids -> Nat] /\ timer \in Nat /\ dirty \subseteq Ids /\ wake \in BOOLEAN
    BY DEF Init
  <2> QED
    BY <2>1, <2>2, <2>3 DEF LoopType
<1>13. \A id \in Ids : /\ auths[id] = first /\ Present(id) /\ authEpochs[id] = 1
                       /\ owner[id] = <<1>> /\ store[id] = <<1, 0>> /\ watermark[id] = <<0, 0>>
                       /\ noted[id] = 0 /\ spent[id] = {} /\ heap[id] = 0
  BY <1>6, <1>7 DEF Init, Present
<1>14. /\ \A p \in Callers : call[p].pc = "idle"
       /\ \A e \in Editors : edit[e].pc = "idle"
  BY DEF Init, Idle
<1>15. OwnInv
  BY <1>5, <1>8, <1>13, <1>14 DEF OwnInv, Issued
<1>16. LastNoteStands
  BY <1>5, <1>13 DEF LastNoteStands
<1>17. \A id \in Ids : Savings(id) = {}
  BY <1>14 DEF Savings
<1>18. MarkInv
  BY <1>13, <1>17 DEF MarkInv, Reached
<1>19. SaveInv
  BY <1>5, <1>13, <1>17 DEF SaveInv
<1>20. SpentInv
  BY <1>13, <1>14 DEF SpentInv
<1>21. LoopInv /\ KeptInv /\ PutInv
  BY <1>13 DEF Init, LoopInv, KeptInv, PutInv, Published
<1> QED
  BY <1>9, <1>10, <1>11, <1>12, <1>15, <1>16, <1>18, <1>19, <1>20, <1>21 DEF RefreshInd

\* The invariant is inductive.
LEMMA RefreshIndStep == RefreshInd /\ [Next]_vars => RefreshInd'
<1> SUFFICES ASSUME RefreshInd, [Next]_vars PROVE RefreshInd'
  OBVIOUS
<1> USE DEF RefreshInd
<1>1. AuthType' /\ CallType' /\ EditType' /\ StoreType' /\ LoopType' /\ SpentType'
  BY AuthTypeStep, CallTypeStep, EditTypeStep, StoreTypeStep, LoopTypeStep, SpentTypeStep
<1>2. OwnInv' /\ LastNoteStands' /\ MarkInv' /\ SaveInv' /\ SpentInv'
  BY OwnStep, NoteStep, MarkStep, SaveStep, SpentStep
<1>3. LoopInv' /\ KeptInv' /\ PutInv'
  BY LoopInvStep, KeptStep, PutStep
<1> QED
  BY <1>1, <1>2, <1>3

\* RefreshInd holds throughout: the loop, its workers, the requests that refresh
\* inline and the editors keep it in every step (authAutoRefreshLoop, Manager).
THEOREM RefreshInvariant == Spec => []RefreshInd
BY RefreshIndInit, RefreshIndStep, PTL DEF Spec

\* A late answer marks no later registration and undoes no edit, and the store
\* ends with what the manager holds (UpdateRefreshedAuth, MergeRefreshedAuth,
\* persist).
THEOREM RefreshCorrect == Spec => []RefreshInv
<1>1. ASSUME RefreshInd PROVE RefreshInv
  <2> USE DEF RefreshInd
  <2>1. \A id \in Ids : auths[id].epoch \in 0..authEpochs[id]
    <3> SUFFICES ASSUME NEW id \in Ids PROVE auths[id].epoch \in 0..authEpochs[id]
      OBVIOUS
    <3>1. authEpochs[id] \in Nat
      BY <1>1 DEF AuthType
    <3> QED
      BY <1>1, <3>1, PresentRec DEF OwnInv, Issued
  <2>2. TypeOK
    BY <1>1, <2>1, LoopKinds DEF TypeOK, AuthType, LoopType
  <2>3. OwnRegistration
    BY <1>1 DEF OwnRegistration, OwnInv, Issued
  <2>4. SavedCatchesUp
    <3> SUFFICES ASSUME NEW id \in Ids, Present(id), id \notin unsaved,
                        store[id] # <<auths[id].token, auths[id].note>>
                 PROVE  \/ \E p \in Callers : call[p].pc = "announce" /\ call[p].id = id
                        \/ \E e \in Editors : edit[e].pc = "announce" /\ edit[e].id = id
      BY DEF SavedCatchesUp
    <3>1. Savings(id) # {}
      BY <1>1 DEF SaveInv
    <3> QED
      BY <3>1 DEF Savings
  <2> QED
    BY <1>1, <2>2, <2>3, <2>4 DEF RefreshInv
<1> QED
  BY <1>1, RefreshInvariant, PTL

\* No credential that can be refreshed is forgotten by the loop
\* (authAutoRefreshLoop.rebuild, handleDueAuth, applyDirty, resetTimer), except
\* one that a late removal unscheduled.
THEOREM NeverForgotten == Spec => []NotForgotten
<1>1. ASSUME RefreshInd PROVE NotForgotten
  <2> SUFFICES ASSUME Published, NEW id \in Ids, nextRefreshCheckAt(now, auths[id]) # 0,
                      ~ \E p \in Callers : call[p].pc \in {"announce", "again"} /\ call[p].id = id,
                      ~ \E e \in Editors : edit[e].pc = "announce" /\ edit[e].id = id,
                      id \notin orphaned
               PROVE  \/ InTime(heap[id], id) /\ (loop.pc = "select" => TimerSetFor(heap[id]))
                      \/ id \in dirty /\ (loop.pc = "select" => wake)
                      \/ loop.pc = "rebuild" \/ (loop.pc = "install" /\ InTime(loop.plan[id], id))
                      \/ id \in loop.todo
                      \/ loop.pc \in {"mark", "reread"} /\ loop.id = id
                      \/ loop.pc = "put" /\ loop.id = id /\ InTime(loop.next, id)
    BY DEF NotForgotten
  <2>1. Scheduled(id) \/ id \in dirty
    BY <1>1 DEF RefreshInd, KeptInv, Due, Cared
  <2>2. id \in dirty => (loop.pc = "select" => wake)
    BY <1>1 DEF RefreshInd, LoopInv, Awake
  <2> QED
    BY <2>1, <2>2 DEF Scheduled
<1> QED
  BY <1>1, RefreshInvariant, PTL

\* No refresh exchanges a token a second time (refreshAuthForRequest, which refreshes
\* a credential under its lock), except one that an editor wrote back, one whose
\* exchange was never answered and one exchanged without the lock.
THEOREM NeverSpentTwice == Spec => SpentOnce
<1> DEFINE Once == \A p \in Callers : \A id \in Ids :
                      call[p].pc = "calling" /\ call[p].id = id /\ call'[p] # call[p]
                         /\ (Len(owner'[id]) > Len(owner[id]) \/ loose'[id] # loose[id])
                      => call[p].base.token \notin spent[id] \ (restored[id] \cup loose[id])
<1>1. RefreshInd /\ [Next]_vars => [Once]_vars
  BY DEF RefreshInd, SpentInv, Spared
<1> QED
  BY <1>1, RefreshInvariant, PTL DEF Spec, SpentOnce

(***************************************************************************)
(* The loop does not spin.  While no replaced token was written back, a    *)
(* copy of a credential is due no later than the credential itself,        *)
(***************************************************************************)
OrderInv ==
    \A id \in Ids : restored[id] = {} =>
        /\ Present(id) => auths[id].due <= now + Life
        /\ \A p \in Callers : call[p].pc = "calling" /\ call[p].id = id =>
              /\ call[p].base.due <= now + Life
              /\ Present(id) => call[p].base.due <= auths[id].due
        /\ \A e \in Editors :
              edit[e].pc = "update" /\ edit[e].id = id /\ Present(id)
                 /\ edit[e].read.token = auths[id].token
              => edit[e].read.due = auths[id].due

\* a credential that was marked is not due at the instant it was marked,
RestInv ==
    \A id \in Ids : restored[id] = {} /\ Present(id) /\ markedAt[id] # 0 =>
        \/ hasUnauthorizedAuthFailure(auths[id])
        \/ auths[id].nra > markedAt[id]
        \/ auths[id].due > markedAt[id]

\* and the loop, whose clock has reached the marks, finds it neither in its heap
\* nor in its list before that instant is over.
Working == loop.pc \in {"due", "dirty"} \cup InHandPcs

MarkedInv ==
    /\ \A id \in Ids : markedAt[id] \in 0..now
    /\ Working => \A id \in Ids : markedAt[id] <= loop.seen
    /\ loop.pc \in {"off", "rebuild", "install"} => \A id \in Ids : markedAt[id] = 0

\* The loop is working off what it popped.
Popped == loop.pc = "due" \/ (loop.pc \in InHandPcs /\ loop.phase = "due")

PoppedInv ==
    /\ loop.pc \in InHandPcs => loop.id \notin loop.todo
    /\ Popped => \A id \in loop.todo : heap[id] = 0
    /\ loop.pc = "mark" => heap[loop.id] = 0 /\ loop.phase = "due"

RoundInv ==
    \A id \in Ids : restored[id] = {} =>
        /\ heap[id] # 0 => heap[id] > markedAt[id]
        /\ Popped /\ id \in loop.todo => markedAt[id] < loop.seen
        /\ loop.pc \in {"mark", "reread"} /\ loop.id = id => markedAt[id] < loop.seen
        /\ loop.pc = "put" /\ loop.id = id /\ loop.next # 0 => loop.next > markedAt[id]

PaceInd ==
    /\ markedAt \in [Ids -> Nat]
    /\ OrderInv /\ RestInv /\ MarkedInv /\ PoppedInv /\ RoundInv

\* When a failed refresh is tried again: later, or never.
LEMMA FailedPaced ==
    ASSUME AuthType, NEW a \in AuthRec, NEW base \in AuthRec, NEW err \in {"unauthorized", "failed"}
    PROVE  /\ Failed(a, base, err).due = a.due
           /\ hasUnauthorizedAuthFailure(Failed(a, base, err)) \/ Failed(a, base, err).nra > now
<1>1. /\ now \in Nat /\ FailureBackoff \in Nat \ {0} /\ Lead \in Nat /\ a.due \in Nat
      /\ base.epoch \in Nat /\ a.gen \in Nat
  BY Clock, RefreshAssumption DEF AuthRec
<1> DEFINE nra == CASE HasValidAccessToken(a) -> Min({now + FailureBackoff, a.due + Lead})
                    [] ~HasValidAccessToken(a) /\ err = "unauthorized" -> 0
                    [] OTHER -> now + FailureBackoff
           down == a.down \/ ~HasValidAccessToken(a)
<1>2. /\ nra \in Nat
      /\ nra > now \/ (nra = 0 /\ err = "unauthorized" /\ down)
  <2>1. CASE HasValidAccessToken(a)
    <3>1. a.due + Lead \in Nat /\ now + FailureBackoff \in Nat /\ now + FailureBackoff > now
          /\ a.due + Lead > now
      BY <1>1, <2>1 DEF HasValidAccessToken
    <3>2. nra = Min({now + FailureBackoff, a.due + Lead})
      BY <2>1
    <3> QED
      BY <3>1, <3>2, MinOfTwo
  <2>2. CASE ~HasValidAccessToken(a) /\ err = "unauthorized"
    BY <2>2
  <2>3. CASE ~HasValidAccessToken(a) /\ err # "unauthorized"
    BY <1>1, <2>3
  <2> QED
    BY <2>1, <2>2, <2>3
<1>3. down \in BOOLEAN
  OBVIOUS
<1>4. Failed(a, base, err) = [a EXCEPT !.gen = a.gen + 1, !.err = err, !.errOf = base.epoch,
                                       !.down = down, !.nra = nra]
  BY DEF Failed
<1> HIDE DEF nra, down
<1>5. /\ Failed(a, base, err).due = a.due /\ Failed(a, base, err).nra = nra
      /\ Failed(a, base, err).err = err /\ Failed(a, base, err).down = down
  BY <1>4 DEF AuthRec
<1> QED
  BY <1>2, <1>5 DEF hasUnauthorizedAuthFailure

\* When a refreshed credential is refreshed again: an answer with a new token is due
\* after Life, one with the old token not before the next instant.
LEMMA UpdatedPaced ==
    ASSUME AuthType, NEW base \in AuthRec, NEW token \in Nat
    PROVE  /\ Updated(base, token).due = IF token = base.token THEN base.due ELSE now + Life
           /\ Updated(base, token).due <= now => Updated(base, token).nra > now
<1> DEFINE due == IF token = base.token THEN base.due ELSE now + Life
           a == [base EXCEPT !.token = token, !.due = due, !.nra = 0, !.err = "none",
                             !.errOf = 0, !.down = FALSE]
<1>1. due \in Nat /\ now \in Nat
  BY Clock, RefreshAssumption DEF AuthRec
<1>2. Updated(base, token) = Throttled(a)
  BY DEF Updated
<1> HIDE DEF due
<1>3. a \in AuthRec /\ a.due = due /\ a.nra = 0 /\ a.down = FALSE
  BY <1>1 DEF AuthRec
<1> HIDE DEF a
<1>4. Throttled(a).due = due
  BY <1>3, ThrottledRec
<1>5. ASSUME due <= now PROVE Throttled(a).nra > now
  <2>1. shouldRefresh(a, now)
    BY <1>1, <1>3, <1>5 DEF shouldRefresh, hasUnauthorizedAuthFailure
  <2>2. now + IneffectiveBackoff > now
    BY <1>1, RefreshAssumption
  <2>3. Throttled(a) = [a EXCEPT !.nra = now + IneffectiveBackoff]
    BY <2>1 DEF Throttled
  <2>4. Throttled(a).nra = now + IneffectiveBackoff
    BY <1>3, <2>3 DEF AuthRec
  <2> QED
    BY <2>2, <2>4
<1> QED
  BY <1>2, <1>4, <1>5 DEF due

\* What a mark makes of the credential in hand.
LEMMA MarkPaced ==
    ASSUME AuthType, LoopType, OwnInv, markedAt \in [Ids -> Nat], markRefreshPending
    PROVE  LET id == loop.id
           IN  /\ id \in Ids /\ UNCHANGED <<call, edit, restored, now>>
               /\ \/ UNCHANGED <<auths, markedAt>> /\ loop'.pc = "reread"
                  \/ /\ Present(id) /\ auths'[id].due = auths[id].due
                     /\ auths'[id].nra > loop.seen /\ auths'[id].token = auths[id].token
                     /\ \A i \in Ids \ {id} : auths'[i] = auths[i] /\ markedAt'[i] = markedAt[i]
                     /\ markedAt' \in [Ids -> Nat] /\ markedAt'[id] = loop.seen
                     /\ loop'.pc = "send"
<1>1. PICK id \in Ids : id = loop.id
  BY LoopKinds DEF markRefreshPending
<1>2. UNCHANGED <<call, edit, restored, now>>
  BY DEF markRefreshPending, tokenVars
<1>3. CASE UNCHANGED <<auths, markedAt>> /\ loop' = [loop EXCEPT !.pc = "reread"]
  BY <1>1, <1>2, <1>3 DEF LoopType, Loops
<1>4. CASE /\ Present(id) /\ loop' = [loop EXCEPT !.pc = "send"]
           /\ auths' = [auths EXCEPT ![id].nra = loop.seen + PendingBackoff, ![id].gen = @ + 1]
           /\ markedAt' = [markedAt EXCEPT ![id] = loop.seen]
  <2>1. auths[id] \in AuthRec
    BY <1>4, PresentRec
  <2>2. loop.seen \in Nat /\ loop.seen + PendingBackoff > loop.seen
    BY LoopKinds, RefreshAssumption
  <2> DEFINE next == loop.seen + PendingBackoff
             a == [auths[id] EXCEPT !.nra = next, !.gen = auths[id].gen + 1]
  <2>3. auths' = [auths EXCEPT ![id] = a]
    BY <1>4, <2>1 DEF AuthType, AuthRec
  <2> HIDE DEF next
  <2>4. a.due = auths[id].due /\ a.nra = next /\ a.token = auths[id].token
    BY <2>1 DEF AuthRec
  <2> HIDE DEF a
  <2>5. auths'[id] = a /\ \A i \in Ids \ {id} : auths'[i] = auths[i]
    BY <2>3 DEF AuthType
  <2>6. loop'.pc = "send"
    BY <1>4 DEF LoopType, Loops
  <2> QED
    BY <1>1, <1>2, <1>4, <2>2, <2>4, <2>5, <2>6 DEF next
<1> QED
  BY <1>1, <1>3, <1>4 DEF markRefreshPending

\* Its due date and token are kept, and it is tried again later or never.
LEMMA FailsPaced ==
    ASSUME AuthType, CallType, OwnInv, NEW p \in Callers, NEW err \in {"unauthorized", "failed"},
           Fails(p, err)
    PROVE  LET id == call[p].id
           IN  /\ id \in Ids /\ UNCHANGED <<edit, restored, markedAt, now>>
               /\ \/ UNCHANGED auths
                  \/ /\ Present(id) /\ auths'[id].due = auths[id].due
                     /\ auths'[id].token = auths[id].token
                     /\ hasUnauthorizedAuthFailure(auths'[id]) \/ auths'[id].nra > now
                     /\ \A i \in Ids \ {id} : auths'[i] = auths[i]
<1>1. PICK id \in Ids : id = call[p].id
  BY CallKinds DEF CallType, Fails, RefreshFails
<1>2. PICK base \in AuthRec : base = call[p].base
  BY CallKinds DEF CallType, Fails, RefreshFails
<1>3. UNCHANGED <<edit, restored, markedAt, now>>
  BY DEF Fails, RefreshFails, tokenVars
<1>4. CASE /\ auths[id].epoch = base.epoch
           /\ auths' = [auths EXCEPT ![id] = Failed(auths[id], base, err)]
  <2>1. Issued(id, base)
    BY <1>1, <1>2 DEF OwnInv, Fails, RefreshFails
  <2>2. Present(id) /\ auths[id] \in AuthRec
    BY <1>4, <2>1, PresentRec DEF Issued
  <2>3. auths'[id] = Failed(auths[id], base, err) /\ \A i \in Ids \ {id} : auths'[i] = auths[i]
    BY <1>4 DEF AuthType
  <2> DEFINE failed == Failed(auths[id], base, err)
  <2>4. failed.due = auths[id].due /\ failed.token = auths[id].token
    BY <2>2, FailedRec, FailedPaced
  <2>5. hasUnauthorizedAuthFailure(failed) \/ failed.nra > now
    BY <2>2, FailedPaced
  <2>6. hasUnauthorizedAuthFailure(auths'[id]) \/ auths'[id].nra > now
    BY <2>3, <2>5
  <2>7. auths'[id].due = auths[id].due /\ auths'[id].token = auths[id].token
    BY <2>3, <2>4
  <2> QED
    BY <1>1, <1>3, <2>2, <2>3, <2>6, <2>7
<1> QED
  BY <1>1, <1>2, <1>3, <1>4 DEF Fails, RefreshFails

\* A new token is due after Life; with the old one the due date is kept, and the
\* credential rests unless the copy was not due.
LEMMA SucceedsPaced ==
    ASSUME AuthType, CallType, OwnInv, NEW p \in Callers, NEW new \in BOOLEAN,
           RefreshSucceeds(p, new)
    PROVE  LET id == call[p].id
           IN  /\ id \in Ids /\ UNCHANGED <<edit, restored, markedAt, now>>
               /\ call[p].pc = "calling" /\ call[p].base \in AuthRec
               /\ \/ UNCHANGED auths
                  \/ /\ Present(id) /\ \A i \in Ids \ {id} : auths'[i] = auths[i]
                     /\ \/ /\ new /\ auths'[id].due = now + Life
                           /\ auths'[id].token = Len(owner[id]) + 1
                        \/ /\ ~new /\ auths'[id].due = auths[id].due
                           /\ auths'[id].token = auths[id].token
                           /\ call[p].base.due > now \/ auths'[id].nra > now
<1>1. PICK id \in Ids : id = call[p].id
  BY CallKinds DEF CallType, RefreshSucceeds
<1>2. PICK base \in AuthRec : base = call[p].base
  BY CallKinds DEF CallType, RefreshSucceeds
<1>3. UNCHANGED <<edit, restored, markedAt, now>> /\ call[p].pc = "calling"
  BY DEF RefreshSucceeds
<1> DEFINE token == IF new THEN Len(owner[id]) + 1 ELSE base.token
           u == Updated(base, token)
           m == MergeRefreshedAuth(base, auths[id], u)
<1>4. CASE /\ auths[id].epoch = base.epoch
           /\ auths' = [auths EXCEPT ![id] = Committed(id, m)]
  <2>1. Issued(id, base)
    BY <1>1, <1>2, <1>3 DEF OwnInv
  <2>2. Present(id) /\ auths[id] \in AuthRec
    BY <1>4, <2>1, PresentRec DEF Issued
  <2>3. Len(owner[id]) \in Nat /\ base.token \in Nat /\ base.token <= Len(owner[id])
    BY <2>1 DEF Issued, AuthType
  <2>4. token \in Nat /\ (new <=> token # base.token)
    BY <2>3
  <2>5. now \in Nat /\ now + Life \in Nat
    BY Clock, RefreshAssumption
  <2>6. u \in AuthRec /\ u.token = token
    BY <2>4, UpdatedRec
  <2>7. u.due = (IF new THEN now + Life ELSE base.due) /\ (u.due <= now => u.nra > now)
    BY <2>4, UpdatedPaced
  <2>8. m \in AuthRec
    BY <1>4, <2>2, <2>4, MergedRec
  <2> HIDE DEF u
  <2>9. /\ m.due = (IF new THEN u.due ELSE auths[id].due)
        /\ u.nra # 0 => m.nra = u.nra
        /\ m.token = (IF new THEN token ELSE auths[id].token)
    <3> DEFINE newError == auths[id].err # "none" /\ auths[id].err # base.err
               nra == IF u.nra # 0 \/ base.nra # 0 THEN u.nra ELSE auths[id].nra
               due == IF new THEN u.due ELSE auths[id].due
               tok == IF new THEN token ELSE auths[id].token
               err == IF newError THEN auths[id].err ELSE "none"
               errOf == IF newError THEN auths[id].errOf ELSE 0
               down == newError /\ auths[id].down
    <3>1. m = [auths[id] EXCEPT !.token = tok, !.due = due, !.nra = nra, !.err = err,
                                !.errOf = errOf, !.down = down]
      BY <1>4, <2>4, <2>6 DEF MergeRefreshedAuth
    <3> HIDE DEF newError, nra, due, tok, err, errOf, down, m
    <3>2. m.due = due /\ m.nra = nra /\ m.token = tok
      BY <2>2, <3>1 DEF AuthRec
    <3> QED
      BY <3>2 DEF nra, due, tok
  <2> HIDE DEF m
  <2>10. Committed(id, m).due = m.due /\ Committed(id, m).nra = m.nra
         /\ Committed(id, m).token = m.token
    BY <2>8 DEF Committed, AuthRec
  <2>11. auths'[id] = Committed(id, m) /\ \A i \in Ids \ {id} : auths'[i] = auths[i]
    BY <1>4 DEF AuthType
  <2>12. u.nra \in Nat /\ u.due \in Nat
    BY <2>6 DEF AuthRec
  <2>13. CASE new
    BY <1>1, <1>2, <1>3, <2>2, <2>7, <2>9, <2>10, <2>11, <2>13
  <2>14. CASE ~new
    <3>1. base.due > now \/ auths'[id].nra > now
      BY <2>5, <2>7, <2>9, <2>10, <2>11, <2>12, <2>14
    <3> QED
      BY <1>1, <1>2, <1>3, <2>2, <2>9, <2>10, <2>11, <2>14, <3>1
  <2> QED
    BY <2>13, <2>14
<1> QED
  BY <1>1, <1>2, <1>3, <1>4 DEF RefreshSucceeds

\* A login is due after Life, an edited copy when the copy that was read was; both
\* are marked anew.
LEMMA UpdatePaced ==
    ASSUME AuthType, EditType, OwnInv, markedAt \in [Ids -> Nat], NEW e \in Editors, Update(e)
    PROVE  LET id == edit[e].id
           IN  /\ id \in Ids /\ edit[e].pc = "update" /\ UNCHANGED <<call, now>>
               /\ \/ UNCHANGED <<auths, restored, markedAt>>
                  \/ /\ Present(id) /\ \A i \in Ids \ {id} : auths'[i] = auths[i]
                     /\ markedAt' = [markedAt EXCEPT ![id] = 0]
                     /\ \/ /\ auths'[id].due = now + Life /\ UNCHANGED restored
                           /\ auths'[id].token = Len(owner[id]) + 1
                        \/ /\ auths'[id].due = edit[e].read.due
                           /\ auths'[id].token = edit[e].read.token
                           /\ restored' = [restored EXCEPT ![id] =
                                              @ \cup ({edit[e].read.token} \ {auths[id].token})]
<1>1. PICK id \in Ids : id = edit[e].id
  BY EditKinds DEF EditType, Update
<1>2. PICK read \in AuthRec : read = edit[e].read
  BY EditKinds DEF EditType, Update
<1>3. edit[e].pc = "update" /\ UNCHANGED <<call, now>>
  BY DEF Update
<1>4. Len(owner[id]) + 1 \in Nat /\ now + Life \in Nat
  BY Clock, RefreshAssumption DEF AuthType
<1> DEFINE token == Len(owner[id]) + 1
           due == now + Life
           fresh == Login(0, 0, token, read.note)
           login == [fresh EXCEPT !.nra = read.nra]
<1>5. ASSUME NEW a \in AuthRec, Present(id), Stored(e, id, Committed(id, a))
      PROVE  /\ auths'[id].due = a.due /\ auths'[id].token = a.token
             /\ \A i \in Ids \ {id} : auths'[i] = auths[i]
             /\ markedAt' = [markedAt EXCEPT ![id] = 0]
  <2>1. Committed(id, a).due = a.due /\ Committed(id, a).token = a.token
    BY DEF Committed, AuthRec
  <2>2. auths'[id] = Committed(id, a) /\ \A i \in Ids \ {id} : auths'[i] = auths[i]
    BY <1>5 DEF Stored, AuthType
  <2> QED
    BY <1>5, <2>1, <2>2 DEF Stored
<1>6. CASE UNCHANGED <<auths, restored, markedAt>>
  BY <1>1, <1>3, <1>6
<1>7. CASE Present(id) /\ Stored(e, id, Committed(id, login)) /\ UNCHANGED restored
  <2>1. fresh = [epoch |-> 0, gen |-> 0, token |-> token, due |-> due, nra |-> 0, err |-> "none",
                 errOf |-> 0, down |-> FALSE, note |-> read.note]
    BY DEF Login
  <2> HIDE DEF token, due, fresh
  <2>2. fresh \in AuthRec /\ fresh.token = token /\ fresh.due = due
    BY <1>2, <1>4, <2>1 DEF AuthRec, token, due
  <2>3. login \in AuthRec /\ login.token = token /\ login.due = due
    BY <1>2, <2>2 DEF AuthRec
  <2> HIDE DEF login
  <2> QED
    BY <1>1, <1>3, <1>5, <1>7, <2>3 DEF token, due
<1>8. CASE /\ Present(id) /\ Stored(e, id, Committed(id, read))
           /\ restored' = [restored EXCEPT ![id] = @ \cup ({read.token} \ {auths[id].token})]
  BY <1>1, <1>2, <1>3, <1>5, <1>8
<1> QED
  BY <1>1, <1>2, <1>6, <1>7, <1>8 DEF Update

\* The api-call tool's copy with its new token is due after Life, and marked anew.
LEMMA ExchangePaced ==
    ASSUME AuthType, EditType, OwnInv, markedAt \in [Ids -> Nat], NEW e \in Editors,
           ExchangeSucceeds(e)
    PROVE  LET id == edit[e].id
           IN  /\ id \in Ids
               /\ \/ UNCHANGED <<auths, markedAt>>
                  \/ /\ Present(id) /\ \A i \in Ids \ {id} : auths'[i] = auths[i]
                     /\ markedAt' = [markedAt EXCEPT ![id] = 0]
                     /\ auths'[id].due = now + Life
                     /\ auths'[id].token = Len(owner[id]) + 1
<1>1. PICK id \in Ids : id = edit[e].id
  BY EditKinds DEF EditType, ExchangeSucceeds
<1>2. PICK read \in AuthRec : read = edit[e].read
  BY EditKinds DEF EditType, ExchangeSucceeds
<1>3. Len(owner[id]) + 1 \in Nat /\ now + Life \in Nat
  BY Clock, RefreshAssumption DEF AuthType
<1> DEFINE token == Len(owner[id]) + 1
           due == now + Life
           fresh == [read EXCEPT !.token = token, !.due = due]
<1>4. CASE UNCHANGED <<auths, markedAt>>
  BY <1>1, <1>4
<1>5. CASE Present(id) /\ Stored(e, id, Committed(id, fresh))
  <2> HIDE DEF token, due
  <2>1. fresh \in AuthRec /\ fresh.token = token /\ fresh.due = due
    BY <1>2, <1>3 DEF AuthRec, token, due
  <2> HIDE DEF fresh
  <2>2. Committed(id, fresh).due = due /\ Committed(id, fresh).token = token
    BY <2>1 DEF Committed, AuthRec
  <2>3. /\ auths'[id] = Committed(id, fresh) /\ \A i \in Ids \ {id} : auths'[i] = auths[i]
        /\ markedAt' = [markedAt EXCEPT ![id] = 0]
    BY <1>5 DEF Stored, AuthType
  <2> QED
    BY <1>1, <1>5, <2>2, <2>3 DEF token, due
<1> QED
  BY <1>1, <1>2, <1>4, <1>5 DEF ExchangeSucceeds

\* A registration is due after Life.
LEMMA RegisterPaced ==
    ASSUME AuthType, EditType, markedAt \in [Ids -> Nat], NEW e \in Editors, Register(e)
    PROVE  LET id == edit[e].id
           IN  /\ id \in Ids /\ UNCHANGED <<call, now, restored>>
               /\ \A i \in Ids \ {id} : auths'[i] = auths[i]
               /\ markedAt' = [markedAt EXCEPT ![id] = 0]
               /\ auths'[id].due = now + Life /\ auths'[id].token = Len(owner[id]) + 1
<1>1. PICK id \in Ids : id = edit[e].id
  BY EditKinds DEF EditType, Register
<1>2. auths' = [auths EXCEPT ![id] = Login(authEpochs[id] + 1, 1, Len(owner[id]) + 1, edit[e].note)]
  BY <1>1 DEF Register, Stored
<1>3. /\ auths'[id] = Login(authEpochs[id] + 1, 1, Len(owner[id]) + 1, edit[e].note)
      /\ \A i \in Ids \ {id} : auths'[i] = auths[i]
  BY <1>2 DEF AuthType
<1>4. auths'[id].due = now + Life /\ auths'[id].token = Len(owner[id]) + 1
  BY <1>3 DEF Login
<1> QED
  BY <1>1, <1>3, <1>4 DEF Register, Stored

\* What a step makes of the due date and the mark of a credential.
Untouched(id) == auths'[id] = auths[id] /\ markedAt'[id] = markedAt[id]

MarkedNow(id) ==
    /\ markRefreshPending /\ loop.id = id /\ loop'.pc = "send" /\ Present(id)
    /\ auths'[id].due = auths[id].due /\ auths'[id].token = auths[id].token
    /\ auths'[id].nra > loop.seen /\ markedAt'[id] = loop.seen

Answered(id) ==
    /\ Present(id) /\ markedAt'[id] = markedAt[id]
    /\ auths'[id].due = auths[id].due /\ auths'[id].token = auths[id].token
    /\ \/ hasUnauthorizedAuthFailure(auths'[id])
       \/ auths'[id].nra > now
       \/ \E p \in Callers : call[p].pc = "calling" /\ call[p].id = id /\ call[p].base.due > now

Anew(id) ==
    /\ auths'[id].due = now + Life /\ auths'[id].token = Len(owner[id]) + 1
    /\ markedAt'[id] \in {0, markedAt[id]}

WrittenBack(id) ==
    /\ Present(id) /\ markedAt'[id] = 0
    /\ restored'[id] = {} => /\ auths'[id].due = auths[id].due
                             /\ auths'[id].token = auths[id].token

Gone(id) == auths'[id] = NoAuth /\ markedAt'[id] = markedAt[id]

Paces(id) ==
    \/ Untouched(id) \/ MarkedNow(id) \/ Answered(id) \/ Anew(id) \/ WrittenBack(id) \/ Gone(id)

\* Marks are set by the loop and by editors only.
LEMMA MarkedFrame ==
    ASSUME [Next]_vars
    PROVE  \/ markRefreshPending
           \/ (\E e \in Editors : Writes(e))
           \/ (\E e \in Editors : Register(e))
           \/ UNCHANGED <<markedAt>>
<1> DEFINE Same == UNCHANGED <<markedAt>>
<1> USE DEF outside, loopVars, storeVars, tokenVars
<1>1. CASE UNCHANGED vars
  BY <1>1 DEF vars
<1>2. ASSUME Tick \/ StartAutoRefresh \/ RebuildRead \/ RebuildInstall \/ LoopWoken PROVE Same
  BY <1>2 DEF Tick, StartAutoRefresh, RebuildRead, RebuildInstall, LoopWoken
<1>3. ASSUME popDue \/ RereadDue \/ SendJob \/ drainDirty \/ upsert PROVE Same
  BY <1>3 DEF popDue, RereadDue, SendJob, drainDirty, upsert
<1>4. ASSUME resetTimer PROVE Same
  BY <1>4 DEF resetTimer
<1>5. ASSUME NEW id \in Ids, handleDueAuth(id) \/ applyDirty(id) PROVE Same
  BY <1>5 DEF handleDueAuth, applyDirty
<1>6. ASSUME NEW p \in Callers,
           \/ TakeJob(p) \/ refreshAuthForRequest(p) \/ Cancels(p)
           \/ RefreshAnnounced(p) \/ WorkerRequeue(p)
      PROVE  Same
  BY <1>6 DEF TakeJob, refreshAuthForRequest, Cancels, RefreshCanceled, RefreshAnnounced,
     WorkerRequeue
<1>7. ASSUME NEW p \in Callers, NEW id \in Ids, RequestRefused(p, id) PROVE Same
  BY <1>7 DEF RequestRefused
<1>8. ASSUME NEW p \in Callers, NEW err \in {"unauthorized", "failed"}, Fails(p, err) PROVE Same
  BY <1>8 DEF Fails, RefreshFails
<1>9. ASSUME NEW p \in Callers, NEW new \in BOOLEAN, RefreshSucceeds(p, new) PROVE Same
  BY <1>9 DEF RefreshSucceeds
<1>10. ASSUME NEW e \in Editors,
           EditAnnounced(e) \/ queueRefreshUnschedule(e) \/ Loses(e)
      PROVE  Same
  BY <1>10 DEF EditAnnounced, queueRefreshUnschedule, Loses, ExchangeFails
<1>11. ASSUME NEW e \in Editors, NEW id \in Ids,
           Remove(e, id) \/ resolveTokenForAuth(e, id)
      PROVE  Same
  BY <1>11 DEF Remove, resolveTokenForAuth
<1>12. ASSUME NEW e \in Editors, NEW id \in Ids, NEW upload \in BOOLEAN,
           LookUp(e, id, upload)
      PROVE  Same
  BY <1>12 DEF LookUp
<1> QED
  BY <1>1, <1>2, <1>3, <1>4, <1>5, <1>6, <1>7, <1>8, <1>9, <1>10, <1>11, <1>12
     DEF Next, LoopNext, CallNext, EditNext, Cancels, Fails, Writes, Loses

\* Every write of a credential or of its mark is one of these.
LEMMA PacesStep ==
    ASSUME AuthType, CallType, EditType, LoopType, SpentType, OwnInv, OrderInv,
           markedAt \in [Ids -> Nat], [Next]_vars
    PROVE  /\ markedAt' \in [Ids -> Nat]
           /\ \A id \in Ids : Paces(id) /\ (restored'[id] = {} => restored[id] = {})
<1>1. \A id \in Ids : restored'[id] = {} => restored[id] = {}
  BY SpentTypeStep
<1> DEFINE Goal == markedAt' \in [Ids -> Nat] /\ \A id \in Ids : Paces(id)
<1>2. ASSUME UNCHANGED <<auths, markedAt>> PROVE Goal
  BY <1>2 DEF Paces, Untouched
<1>3. ASSUME NEW i \in Ids, Paces(i), markedAt' \in [Ids -> Nat],
             \A id \in Ids \ {i} : auths'[id] = auths[id] /\ markedAt'[id] = markedAt[id]
      PROVE  Goal
  BY <1>3 DEF Paces, Untouched
<1> HIDE DEF Goal
<1>4. ASSUME markRefreshPending PROVE Goal
  <2>1. PICK i \in Ids : i = loop.id
    BY <1>4, MarkPaced
  <2>2. \/ UNCHANGED <<auths, markedAt>>
        \/ /\ MarkedNow(i) /\ markedAt' \in [Ids -> Nat]
           /\ \A id \in Ids \ {i} : auths'[id] = auths[id] /\ markedAt'[id] = markedAt[id]
    BY <1>4, <2>1, MarkPaced DEF MarkedNow
  <2> QED
    BY <1>2, <1>3, <2>2 DEF Paces
<1>5. ASSUME NEW p \in Callers, NEW err \in {"unauthorized", "failed"}, Fails(p, err)
      PROVE  Goal
  <2>1. PICK i \in Ids : i = call[p].id
    BY <1>5, FailsPaced
  <2>2. \/ UNCHANGED <<auths, markedAt>>
        \/ /\ Answered(i) /\ UNCHANGED markedAt
           /\ \A id \in Ids \ {i} : auths'[id] = auths[id]
    BY <1>5, <2>1, FailsPaced DEF Answered
  <2> QED
    BY <1>2, <1>3, <2>2 DEF Paces
<1>6. ASSUME NEW p \in Callers, NEW new \in BOOLEAN, RefreshSucceeds(p, new) PROVE Goal
  <2>1. PICK i \in Ids : i = call[p].id
    BY <1>6, SucceedsPaced
  <2>2. \/ UNCHANGED <<auths, markedAt>>
        \/ /\ Answered(i) \/ Anew(i)
           /\ UNCHANGED markedAt /\ \A id \in Ids \ {i} : auths'[id] = auths[id]
    BY <1>6, <2>1, SucceedsPaced DEF Answered, Anew
  <2> QED
    BY <1>2, <1>3, <2>2 DEF Paces
<1>7. ASSUME NEW e \in Editors, Update(e) PROVE Goal
  <2>1. PICK i \in Ids : i = edit[e].id
    BY <1>7, UpdatePaced
  <2>2. CASE UNCHANGED <<auths, markedAt>>
    BY <1>2, <2>2
  <2>3. CASE /\ Present(i) /\ \A id \in Ids \ {i} : auths'[id] = auths[id]
             /\ markedAt' = [markedAt EXCEPT ![i] = 0]
    <3>1. markedAt' \in [Ids -> Nat] /\ markedAt'[i] = 0
          /\ \A id \in Ids \ {i} : markedAt'[id] = markedAt[id]
      BY <2>3
    <3>2. CASE auths'[i].due = now + Life /\ auths'[i].token = Len(owner[i]) + 1
      BY <1>3, <2>3, <3>1, <3>2 DEF Paces, Anew
    <3>3. CASE /\ auths'[i].due = edit[e].read.due /\ auths'[i].token = edit[e].read.token
               /\ restored' = [restored EXCEPT ![i] =
                                  @ \cup ({edit[e].read.token} \ {auths[i].token})]
      <4>1. ASSUME restored'[i] = {}
            PROVE  auths'[i].due = auths[i].due /\ auths'[i].token = auths[i].token
        <5>1. edit[e].read.token = auths[i].token
          BY <3>3, <4>1 DEF SpentType
        <5>2. edit[e].pc = "update"
          BY <1>7, UpdatePaced
        <5>3. edit[e].read.due = auths[i].due
          BY <1>1, <2>1, <2>3, <4>1, <5>1, <5>2 DEF OrderInv
        <5> QED
          BY <3>3, <5>1, <5>3
      <4> QED
        BY <1>3, <2>3, <3>1, <4>1 DEF Paces, WrittenBack
    <3> QED
      BY <1>7, <2>1, <2>3, <3>2, <3>3, UpdatePaced, <1>2
  <2> QED
    BY <1>7, <2>1, <2>2, <2>3, UpdatePaced
<1>11. ASSUME NEW e \in Editors, ExchangeSucceeds(e) PROVE Goal
  <2>1. PICK i \in Ids : i = edit[e].id
    BY <1>11, ExchangePaced
  <2>2. CASE /\ Present(i) /\ \A id \in Ids \ {i} : auths'[id] = auths[id]
             /\ markedAt' = [markedAt EXCEPT ![i] = 0]
             /\ auths'[i].due = now + Life /\ auths'[i].token = Len(owner[i]) + 1
    <3>1. Anew(i) /\ markedAt' \in [Ids -> Nat]
          /\ \A id \in Ids \ {i} : markedAt'[id] = markedAt[id]
      BY <2>2 DEF Anew
    <3> QED
      BY <1>3, <2>2, <3>1 DEF Paces
  <2> QED
    BY <1>2, <1>11, <2>1, <2>2, ExchangePaced
<1>8. ASSUME NEW e \in Editors, Register(e) PROVE Goal
  <2>1. PICK i \in Ids : i = edit[e].id
    BY <1>8, RegisterPaced
  <2>2. /\ \A id \in Ids \ {i} : auths'[id] = auths[id]
        /\ markedAt' = [markedAt EXCEPT ![i] = 0]
        /\ auths'[i].due = now + Life /\ auths'[i].token = Len(owner[i]) + 1
    BY <1>8, <2>1, RegisterPaced
  <2>3. Anew(i) /\ markedAt' \in [Ids -> Nat]
        /\ \A id \in Ids \ {i} : markedAt'[id] = markedAt[id]
    BY <2>2 DEF Anew
  <2> QED
    BY <1>3, <2>2, <2>3 DEF Paces
<1>9. ASSUME NEW e \in Editors, NEW i \in Ids, Remove(e, i) PROVE Goal
  <2>1. auths' = [auths EXCEPT ![i] = NoAuth] /\ UNCHANGED markedAt
    BY <1>9 DEF Remove
  <2>2. Gone(i) /\ \A id \in Ids \ {i} : auths'[id] = auths[id]
    BY <2>1 DEF Gone, AuthType
  <2> QED
    BY <1>3, <2>1, <2>2 DEF Paces
<1>10. Goal
  BY <1>2, <1>4, <1>5, <1>6, <1>7, <1>8, <1>9, <1>11, AuthFrame, MarkedFrame DEF Writes
<1> QED
  BY <1>1, <1>10 DEF Goal

\* Callers and editors after a step that leaves them work on a copy: they have kept
\* it, or have just taken it.
LEMMA CopiesStep ==
    ASSUME AuthType, CallType, EditType, OwnInv, [Next]_vars
    PROVE  /\ \A p \in Callers : call'[p].pc = "calling" =>
                 \/ CallKept(p)
                 \/ /\ call'[p].id \in Ids /\ Present(call'[p].id) /\ UNCHANGED auths
                    /\ call'[p].base.due = auths[call'[p].id].due
           /\ \A e \in Editors : edit'[e].pc = "update" =>
                 \/ EditKept(e)
                 \/ /\ edit'[e].id \in Ids /\ Present(edit'[e].id) /\ UNCHANGED auths
                    /\ edit'[e].read.due = auths[edit'[e].id].due
<1>1. ASSUME NEW p \in Callers, call'[p].pc = "calling", ~CallKept(p)
      PROVE  /\ call'[p].id \in Ids /\ Present(call'[p].id) /\ UNCHANGED auths
             /\ call'[p].base.due = auths[call'[p].id].due
  <2>1. CallBegins(p)
    BY <1>1, CallStep DEF CallRests, CallEnds
  <2>2. PICK i \in Ids : i = call'[p].id /\ Present(i) /\ call'[p].base = Clone(i)
    BY <2>1 DEF CallBegins
  <2>3. auths[i] \in AuthRec
    BY <2>2, PresentRec
  <2>4. Clone(i).due = auths[i].due
    BY <2>3 DEF Clone, AuthRec
  <2>5. UNCHANGED auths
    BY <2>1 DEF CallBegins, refreshAuthForRequest
  <2> QED
    BY <2>2, <2>4, <2>5
<1>2. ASSUME NEW e \in Editors, edit'[e].pc = "update", ~EditKept(e)
      PROVE  /\ edit'[e].id \in Ids /\ Present(edit'[e].id) /\ UNCHANGED auths
             /\ edit'[e].read.due = auths[edit'[e].id].due
  <2>1. EditReads(e)
    BY <1>2, EditStep DEF EditRests, EditEnds
  <2>2. PICK id \in Ids : id = edit'[e].id /\ Present(id)
                         /\ edit'[e].read = [Clone(id) EXCEPT !.note = events + 1]
    BY <1>2, <2>1 DEF EditReads
  <2>3. auths[id] \in AuthRec
    BY <2>2, PresentRec
  <2>4. edit'[e].read.due = auths[id].due
    BY <2>2, <2>3 DEF Clone, AuthRec
  <2>5. UNCHANGED auths
    <3>1. ASSUME NEW d \in Editors, EditAnnounced(d) \/ queueRefreshUnschedule(d)
                                    \/ \E i \in Ids : Remove(d, i)
          PROVE  FALSE
      BY <1>2, <3>1 DEF EditAnnounced, queueRefreshUnschedule, Remove, EditType, EditKept, Idle
    <3>2. ASSUME NEW d \in Editors, NEW i \in Ids, Kept(d, i) \/ edit' = [edit EXCEPT ![d] = Idle]
          PROVE  FALSE
      BY <1>2, <3>2 DEF Kept, EditType, EditKept, Idle
    <3>3. ASSUME NEW d \in Editors, Writes(d) \/ Register(d) PROVE FALSE
      <4>1. CASE Writes(d)
        BY <3>2, <4>1, WriteEffect DEF Refused, Replaces, Restores
      <4>2. CASE Register(d)
        BY <3>2, <4>2, RegisterEffect
      <4> QED
        BY <3>3, <4>1, <4>2
    <3>4. ASSUME NEW d \in Editors, NEW i \in Ids, NEW upload \in BOOLEAN, LookUp(d, i, upload)
          PROVE  UNCHANGED auths
      BY <3>4 DEF LookUp
    <3>6. ASSUME NEW d \in Editors, Loses(d) \/ \E i \in Ids : resolveTokenForAuth(d, i)
          PROVE  UNCHANGED auths
      BY <3>6 DEF Loses, ExchangeFails, resolveTokenForAuth
    <3>5. edit' # edit
      BY <1>2 DEF EditKept
    <3> QED
      BY <3>1, <3>3, <3>4, <3>5, <3>6, EditFrame
  <2> QED
    BY <2>2, <2>4, <2>5
<1> QED
  BY <1>1, <1>2

\* Every step keeps the order of the due dates of the copies.
LEMMA OrderStep ==
    ASSUME AuthType, CallType, EditType, LoopType, SpentType, OwnInv, OrderInv,
           markedAt \in [Ids -> Nat], [Next]_vars
    PROVE  OrderInv'
<1> SUFFICES ASSUME NEW id \in Ids, restored'[id] = {}
             PROVE  /\ Present(id)' => auths'[id].due <= now' + Life
                    /\ \A p \in Callers : call'[p].pc = "calling" /\ call'[p].id = id =>
                          /\ call'[p].base.due <= now' + Life
                          /\ Present(id)' => call'[p].base.due <= auths'[id].due
                    /\ \A e \in Editors :
                          edit'[e].pc = "update" /\ edit'[e].id = id /\ Present(id)'
                             /\ edit'[e].read.token = auths'[id].token
                          => edit'[e].read.due = auths'[id].due
  BY DEF OrderInv
<1>1. Paces(id) /\ restored[id] = {}
  BY PacesStep
<1>2. now \in Nat /\ now' \in Nat /\ now' >= now /\ Life \in Nat
  BY Clock, ClockStep, RefreshAssumption
<1>3. /\ Present(id) => auths[id].due <= now + Life /\ auths[id].due \in Nat
      /\ \A p \in Callers : call[p].pc = "calling" /\ call[p].id = id =>
            /\ call[p].base.due \in Nat /\ call[p].base.due <= now + Life
            /\ Present(id) => call[p].base.due <= auths[id].due
      /\ \A e \in Editors :
            edit[e].pc = "update" /\ edit[e].id = id /\ Present(id)
               /\ edit[e].read.token = auths[id].token
            => edit[e].read.due = auths[id].due
  <2>1. Present(id) => auths[id].due \in Nat
    BY PresentRec DEF AuthRec
  <2>2. \A p \in Callers : call[p].pc = "calling" => call[p].base.due \in Nat
    BY CallKinds DEF CallType, AuthRec
  <2> QED
    BY <1>1, <2>1, <2>2 DEF OrderInv
\* The due date is kept, or the credential has a new token, due last, or has gone.
<1>4. \/ Present(id) /\ auths'[id].due = auths[id].due /\ auths'[id].token = auths[id].token
      \/ auths'[id].due = now + Life /\ auths'[id].token = Len(owner[id]) + 1
      \/ ~Present(id)'
  <2>1. CASE Untouched(id)
    BY <2>1 DEF Untouched, Present
  <2>2. CASE MarkedNow(id) \/ Answered(id) \/ Anew(id) \/ WrittenBack(id)
    BY <2>2 DEF MarkedNow, Answered, Anew, WrittenBack
  <2>3. CASE Gone(id)
    BY <2>3 DEF Gone, Present
  <2> QED
    BY <1>1, <2>1, <2>2, <2>3 DEF Paces
<1>5. Present(id)' => auths'[id].due <= now' + Life /\ auths'[id].due \in Nat
  BY <1>2, <1>3, <1>4
<1>6. ASSUME NEW p \in Callers, call'[p].pc = "calling", call'[p].id = id
      PROVE  /\ call'[p].base.due <= now' + Life
             /\ Present(id)' => call'[p].base.due <= auths'[id].due
  <2>1. CASE CallKept(p)
    <3>1. /\ call'[p].base.due = call[p].base.due /\ call[p].base.due \in Nat
          /\ call[p].base.due <= now + Life
          /\ Present(id) => call[p].base.due <= auths[id].due
      BY <1>3, <1>6, <2>1 DEF CallKept
    <3> QED
      BY <1>2, <1>4, <3>1
  <2>2. CASE ~CallKept(p)
    <3>1. Present(id) /\ UNCHANGED auths /\ call'[p].base.due = auths[id].due
      BY <1>6, <2>2, CopiesStep
    <3> QED
      BY <1>2, <1>3, <3>1
  <2> QED
    BY <2>1, <2>2
<1>7. ASSUME NEW e \in Editors, edit'[e].pc = "update", edit'[e].id = id, Present(id)',
             edit'[e].read.token = auths'[id].token
      PROVE  edit'[e].read.due = auths'[id].due
  <2>1. CASE EditKept(e)
    <3>1. edit[e].pc = "update" /\ edit[e].id = id /\ edit'[e].read = edit[e].read
      BY <1>7, <2>1 DEF EditKept
    <3>2. edit[e].read.token # Len(owner[id]) + 1
      <4>1. edit[e].read.token \in 1..Len(owner[id])
        BY <3>1 DEF OwnInv, Issued
      <4>2. Len(owner[id]) \in Nat
        BY DEF AuthType
      <4> QED
        BY <4>1, <4>2
    <3> QED
      BY <1>3, <1>4, <1>7, <3>1, <3>2
  <2>2. CASE ~EditKept(e)
    BY <1>7, <2>2, CopiesStep
  <2> QED
    BY <2>1, <2>2
<1> QED
  BY <1>5, <1>6, <1>7

\* Every step keeps a marked credential at rest.
LEMMA RestStep ==
    ASSUME AuthType, CallType, EditType, LoopType, SpentType, OwnInv, OrderInv, RestInv,
           MarkedInv, markedAt \in [Ids -> Nat], [Next]_vars
    PROVE  RestInv'
<1> SUFFICES ASSUME NEW id \in Ids, restored'[id] = {}, Present(id)', markedAt'[id] # 0
             PROVE  \/ hasUnauthorizedAuthFailure(auths'[id])
                    \/ auths'[id].nra > markedAt'[id]
                    \/ auths'[id].due > markedAt'[id]
  BY DEF RestInv, hasUnauthorizedAuthFailure
<1>1. Paces(id) /\ restored[id] = {}
  BY PacesStep
<1>2. now \in Nat /\ markedAt[id] \in Nat /\ markedAt[id] <= now /\ Life \in Nat \ {0}
  BY Clock, RefreshAssumption DEF MarkedInv
<1>3. auths'[id] \in AuthRec
  BY AuthTypeStep DEF AuthType, Present
<1>4. auths'[id].nra \in Nat /\ auths'[id].due \in Nat
  BY <1>3 DEF AuthRec
<1>5. CASE Untouched(id)
  <2>1. Present(id) /\ markedAt[id] # 0
    BY <1>5 DEF Untouched, Present
  <2> QED
    BY <1>1, <1>5, <2>1 DEF RestInv, Untouched
<1>6. CASE MarkedNow(id)
  BY <1>6 DEF MarkedNow
<1>7. CASE Answered(id)
  <2>1. CASE hasUnauthorizedAuthFailure(auths'[id])
    BY <2>1
  <2>2. CASE auths'[id].nra > now
    BY <1>2, <1>4, <1>7, <2>2 DEF Answered
  <2>3. ASSUME NEW p \in Callers, call[p].pc = "calling", call[p].id = id, call[p].base.due > now
        PROVE  auths'[id].due > markedAt'[id]
    <3>1. call[p].base.due <= auths[id].due
      BY <1>1, <1>7, <2>3 DEF OrderInv, Answered
    <3>2. call[p].base.due \in Nat
      BY <2>3, CallKinds DEF CallType, AuthRec
    <3> QED
      BY <1>2, <1>4, <1>7, <2>3, <3>1, <3>2 DEF Answered
  <2> QED
    BY <1>7, <2>1, <2>2, <2>3 DEF Answered
<1>8. CASE Anew(id)
  BY <1>2, <1>8 DEF Anew
<1>9. CASE WrittenBack(id) \/ Gone(id)
  BY <1>9 DEF WrittenBack, Gone, Present
<1> QED
  BY <1>1, <1>5, <1>6, <1>7, <1>8, <1>9 DEF Paces

\* A step lowers a mark or sets it to the loop's clock.
LEMMA MarksMove ==
    ASSUME AuthType, CallType, EditType, LoopType, SpentType, OwnInv, OrderInv,
           markedAt \in [Ids -> Nat], [Next]_vars, NEW id \in Ids
    PROVE  /\ markedAt[id] \in Nat /\ markedAt'[id] \in Nat
           /\ \/ markedAt'[id] <= markedAt[id]
              \/ markRefreshPending /\ loop.id = id /\ markedAt'[id] = loop.seen
<1>1. Paces(id) /\ markedAt[id] \in Nat /\ markedAt'[id] \in Nat
  BY PacesStep
<1> QED
  BY <1>1 DEF Paces, Untouched, MarkedNow, Answered, Anew, WrittenBack, Gone

\* The loop takes its clock when it begins a round and keeps it for the round.
LEMMA SeenMoves ==
    ASSUME AuthType, LoopType, [Next]_vars
    PROVE  /\ Working' => loop'.seen = now \/ (Working /\ loop'.seen = loop.seen)
           /\ loop'.pc \in {"off", "rebuild", "install"} =>
                 loop.pc \in {"off", "rebuild", "install"}
<1> DEFINE Goal == /\ Working' => loop'.seen = now \/ (Working /\ loop'.seen = loop.seen)
                   /\ loop'.pc \in {"off", "rebuild", "install"} =>
                         loop.pc \in {"off", "rebuild", "install"}
<1> USE DEF Working, InHandPcs
<1>1. loop.pc \in InHandPcs => loop.phase \in {"due", "dirty"}
  BY LoopKinds
<1>2. ASSUME StartAutoRefresh \/ RebuildRead \/ RebuildInstall PROVE Goal
  BY <1>2, RebuildMoves
<1>3. ASSUME LoopWoken \/ popDue \/ resetTimer PROVE Goal
  BY <1>3, SelectMoves
<1>4. ASSUME markRefreshPending \/ RereadDue \/ SendJob \/ upsert PROVE Goal
  BY <1>1, <1>4, HandMoves DEF SameHand
<1>5. ASSUME drainDirty PROVE Goal
  BY <1>5 DEF drainDirty
<1>6. ASSUME NEW i \in Ids, handleDueAuth(i) \/ applyDirty(i) PROVE Goal
  BY <1>6, TodoMoves DEF TakesInHand
<1>7. ASSUME NEW e \in Editors, queueRefreshUnschedule(e) PROVE Goal
  BY <1>7 DEF queueRefreshUnschedule
<1>8. ASSUME UNCHANGED loop PROVE Goal
  BY <1>8
<1> QED
  BY <1>2, <1>3, <1>4, <1>5, <1>6, <1>7, <1>8, LoopFrame

\* Every step keeps the marks behind the clocks.
LEMMA MarkedStep ==
    ASSUME AuthType, CallType, EditType, LoopType, SpentType, OwnInv, OrderInv, MarkedInv,
           markedAt \in [Ids -> Nat], [Next]_vars
    PROVE  MarkedInv'
<1>1. now \in Nat /\ now' \in Nat /\ now' >= now /\ loop.seen \in Nat /\ loop.seen <= now
  BY Clock, ClockStep, LoopKinds DEF LoopType
<1>2. ASSUME NEW id \in Ids PROVE markedAt'[id] \in 0..now /\ markedAt'[id] \in 0..now'
  BY <1>1, MarksMove DEF MarkedInv
<1>3. ASSUME NEW id \in Ids, Working, loop'.seen = loop.seen PROVE markedAt'[id] <= loop'.seen
  BY <1>1, <1>3, MarksMove DEF MarkedInv
<1>4. ASSUME NEW id \in Ids, loop'.pc \in {"off", "rebuild", "install"}
      PROVE  markedAt'[id] = 0
  <2>1. loop.pc \in {"off", "rebuild", "install"} /\ ~markRefreshPending
    BY <1>4, SeenMoves DEF markRefreshPending
  <2> QED
    BY <2>1, MarksMove DEF MarkedInv
<1>5. ASSUME NEW id \in Ids, Working' PROVE markedAt'[id] <= loop'.seen
  BY <1>1, <1>2, <1>3, <1>5, SeenMoves
<1> QED
  BY <1>2, <1>4, <1>5 DEF MarkedInv

\* Every step keeps what the loop has popped out of its heap.
LEMMA PoppedStep ==
    ASSUME AuthType, LoopType, PoppedInv, [Next]_vars
    PROVE  PoppedInv'
<1> USE DEF InHandPcs
<1>1. /\ loop.pc \in InHandPcs => loop.phase \in {"due", "dirty"} /\ loop.id \in Ids
                                  /\ loop.id \notin loop.todo
      /\ Popped => \A id \in loop.todo : heap[id] = 0
      /\ loop.pc = "mark" => heap[loop.id] = 0 /\ loop.phase = "due"
      /\ loop.todo \subseteq Ids
  BY LoopKinds DEF PoppedInv
<1>2. CASE StartAutoRefresh \/ RebuildRead \/ RebuildInstall
  BY <1>2, RebuildMoves DEF PoppedInv, Popped
<1>3. CASE LoopWoken \/ resetTimer
  <2>1. CASE LoopWoken
    BY <2>1 DEF LoopWoken, PoppedInv, Popped
  <2>2. CASE resetTimer
    BY <2>2, SelectMoves DEF PoppedInv, Popped
  <2> QED
    BY <1>3, <2>1, <2>2
<1>4. CASE popDue
  BY <1>4 DEF popDue, PoppedInv, Popped
<1>5. CASE markRefreshPending \/ RereadDue
  <2>1. /\ loop.pc \in {"mark", "reread"} /\ loop'.pc \in {"send", "reread", "put"}
        /\ SameHand /\ UNCHANGED heap
    BY <1>5, HandMoves
  <2> QED
    BY <1>1, <2>1 DEF PoppedInv, Popped, SameHand
<1>6. CASE SendJob
  BY <1>1, <1>6, HandMoves DEF PoppedInv, Popped
<1>7. CASE upsert
  <2>1. /\ loop.pc = "put" /\ loop'.pc = loop.phase /\ loop'.todo = loop.todo
        /\ \A id \in Ids \ {loop.id} : heap'[id] = heap[id]
    BY <1>7, HandMoves DEF LoopType
  <2> QED
    BY <1>1, <2>1 DEF PoppedInv, Popped
<1>8. CASE drainDirty
  BY <1>8 DEF drainDirty, PoppedInv, Popped
<1>9. ASSUME NEW i \in Ids, handleDueAuth(i) PROVE PoppedInv'
  <2>1. loop.pc = "due" /\ i \in loop.todo /\ UNCHANGED heap
    BY <1>9 DEF handleDueAuth
  <2>2. \A id \in loop.todo : heap[id] = 0
    BY <1>1, <2>1 DEF Popped
  <2>3. CASE loop'.pc = "due" /\ loop'.todo = loop.todo \ {i}
    BY <2>1, <2>2, <2>3 DEF PoppedInv, Popped
  <2>4. CASE TakesInHand(i)
    BY <2>1, <2>2, <2>4 DEF TakesInHand, PoppedInv, Popped
  <2> QED
    BY <1>9, <2>3, <2>4, TodoMoves
<1>10. ASSUME NEW i \in Ids, applyDirty(i) PROVE PoppedInv'
  <2>1. loop.pc = "dirty" /\ UNCHANGED heap /\ TakesInHand(i) /\ loop'.pc = "put"
    <3>1. loop' = InHand("put", i, nextRefreshCheckAt(loop.seen, auths[i]))
      BY <1>10 DEF applyDirty
    <3>2. loop'.pc = "put"
      BY <3>1 DEF InHand
    <3> QED
      BY <1>10, <3>2, TodoMoves
  <2> QED
    BY <2>1 DEF TakesInHand, PoppedInv, Popped
<1>11. ASSUME NEW e \in Editors, queueRefreshUnschedule(e) PROVE PoppedInv'
  <2>1. UNCHANGED loop /\ \A id \in Ids : heap'[id] \in {0, heap[id]}
    BY <1>11 DEF queueRefreshUnschedule, LoopType
  <2> QED
    BY <1>1, <2>1 DEF PoppedInv, Popped
<1>12. CASE UNCHANGED <<loop, heap>>
  BY <1>1, <1>12 DEF PoppedInv, Popped
<1> QED
  BY <1>2, <1>3, <1>4, <1>5, <1>6, <1>7, <1>8, <1>9, <1>10, <1>11, <1>12, LoopFrame

\* A look at a credential at the loop's clock finds it due after its mark.
LEMMA LookPaced ==
    ASSUME AuthType, LoopType, LoopInv, RestInv, MarkedInv, markedAt \in [Ids -> Nat],
           NEW id \in Ids, restored[id] = {}, Working,
           nextRefreshCheckAt(loop.seen, auths[id]) # 0
    PROVE  nextRefreshCheckAt(loop.seen, auths[id]) > markedAt[id]
<1>1. loop.seen \in Nat /\ loop.seen >= 1 /\ markedAt[id] \in Nat /\ markedAt[id] <= loop.seen
  BY LoopKinds DEF LoopInv, MarkedInv, Working, InHandPcs
<1>2. Present(id)
  BY CheckAtNone DEF Present
<1>3. auths[id] \in AuthRec
  BY <1>2, PresentRec
<1> DEFINE a == auths[id]
<1>4. /\ ~hasUnauthorizedAuthFailure(a) /\ a.nra \in Nat /\ a.due \in Nat
      /\ nextRefreshCheckAt(loop.seen, a) = IF a.nra > loop.seen THEN a.nra
                                            ELSE IF loop.seen >= a.due THEN loop.seen ELSE a.due
  BY <1>1, <1>3, CheckAt DEF AuthRec
<1>5. markedAt[id] = 0 \/ a.nra > markedAt[id] \/ a.due > markedAt[id]
  BY <1>2, <1>4 DEF RestInv
<1> HIDE DEF a
<1>6. nextRefreshCheckAt(loop.seen, a) > markedAt[id]
  BY <1>1, <1>4, <1>5
<1> QED
  BY <1>6 DEF a

\* Every step keeps a marked credential out of the loop's rounds of that instant.
LEMMA RoundStep ==
    ASSUME AuthType, CallType, EditType, LoopType, SpentType, OwnInv, LoopInv, OrderInv, RestInv,
           MarkedInv, PoppedInv, RoundInv, markedAt \in [Ids -> Nat], [Next]_vars
    PROVE  RoundInv'
<1> SUFFICES ASSUME NEW id \in Ids, restored'[id] = {}
             PROVE  /\ heap'[id] # 0 => heap'[id] > markedAt'[id]
                    /\ Popped' /\ id \in loop'.todo => markedAt'[id] < loop'.seen
                    /\ loop'.pc \in {"mark", "reread"} /\ loop'.id = id
                          => markedAt'[id] < loop'.seen
                    /\ loop'.pc = "put" /\ loop'.id = id /\ loop'.next # 0
                          => loop'.next > markedAt'[id]
  BY DEF RoundInv
<1> DEFINE Goal == /\ heap'[id] # 0 => heap'[id] > markedAt'[id]
                   /\ Popped' /\ id \in loop'.todo => markedAt'[id] < loop'.seen
                   /\ loop'.pc \in {"mark", "reread"} /\ loop'.id = id
                         => markedAt'[id] < loop'.seen
                   /\ loop'.pc = "put" /\ loop'.id = id /\ loop'.next # 0
                         => loop'.next > markedAt'[id]
<1> USE DEF InHandPcs
<1>1. restored[id] = {}
  BY PacesStep
<1>2. /\ heap[id] # 0 => heap[id] > markedAt[id]
      /\ Popped /\ id \in loop.todo => markedAt[id] < loop.seen
      /\ loop.pc \in {"mark", "reread"} /\ loop.id = id => markedAt[id] < loop.seen
      /\ loop.pc = "put" /\ loop.id = id /\ loop.next # 0 => loop.next > markedAt[id]
  BY <1>1 DEF RoundInv
<1>3. /\ loop.pc \in InHandPcs => loop.phase \in {"due", "dirty"} /\ loop.id \in Ids
                                  /\ loop.next \in Nat /\ loop.id \notin loop.todo
      /\ loop.seen \in Nat /\ loop.todo \subseteq Ids
  BY LoopKinds DEF PoppedInv
<1>4. /\ now \in Nat /\ heap[id] \in Nat /\ markedAt[id] \in Nat /\ markedAt'[id] \in Nat
      /\ markedAt[id] <= now
  BY Clock, MarksMove DEF LoopType, MarkedInv
<1>5. ~markRefreshPending => markedAt'[id] <= markedAt[id]
  BY MarksMove
<1>6. ASSUME ~markRefreshPending, heap'[id] \in {0, heap[id]}, UNCHANGED loop PROVE Goal
  BY <1>2, <1>3, <1>4, <1>5, <1>6 DEF Popped
<1>7. ASSUME NEW i \in Ids, TakesInHand(i), ~markRefreshPending, loop.pc \in {"due", "dirty"},
             UNCHANGED heap, loop'.pc = "mark" => loop.pc = "due" /\ i \in loop.todo
      PROVE  Goal
  <2>1. heap'[id] # 0 => heap'[id] > markedAt'[id]
    BY <1>2, <1>4, <1>5, <1>7
  <2>2. /\ loop'.pc \in {"put", "mark"} /\ loop'.phase = loop.pc /\ loop'.id = i
        /\ loop'.todo = loop.todo \ {i} /\ loop'.seen = loop.seen
        /\ loop'.pc = "put" => loop'.next = nextRefreshCheckAt(loop.seen, auths[i])
    BY <1>7 DEF TakesInHand
  <2>3. Popped' /\ id \in loop'.todo => markedAt'[id] < loop'.seen
    BY <1>2, <1>3, <1>4, <1>5, <1>7, <2>2 DEF Popped
  <2>4. loop'.pc \in {"mark", "reread"} /\ loop'.id = id => markedAt'[id] < loop'.seen
    BY <1>2, <1>3, <1>4, <1>5, <1>7, <2>2 DEF Popped
  <2>5. ASSUME loop'.pc = "put", loop'.id = id, loop'.next # 0 PROVE loop'.next > markedAt'[id]
    <3>1. loop'.next > markedAt[id]
      BY <1>1, <1>7, <2>2, <2>5, LookPaced DEF Working
    <3>2. loop'.next \in Nat
      BY LoopTypeStep, <2>5 DEF LoopType, Loops
    <3> QED
      BY <1>4, <1>5, <1>7, <3>1, <3>2
  <2> QED
    BY <2>1, <2>3, <2>4, <2>5
<1>8. CASE StartAutoRefresh \/ RebuildRead
  <2>1. loop'.pc \in {"rebuild", "install"} /\ ~markRefreshPending /\ UNCHANGED heap
    BY <1>8, RebuildMoves DEF markRefreshPending
  <2> QED
    BY <1>2, <1>4, <1>5, <2>1 DEF Popped
<1>9. CASE RebuildInstall
  <2>1. loop.pc = "install" /\ loop'.pc = "dirty" /\ ~markRefreshPending
    BY <1>9, RebuildMoves DEF markRefreshPending
  <2>2. heap'[id] \in Nat /\ markedAt[id] = 0
    BY <2>1, HeapStep DEF MarkedInv
  <2> QED
    BY <1>4, <1>5, <2>1, <2>2 DEF Popped
<1>10. CASE LoopWoken
  <2>1. loop'.pc = "due" /\ loop'.todo = {} /\ ~markRefreshPending /\ UNCHANGED heap
    BY <1>10 DEF LoopWoken, markRefreshPending
  <2> QED
    BY <1>2, <1>4, <1>5, <2>1 DEF Popped
<1>11. CASE popDue
  <2>1. /\ loop'.pc = "due" /\ loop'.seen = now /\ ~markRefreshPending
        /\ heap'[id] \in {0, heap[id]}
        /\ id \in loop'.todo => heap[id] # 0 /\ heap[id] <= now
    BY <1>11 DEF popDue, markRefreshPending
  <2> QED
    BY <1>2, <1>4, <1>5, <2>1 DEF Popped
<1>12. CASE resetTimer
  <2>1. loop'.pc = "select" /\ ~markRefreshPending /\ UNCHANGED heap
    BY <1>12, SelectMoves DEF resetTimer, markRefreshPending
  <2> QED
    BY <1>2, <1>4, <1>5, <2>1 DEF Popped
<1>13. CASE markRefreshPending
  <2>1. /\ loop.pc = "mark" /\ loop'.pc \in {"send", "reread"} /\ SameHand /\ UNCHANGED heap
        /\ loop.id \in Ids
    BY <1>3, <1>13, HandMoves
  <2>2. CASE loop.id = id /\ markedAt'[id] = loop.seen
    <3>1. heap[id] = 0
      BY <2>1, <2>2 DEF PoppedInv
    <3>2. loop'.pc = "send" \/ markedAt'[id] = markedAt[id]
      <4>1. Paces(id)
        BY PacesStep
      <4> QED
        BY <2>2, <4>1, MarkPaced, <1>13
    <3> QED
      BY <1>2, <1>3, <1>4, <2>1, <2>2, <3>1, <3>2 DEF SameHand
  <2>3. CASE markedAt'[id] <= markedAt[id]
    BY <1>2, <1>3, <1>4, <2>1, <2>3 DEF SameHand, Popped
  <2> QED
    BY <2>2, <2>3, MarksMove
<1>14. CASE RereadDue
  <2>1. /\ loop.pc = "reread" /\ loop'.pc = "put" /\ SameHand /\ UNCHANGED heap
        /\ loop'.next = nextRefreshCheckAt(loop.seen, auths[loop.id]) /\ ~markRefreshPending
    BY <1>14, HandMoves DEF markRefreshPending
  <2>2. ASSUME loop'.id = id, loop'.next # 0 PROVE loop'.next > markedAt'[id]
    <3>1. loop'.next > markedAt[id]
      BY <1>1, <2>1, <2>2, LookPaced DEF Working, SameHand
    <3>2. loop'.next \in Nat
      BY LoopTypeStep, <2>1 DEF LoopType, Loops
    <3> QED
      BY <1>4, <1>5, <2>1, <3>1, <3>2
  <2> QED
    BY <1>2, <1>3, <1>4, <1>5, <2>1, <2>2 DEF SameHand, Popped
<1>15. CASE SendJob
  <2>1. /\ loop.pc = "send" /\ loop'.pc = loop.phase /\ UNCHANGED heap /\ ~markRefreshPending
        /\ loop'.todo = loop.todo /\ loop'.seen = loop.seen
    BY <1>15, HandMoves DEF markRefreshPending
  <2> QED
    BY <1>2, <1>3, <1>4, <1>5, <2>1 DEF Popped
<1>16. CASE upsert
  <2>1. /\ loop.pc = "put" /\ loop'.pc = loop.phase /\ ~markRefreshPending
        /\ loop'.todo = loop.todo /\ loop'.seen = loop.seen
        /\ heap' = [heap EXCEPT ![loop.id] = loop.next]
    BY <1>16, HandMoves DEF markRefreshPending
  <2>2. heap'[id] = heap[id] \/ (loop.id = id /\ heap'[id] = loop.next)
    BY <2>1 DEF LoopType
  <2> QED
    BY <1>2, <1>3, <1>4, <1>5, <2>1, <2>2 DEF Popped
<1>17. CASE drainDirty
  <2>1. loop'.pc = "dirty" /\ UNCHANGED heap /\ ~markRefreshPending
    BY <1>17 DEF drainDirty, markRefreshPending
  <2> QED
    BY <1>2, <1>4, <1>5, <2>1 DEF Popped
<1>18. ASSUME NEW i \in Ids, handleDueAuth(i) PROVE Goal
  <2>1. loop.pc = "due" /\ i \in loop.todo /\ UNCHANGED heap /\ ~markRefreshPending
    BY <1>18 DEF handleDueAuth, markRefreshPending
  <2>2. CASE loop'.pc = "due" /\ loop'.todo = loop.todo \ {i} /\ loop'.seen = loop.seen
    BY <1>2, <1>3, <1>4, <1>5, <2>1, <2>2 DEF Popped
  <2> QED
    BY <1>7, <1>18, <2>1, <2>2, TodoMoves
<1>19. ASSUME NEW i \in Ids, applyDirty(i) PROVE Goal
  <2>1. loop.pc = "dirty" /\ UNCHANGED heap /\ ~markRefreshPending
    BY <1>19 DEF applyDirty, markRefreshPending
  <2>2. loop' = InHand("put", i, nextRefreshCheckAt(loop.seen, auths[i]))
    BY <1>19 DEF applyDirty
  <2>3. loop'.pc = "put"
    BY <2>2 DEF InHand
  <2> QED
    BY <1>7, <1>19, <2>1, <2>3, TodoMoves
<1>20. ASSUME NEW e \in Editors, queueRefreshUnschedule(e) PROVE Goal
  <2>1. UNCHANGED loop /\ heap'[id] \in {0, heap[id]}
    BY <1>20 DEF queueRefreshUnschedule, LoopType
  <2>2. CASE markRefreshPending
    BY <1>13, <2>2
  <2> QED
    BY <1>6, <2>1, <2>2
<1>21. CASE UNCHANGED <<loop, heap>>
  BY <1>6, <1>13, <1>21
<1> QED
  BY <1>8, <1>9, <1>10, <1>11, <1>12, <1>13, <1>14, <1>15, <1>16, <1>17, <1>18, <1>19, <1>20,
     <1>21, LoopFrame

\* The pace holds from the beginning.
LEMMA PaceIndInit == Init => PaceInd
<1> SUFFICES ASSUME Init PROVE PaceInd
  OBVIOUS
<1>1. /\ RefreshInd /\ now = 1 /\ loop.pc = "off" /\ Life \in Nat \ {0}
      /\ \A p \in Callers : call[p].pc = "idle"
      /\ \A e \in Editors : edit[e].pc = "idle"
  BY RefreshIndInit, RefreshAssumption DEF Init, Idle
<1>2. ASSUME NEW id \in Ids PROVE markedAt[id] = 0 /\ heap[id] = 0 /\ auths[id].due = 1
  <2> DEFINE fresh == Login(1, 1, 1, 0)
             due == now + Life
  <2>1. fresh = [epoch |-> 1, gen |-> 1, token |-> 1, due |-> due, nra |-> 0, err |-> "none",
                 errOf |-> 0, down |-> FALSE, note |-> 0]
    BY DEF Login
  <2>2. fresh \in AuthRec
    <3>1. due \in Nat
      BY <1>1
    <3> HIDE DEF due, fresh
    <3> QED
      BY <2>1, <3>1 DEF AuthRec
  <2>3. auths[id] = [fresh EXCEPT !.due = now]
    BY DEF Init
  <2> HIDE DEF fresh
  <2>4. auths[id].due = now
    BY <2>2, <2>3 DEF AuthRec
  <2> QED
    BY <1>1, <2>4 DEF Init
<1>3. markedAt \in [Ids -> Nat] /\ loop.todo = {}
  BY DEF Init
<1>4. OrderInv
  BY <1>1, <1>2 DEF OrderInv
<1>5. RestInv /\ MarkedInv /\ PoppedInv
  BY <1>1, <1>2, <1>3 DEF RestInv, MarkedInv, PoppedInv, Working, Popped, InHandPcs
<1>6. RoundInv
  BY <1>1, <1>2, <1>3 DEF RoundInv, Popped, InHandPcs
<1> QED
  BY <1>3, <1>4, <1>5, <1>6 DEF PaceInd

\* It is inductive on top of RefreshInd.
LEMMA PaceIndStep == RefreshInd /\ PaceInd /\ [Next]_vars => PaceInd'
<1> SUFFICES ASSUME RefreshInd, PaceInd, [Next]_vars PROVE PaceInd'
  OBVIOUS
<1> USE DEF RefreshInd, PaceInd
<1>1. markedAt' \in [Ids -> Nat]
  BY PacesStep
<1>2. OrderInv' /\ RestInv' /\ MarkedInv'
  BY OrderStep, RestStep, MarkedStep
<1>3. PoppedInv' /\ RoundInv'
  BY PoppedStep, RoundStep
<1> QED
  BY <1>1, <1>2, <1>3

\* The loop marks a credential for one job per instant (handleDueAuth,
\* markRefreshPending), however its refreshes end, unless an editor replaced it or
\* an edit has written back a replaced token.
THEOREM RefreshesPaced == Spec => Paced
<1> DEFINE Pace == loop.pc = "mark" /\ loop'.pc = "send" =>
                       markedAt[loop.id] < loop.seen \/ restored[loop.id] # {}
<1>1. RefreshInd /\ PaceInd /\ [Next]_vars => [Pace]_vars
  <2> SUFFICES ASSUME RefreshInd, PaceInd, loop.pc = "mark"
               PROVE  markedAt[loop.id] < loop.seen \/ restored[loop.id] # {}
    OBVIOUS
  <2>1. loop.id \in Ids
    BY LoopKinds DEF RefreshInd
  <2> QED
    BY <2>1 DEF PaceInd, RoundInv
<1>2. Spec => [](RefreshInd /\ PaceInd)
  BY RefreshIndInit, RefreshIndStep, PaceIndInit, PaceIndStep, PTL DEF Spec
<1> QED
  BY <1>1, <1>2, PTL DEF Spec, Paced
=============================================================================
