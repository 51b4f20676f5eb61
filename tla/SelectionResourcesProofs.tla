---------------------- MODULE SelectionResourcesProofs ----------------------
(***************************************************************************)
(* Proofs about SelectionResources, for any number of attempts and         *)
(* binders.                                                                *)
(***************************************************************************)
EXTENDS SelectionResources, SequenceTheorems, TLAPS

Closers == Binders \cup {CancelAttempts}

\* The cancellation of the attempts is the first closer of the list, so that it
\* is still to be run until it has run.
ListInv ==
    /\ closing = "idle" => ~closed /\ Len(closers) > 0 /\ closers[1] = CancelAttempts
    /\ closing = "running" => listClosed \/ (Len(todo) > 0 /\ todo[1] = CancelAttempts)
    /\ closing \in {"cancelling", "done"} => listClosed

\* An attempt in progress is listed, about to be cancelled or cancelled.
AttemptInv ==
    /\ closing # "cancelling" => sweep = {}
    /\ listClosed => listed = {}
    /\ \A a \in Attempts : attempt[a] = "active" => a \in listed \cup sweep \cup cancelled

\* What ran and what is left make up the list, read backwards.
OrderInv ==
    /\ closing = "idle" => ~closed /\ closers = bound /\ ran = <<>>
    /\ closing # "idle" => /\ closed
                           /\ Len(ran) + Len(todo) = Len(bound)
                           /\ \A k \in 1..Len(todo) : todo[k] = bound[k]
    /\ closing = "done" => todo = <<>>
    /\ \A k \in 1..Len(ran) : ran[k] = bound[Len(bound) + 1 - k]

IndInv == TypeOK /\ ListInv /\ AttemptInv /\ OrderInv

\* Front and Last of a non-empty sequence, element by element.
LEMMA FrontLast ==
    ASSUME NEW S, NEW s \in Seq(S), s # <<>>
    PROVE  /\ Front(s) \in Seq(S) /\ Len(Front(s)) = Len(s) - 1
           /\ \A k \in 1..Len(s) - 1 : Front(s)[k] = s[k]
           /\ Last(s) = s[Len(s)] /\ Last(s) \in S
           /\ Len(s) \in Nat /\ Len(s) > 0
<1>1. Len(s) \in Nat /\ Len(s) > 0 /\ \A k \in 1..Len(s) : s[k] \in S
  BY EmptySeq, ElementOfSeq
<1>2. /\ SubSeq(s, 1, Len(s) - 1) \in Seq(S)
      /\ Len(SubSeq(s, 1, Len(s) - 1)) = Len(s) - 1
      /\ \A k \in 1..Len(s) - 1 : SubSeq(s, 1, Len(s) - 1)[k] = s[k]
  <2>1. 1 \in Int /\ Len(s) - 1 \in Int /\ \A k \in 1..Len(s) - 1 : s[k] \in S
    BY <1>1
  <2>2. /\ SubSeq(s, 1, Len(s) - 1) \in Seq(S)
        /\ Len(SubSeq(s, 1, Len(s) - 1)) =
              IF 1 <= Len(s) - 1 THEN (Len(s) - 1) - 1 + 1 ELSE 0
        /\ \A k \in 1..(Len(s) - 1) - 1 + 1 : SubSeq(s, 1, Len(s) - 1)[k] = s[1 + k - 1]
    BY <2>1, SubSeqProperties
  <2>3. Len(SubSeq(s, 1, Len(s) - 1)) = Len(s) - 1
    <3>1. Len(s) \in Nat /\ Len(s) > 0
      BY <1>1
    <3>2. \A n \in Nat : n > 0 => (IF 1 <= n - 1 THEN (n - 1) - 1 + 1 ELSE 0) = n - 1
      OBVIOUS
    <3>3. (IF 1 <= Len(s) - 1 THEN (Len(s) - 1) - 1 + 1 ELSE 0) = Len(s) - 1
      BY <3>1, <3>2, Zenon
    <3>4. Len(SubSeq(s, 1, Len(s) - 1)) =
             IF 1 <= Len(s) - 1 THEN (Len(s) - 1) - 1 + 1 ELSE 0
      BY <2>2, Zenon
    <3> QED
      BY <3>3, <3>4
  <2>4. ASSUME NEW k \in 1..Len(s) - 1 PROVE SubSeq(s, 1, Len(s) - 1)[k] = s[k]
    <3>1. k \in 1..(Len(s) - 1) - 1 + 1 /\ 1 + k - 1 = k
      BY <1>1
    <3> QED
      BY <2>2, <3>1
  <2> QED
    BY <2>2, <2>3, <2>4
<1>3. Len(s) \in 1..Len(s)
  BY <1>1
<1> QED
  BY <1>1, <1>2, <1>3 DEF Front, Last

\* The initial state satisfies the invariant.
LEMMA InitInv == Init => IndInv
<1> SUFFICES ASSUME Init PROVE IndInv
  OBVIOUS
<1>1. TypeOK
  <2>1. <<CancelAttempts>> \in Seq(Closers) /\ <<>> \in Seq(Closers)
    BY DEF Closers
  <2> QED
    BY <2>1 DEF Init, TypeOK, Closers
<1>2. ListInv /\ AttemptInv /\ OrderInv
  BY DEF Init, ListInv, AttemptInv, OrderInv
<1> QED
  BY <1>1, <1>2 DEF IndInv

\* Every step keeps the types.
LEMMA TypeStep == ASSUME TypeOK, [Next]_vars PROVE TypeOK'
<1>1. ASSUME NEW a \in Attempts, AddAttempt(a) PROVE TypeOK'
  BY <1>1 DEF TypeOK, AddAttempt, listVars, closeVars
<1>2. ASSUME NEW a \in Attempts, RefuseAttempt(a) PROVE TypeOK'
  BY <1>2 DEF TypeOK, RefuseAttempt, listVars, closeVars
<1>3. ASSUME NEW a \in Attempts, ReleaseAttempt(a) PROVE TypeOK'
  BY <1>3 DEF TypeOK, ReleaseAttempt, listVars, closeVars
<1>4. ASSUME NEW a \in Attempts, CancelReleased(a) PROVE TypeOK'
  BY <1>4 DEF TypeOK, CancelReleased, listVars, closeVars
<1>5. ASSUME NEW b \in Binders, Bind(b) PROVE TypeOK'
  <2>1. closers' \in Seq(Closers) /\ bound' \in Seq(Closers)
    <3>1. Append(closers, b) \in Seq(Closers) /\ Append(bound, b) \in Seq(Closers)
      BY AppendProperties DEF TypeOK, Closers
    <3> QED
      BY <1>5, <3>1 DEF TypeOK, Bind, Closers
  <2>2. closed' => closers' = <<>>
    BY <1>5 DEF TypeOK, Bind
  <2> QED
    BY <1>5, <2>1, <2>2 DEF TypeOK, Bind, attemptVars, closeVars, Closers
<1>6. ASSUME NEW b \in Binders, CloseLate(b) PROVE TypeOK'
  BY <1>6 DEF TypeOK, CloseLate, listVars, attemptVars, closeVars
<1>7. ASSUME CloseStart PROVE TypeOK'
  BY <1>7 DEF TypeOK, CloseStart, attemptVars
<1>8. ASSUME CloseNext PROVE TypeOK'
  <2>1. todo' \in Seq(Closers) /\ Last(todo) \in Closers
    BY <1>8, FrontLast DEF TypeOK, CloseNext, Closers
  <2>2. ran' \in Seq(Closers)
    BY <1>8, <2>1, AppendProperties DEF TypeOK, CloseNext, Closers
  <2> QED
    BY <1>8, <2>1, <2>2 DEF TypeOK, CloseNext, listVars, Closers
<1>9. ASSUME NEW a \in Attempts, CancelNext(a) PROVE TypeOK'
  BY <1>9 DEF TypeOK, CancelNext, listVars
<1>10. ASSUME CancelsDone PROVE TypeOK'
  BY <1>10 DEF TypeOK, CancelsDone, listVars, attemptVars
<1>11. ASSUME CloseEnd PROVE TypeOK'
  BY <1>11 DEF TypeOK, CloseEnd, listVars, attemptVars
<1>12. ASSUME UNCHANGED vars PROVE TypeOK'
  BY <1>12 DEF TypeOK, vars
<1> QED
  BY <1>1, <1>2, <1>3, <1>4, <1>5, <1>6, <1>7, <1>8, <1>9, <1>10, <1>11, <1>12 DEF Next, Close

\* No step lets the cancellation of the attempts drop out of the list.
LEMMA ListStep == ASSUME TypeOK, ListInv, [Next]_vars PROVE ListInv'
<1>1. ASSUME NEW a \in Attempts,
             AddAttempt(a) \/ RefuseAttempt(a) \/ ReleaseAttempt(a) \/ CancelReleased(a)
      PROVE  ListInv'
  BY <1>1 DEF ListInv, AddAttempt, RefuseAttempt, ReleaseAttempt, CancelReleased,
              listVars, closeVars
<1>2. ASSUME NEW b \in Binders, Bind(b) PROVE ListInv'
  <2>1. CASE closed
    BY <1>2, <2>1 DEF ListInv, Bind, attemptVars, closeVars
  <2>2. CASE ~closed
    <3>1. /\ Len(closers) \in Nat /\ Len(closers') = Len(closers) + 1
          /\ \A k \in 1..Len(closers) : closers'[k] = closers[k]
      <4>1. closers' = Append(closers, b) /\ closers \in Seq(Closers) /\ b \in Closers
        BY <1>2, <2>2 DEF TypeOK, Bind, Closers
      <4> QED
        BY <4>1, AppendProperties, LenProperties
    <3>2. UNCHANGED <<closing, closed, todo, listClosed>>
      BY <1>2 DEF Bind, attemptVars, closeVars
    <3>3. ASSUME closing = "idle" PROVE Len(closers') > 0 /\ closers'[1] = CancelAttempts
      <4>1. Len(closers) > 0 /\ closers[1] = CancelAttempts
        BY <3>3 DEF ListInv
      <4> QED
        BY <3>1, <4>1
    <3> QED
      BY <3>2, <3>3 DEF ListInv
  <2> QED
    BY <2>1, <2>2
<1>3. ASSUME NEW b \in Binders, CloseLate(b) PROVE ListInv'
  BY <1>3 DEF ListInv, CloseLate, listVars, attemptVars, closeVars
<1>4. ASSUME CloseStart PROVE ListInv'
  BY <1>4 DEF ListInv, CloseStart, attemptVars
<1>5. ASSUME CloseNext PROVE ListInv'
  <2>1. CASE Last(todo) = CancelAttempts
    BY <1>5, <2>1 DEF ListInv, CloseNext
  <2>2. CASE Last(todo) # CancelAttempts
    <3>1. /\ Len(todo) \in Nat /\ Len(todo) > 0 /\ Last(todo) = todo[Len(todo)]
          /\ Len(Front(todo)) = Len(todo) - 1
          /\ \A k \in 1..Len(todo) - 1 : Front(todo)[k] = todo[k]
      BY <1>5, FrontLast DEF TypeOK, CloseNext
    <3>2. listClosed \/ (Len(todo') > 0 /\ todo'[1] = CancelAttempts)
      BY <1>5, <2>2, <3>1 DEF ListInv, CloseNext
    <3> QED
      BY <1>5, <2>2, <3>2 DEF ListInv, CloseNext
  <2> QED
    BY <2>1, <2>2
<1>6. ASSUME NEW a \in Attempts, CancelNext(a) PROVE ListInv'
  BY <1>6 DEF ListInv, CancelNext, listVars
<1>7. ASSUME CancelsDone PROVE ListInv'
  BY <1>7 DEF ListInv, CancelsDone, listVars, attemptVars
<1>8. ASSUME CloseEnd PROVE ListInv'
  BY <1>8 DEF ListInv, CloseEnd, listVars, attemptVars
<1>9. ASSUME UNCHANGED vars PROVE ListInv'
  BY <1>9 DEF ListInv, vars
<1> QED
  BY <1>1, <1>2, <1>3, <1>4, <1>5, <1>6, <1>7, <1>8, <1>9 DEF Next, Close

\* No step loses an attempt in progress.
LEMMA AttemptStep == ASSUME TypeOK, AttemptInv, [Next]_vars PROVE AttemptInv'
<1>1. ASSUME NEW a \in Attempts,
             AddAttempt(a) \/ RefuseAttempt(a) \/ ReleaseAttempt(a) \/ CancelReleased(a)
      PROVE  AttemptInv'
  <2>1. ASSUME NEW c \in Attempts, attempt'[c] = "active"
        PROVE  c \in listed' \cup sweep' \cup cancelled'
    <3>1. attempt[c] = "active" => c \in listed \cup sweep \cup cancelled
      BY DEF AttemptInv
    <3>2. CASE AddAttempt(a)
      BY <2>1, <3>1, <3>2 DEF TypeOK, AddAttempt, closeVars
    <3>3. CASE RefuseAttempt(a)
      BY <2>1, <3>1, <3>3 DEF TypeOK, RefuseAttempt, closeVars
    <3>4. CASE ReleaseAttempt(a)
      BY <2>1, <3>1, <3>4 DEF TypeOK, ReleaseAttempt, closeVars
    <3>5. CASE CancelReleased(a)
      BY <2>1, <3>1, <3>5 DEF TypeOK, CancelReleased, closeVars
    <3> QED
      BY <1>1, <3>2, <3>3, <3>4, <3>5
  <2>2. /\ closing' # "cancelling" => sweep' = {}
        /\ listClosed' => listed' = {}
    BY <1>1 DEF AttemptInv, AddAttempt, RefuseAttempt, ReleaseAttempt,
                CancelReleased, closeVars
  <2> QED
    BY <2>1, <2>2 DEF AttemptInv
<1>2. ASSUME NEW b \in Binders, Bind(b) \/ CloseLate(b) PROVE AttemptInv'
  BY <1>2 DEF AttemptInv, Bind, CloseLate, attemptVars, closeVars
<1>3. ASSUME CloseStart PROVE AttemptInv'
  BY <1>3 DEF AttemptInv, CloseStart, attemptVars
<1>4. ASSUME CloseNext PROVE AttemptInv'
  BY <1>4 DEF TypeOK, AttemptInv, CloseNext
<1>5. ASSUME NEW a \in Attempts, CancelNext(a) PROVE AttemptInv'
  BY <1>5 DEF AttemptInv, CancelNext
<1>6. ASSUME CancelsDone \/ CloseEnd PROVE AttemptInv'
  BY <1>6 DEF AttemptInv, CancelsDone, CloseEnd, attemptVars
<1>7. ASSUME UNCHANGED vars PROVE AttemptInv'
  BY <1>7 DEF AttemptInv, vars
<1> QED
  BY <1>1, <1>2, <1>3, <1>4, <1>5, <1>6, <1>7 DEF Next, Close

\* Every step keeps what ran and what is left in the order of the list.
LEMMA OrderStep == ASSUME TypeOK, OrderInv, [Next]_vars PROVE OrderInv'
<1>1. ASSUME NEW a \in Attempts,
             AddAttempt(a) \/ RefuseAttempt(a) \/ ReleaseAttempt(a) \/ CancelReleased(a)
      PROVE  OrderInv'
  BY <1>1 DEF OrderInv, AddAttempt, RefuseAttempt, ReleaseAttempt, CancelReleased,
              listVars, closeVars
<1>2. ASSUME NEW b \in Binders, Bind(b) PROVE OrderInv'
  <2>1. CASE closed
    BY <1>2, <2>1 DEF OrderInv, Bind, attemptVars, closeVars
  <2>2. CASE ~closed
    <3>1. closing = "idle" /\ ran = <<>> /\ closers = bound
      BY <2>2 DEF OrderInv
    <3> QED
      BY <1>2, <2>2, <3>1 DEF OrderInv, Bind, attemptVars, closeVars
  <2> QED
    BY <2>1, <2>2
<1>3. ASSUME NEW b \in Binders, CloseLate(b) PROVE OrderInv'
  BY <1>3 DEF OrderInv, CloseLate, listVars, attemptVars, closeVars
<1>4. ASSUME CloseStart PROVE OrderInv'
  BY <1>4 DEF TypeOK, OrderInv, CloseStart, attemptVars
<1>5. ASSUME CloseNext PROVE OrderInv'
  <2>1. /\ Len(todo) \in Nat /\ Len(todo) > 0 /\ Last(todo) = todo[Len(todo)]
        /\ Len(todo') = Len(todo) - 1
        /\ \A k \in 1..Len(todo) - 1 : todo'[k] = todo[k]
    BY <1>5, FrontLast DEF TypeOK, CloseNext
  <2>2. /\ Len(ran) \in Nat /\ Len(ran') = Len(ran) + 1
        /\ ran'[Len(ran) + 1] = Last(todo)
        /\ \A k \in 1..Len(ran) : ran'[k] = ran[k]
    <3>1. todo # <<>> /\ ran' = Append(ran, Last(todo))
      BY <1>5 DEF CloseNext
    <3>2. Last(todo) \in Closers /\ ran \in Seq(Closers)
      BY <3>1, FrontLast DEF TypeOK, Closers
    <3> QED
      BY <3>1, <3>2, AppendProperties, LenProperties
  <2>3. /\ closing = "running" /\ closing' \in {"running", "cancelling"}
        /\ bound' = bound /\ closed' = closed
    BY <1>5 DEF CloseNext, listVars
  <2>4. /\ closed /\ Len(ran) + Len(todo) = Len(bound) /\ Len(bound) \in Nat
        /\ \A k \in 1..Len(todo) : todo[k] = bound[k]
        /\ \A k \in 1..Len(ran) : ran[k] = bound[Len(bound) + 1 - k]
    BY <2>1, <2>2, <2>3 DEF OrderInv
  <2>5. ASSUME NEW k \in 1..Len(ran') PROVE ran'[k] = bound[Len(bound) + 1 - k]
    <3>1. CASE k \in 1..Len(ran)
      BY <2>2, <2>4, <3>1
    <3>2. CASE k = Len(ran) + 1
      <4>1. Len(bound) + 1 - k = Len(todo) /\ Len(todo) \in 1..Len(todo)
        BY <2>1, <2>2, <2>4, <3>2
      <4> QED
        BY <2>1, <2>2, <2>4, <3>2, <4>1
    <3>3. k \in 1..Len(ran) \/ k = Len(ran) + 1
      BY <2>2
    <3> QED
      BY <3>1, <3>2, <3>3
  <2>6. Len(ran') + Len(todo') = Len(bound)
    <3>1. /\ Len(todo) \in Nat /\ Len(ran) \in Nat /\ Len(ran) + Len(todo) = Len(bound)
          /\ Len(todo') = Len(todo) - 1 /\ Len(ran') = Len(ran) + 1
      BY <2>1, <2>2, <2>4, Zenon
    <3> QED
      BY <3>1
  <2>7. ASSUME NEW k \in 1..Len(todo') PROVE todo'[k] = bound[k]
    <3>1. k \in 1..Len(todo) - 1 /\ k \in 1..Len(todo)
      BY <2>1
    <3> QED
      BY <2>1, <2>4, <3>1
  <2> QED
    BY <2>3, <2>4, <2>5, <2>6, <2>7 DEF OrderInv
<1>6. ASSUME NEW a \in Attempts, CancelNext(a) PROVE OrderInv'
  BY <1>6 DEF OrderInv, CancelNext, listVars
<1>7. ASSUME CancelsDone \/ CloseEnd PROVE OrderInv'
  BY <1>7 DEF OrderInv, CancelsDone, CloseEnd, listVars, attemptVars
<1>8. ASSUME UNCHANGED vars PROVE OrderInv'
  BY <1>8 DEF OrderInv, vars
<1> QED
  BY <1>1, <1>2, <1>3, <1>4, <1>5, <1>6, <1>7, <1>8 DEF Next, Close

\* The inductive invariant holds in every reachable state.
THEOREM InvariantHolds == Spec => []IndInv
<1>1. IndInv /\ [Next]_vars => IndInv'
  BY TypeStep, ListStep, AttemptStep, OrderStep DEF IndInv
<1> QED
  BY <1>1, InitInv, PTL DEF Spec

\* Every variable keeps its type, and a list taken by Close stays nil.
THEOREM TypeCorrect == Spec => []TypeOK
<1>1. IndInv => TypeOK
  BY DEF IndInv
<1> QED
  BY <1>1, InvariantHolds, PTL

\* When Close has returned, every attempt in progress has been cancelled.
THEOREM AttemptsEnd == Spec => []CloseEndsAttempts
<1>1. IndInv => CloseEndsAttempts
  BY DEF IndInv, ListInv, AttemptInv, CloseEndsAttempts
<1> QED
  BY <1>1, InvariantHolds, PTL

\* The closers run once each and in reverse order, and none is left out.
THEOREM ReverseOrder == Spec => []ClosersRunInReverse
<1>1. ASSUME IndInv PROVE ClosersRunInReverse
  <2>1. ran \in Seq(Closers) /\ bound \in Seq(Closers) /\ todo \in Seq(Closers)
    BY <1>1 DEF IndInv, TypeOK, Closers
  <2>2. Len(ran) <= Len(bound)
    BY <1>1, <2>1 DEF IndInv, OrderInv
  <2>3. \A k \in 1..Len(ran) : ran[k] = Reverse(bound)[k]
    BY <1>1, <2>1, <2>2 DEF IndInv, OrderInv, Reverse
  <2>4. IsPrefix(ran, Reverse(bound))
    <3>1. /\ Len(ran) \in Nat /\ Len(bound) \in Nat
          /\ \A k \in 1..Len(bound) : bound[k] \in Closers
          /\ \A k \in 1..Len(ran) : ran[k] \in Closers
      BY <2>1, LenProperties, ElementOfSeq
    <3>2. \A k \in 1..Len(bound) : bound[(Len(bound) - k) + 1] \in Closers
      BY <3>1
    <3>3. Reverse(bound) \in Seq(Closers) /\ Len(Reverse(bound)) = Len(bound)
      BY <3>1, <3>2 DEF Reverse
    <3>4. \A k \in 1..Len(ran) : Reverse(bound)[k] \in Closers
      BY <2>3, <3>1
    <3>5. SubSeq(ran, 1, Len(ran)) = ran
      BY <2>1, SubSeqFull
    <3>6. SubSeq(Reverse(bound), 1, Len(ran)) = ran
      <4>1. /\ SubSeq(Reverse(bound), 1, Len(ran)) \in Seq(Closers)
            /\ Len(SubSeq(Reverse(bound), 1, Len(ran))) =
                  IF 1 <= Len(ran) THEN Len(ran) - 1 + 1 ELSE 0
            /\ \A k \in 1..Len(ran) - 1 + 1 :
                  SubSeq(Reverse(bound), 1, Len(ran))[k] = Reverse(bound)[1 + k - 1]
        BY <3>1, <3>4, SubSeqProperties
      <4>2. Len(SubSeq(Reverse(bound), 1, Len(ran))) = Len(ran)
        BY <3>1, <4>1
      <4>3. ASSUME NEW k \in 1..Len(ran)
            PROVE  SubSeq(Reverse(bound), 1, Len(ran))[k] = ran[k]
        <5>1. k \in 1..Len(ran) - 1 + 1 /\ 1 + k - 1 = k
          BY <3>1
        <5> QED
          BY <2>3, <4>1, <5>1
      <4> QED
        BY <2>1, <4>1, <4>2, <4>3, SeqEqual
    <3> QED
      BY <2>2, <3>3, <3>5, <3>6 DEF IsPrefix
  <2>5. closing = "done" => Len(ran) = Len(bound)
    BY <1>1, <2>1 DEF IndInv, OrderInv
  <2> QED
    BY <2>4, <2>5 DEF ClosersRunInReverse
<1> QED
  BY <1>1, InvariantHolds, PTL

\* All of the selection's safety at once.
THEOREM SelectionCorrect == Spec => []SelectionInv
<1>1. TypeOK /\ CloseEndsAttempts /\ ClosersRunInReverse => SelectionInv
  BY DEF SelectionInv
<1> QED
  BY <1>1, TypeCorrect, AttemptsEnd, ReverseOrder, PTL
=============================================================================
