--------------------------- MODULE ReleaseChannel ---------------------------
(***************************************************************************)
(* What a release sink promises the registry, whatever it does to keep the *)
(* promise: cumulative sequences are marked in any order, Home's record of *)
(* a group only grows and only to a marked sequence, and a ticket is       *)
(* completed only once Home's record covers it.  ReleaseFlusher implements *)
(* this specification; HomeLifetime is built on it.                        *)
(***************************************************************************)
EXTENDS Integers

CONSTANTS
    Groups,     \* release groups
    MaxSeq      \* bound: largest cumulative sequence of a group

VARIABLES
    marked,     \* every (group, sequence) a ticket was handed out for
    recorded,   \* Home's cumulative record of each group
    done        \* the completed tickets

channelVars == <<marked, recorded, done>>

Init ==
    /\ marked = {}
    /\ recorded = [g \in Groups |-> 0]
    /\ done = {}

Covered(t) == t[2] <= recorded[t[1]]

\* A ticket for a sequence Home has already covered may be born completed.
Mark(g, n) ==
    /\ marked' = marked \cup {<<g, n>>}
    /\ done' \in {done, IF Covered(<<g, n>>) THEN done \cup {<<g, n>>} ELSE done}
    /\ UNCHANGED recorded

Record(g, n) ==
    /\ <<g, n>> \in marked
    /\ n > recorded[g]
    /\ recorded' = [recorded EXCEPT ![g] = n]
    /\ UNCHANGED <<marked, done>>

\* One acknowledgement completes every ticket it covers.
Complete(ts) ==
    /\ \A t \in ts : Covered(t)
    /\ done' = done \cup ts
    /\ UNCHANGED <<marked, recorded>>

Next ==
    \/ \E g \in Groups, n \in 1..MaxSeq : Mark(g, n) \/ Record(g, n)
    \/ \E ts \in SUBSET marked : Complete(ts)

Spec == Init /\ [][Next]_channelVars
=============================================================================
