------------------------------ MODULE GroupLog ------------------------------
(***************************************************************************)
(* What the consumers of a group promise together, whichever of them does  *)
(* it: the records of a partition are settled from the front, without a    *)
(* gap, and the offset the group would resume from never lies behind a     *)
(* record that is not settled.  It may fall back: settled records can be   *)
(* delivered again.                                                        *)
(***************************************************************************)
EXTENDS Integers

CONSTANTS Partitions, MaxRecords

VARIABLES
  length,   \* number of records of each partition
  settled,  \* records the group is done with
  resume    \* offset of each partition the group would resume from

logVars == <<length, settled, resume>>

Ends == [Partitions -> 0..MaxRecords]

(* The records in front of e.                                              *)
Front(e) == {r \in Partitions \X (0..MaxRecords) : r[2] < e[r[1]]}

Init ==
  /\ length = [p \in Partitions |-> 0]
  /\ settled = {}
  /\ resume = [p \in Partitions |-> 0]

Append(p) ==
  /\ length[p] < MaxRecords
  /\ length' = [length EXCEPT ![p] = @ + 1]
  /\ UNCHANGED <<settled, resume>>

(* With a record all that are in front of it are settled.                  *)
Settle ==
  /\ \E e \in Ends :
       /\ \A p \in Partitions : e[p] <= length[p]
       /\ settled' = settled \cup Front(e)
  /\ UNCHANGED <<length, resume>>

Resume(p) ==
  /\ \E o \in 0..MaxRecords :
       /\ \A i \in 0..(o - 1) : <<p, i>> \in settled
       /\ resume' = [resume EXCEPT ![p] = o]
  /\ UNCHANGED <<length, settled>>

Next == Settle \/ \E p \in Partitions : Append(p) \/ Resume(p)

Spec == Init /\ [][Next]_logVars
=============================================================================
