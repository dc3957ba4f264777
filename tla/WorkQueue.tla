------------------------------ MODULE WorkQueue ------------------------------
(***************************************************************************)
(* What a queue and its workers promise together: an item is ready, set    *)
(* aside, assigned to one worker, or finished for good.  Only the worker   *)
(* it is assigned to settles it, and it is finished only after some worker *)
(* has worked on it.  A worker may lose what it was assigned at any time   *)
(* and work on what it has in hand all the same, but all it can do with    *)
(* such an item is to put it down: nothing is lost, and work may be done   *)
(* twice.                                                                  *)
(***************************************************************************)
CONSTANTS
  Items, Workers,
  Ready, Aside, Finished   \* the places of an item no worker has

VARIABLES
  place,  \* where each item is: Ready, Aside, Finished or with a worker
  hand,   \* the items each worker has in hand
  worked  \* items somebody has worked on

queueVars == <<place, hand, worked>>

Init ==
  /\ place = [i \in Items |-> Ready]
  /\ hand = [w \in Workers |-> {}]
  /\ worked = {}

Assign(w, i) ==
  /\ place[i] = Ready
  /\ place' = [place EXCEPT ![i] = w]
  /\ UNCHANGED <<hand, worked>>

PickUp(w, i) ==
  /\ place[i] = w /\ i \notin hand[w]
  /\ hand' = [hand EXCEPT ![w] = @ \cup {i}]
  /\ UNCHANGED <<place, worked>>

WorkOn(w) ==
  /\ worked' = worked \cup hand[w]
  /\ UNCHANGED <<place, hand>>

(* The workers in W lose what they are assigned.                           *)
TakenBack(p, W) == [i \in Items |-> IF p[i] \in W THEN Ready ELSE p[i]]

TakeBack ==
  /\ \E W \in SUBSET Workers : place' = TakenBack(place, W)
  /\ UNCHANGED <<hand, worked>>

(* A worker may settle an item without having picked it up, and may leave  *)
(* with the last one it settles.                                           *)
Settle(w, i) ==
  /\ place[i] = w
  /\ hand' = [hand EXCEPT ![w] = @ \ {i}]
  /\ \E to \in {Ready, Aside, Finished}, W \in SUBSET {w} :
       /\ to = Finished => i \in worked
       /\ place' = TakenBack([place EXCEPT ![i] = to], W)
  /\ UNCHANGED worked

PutDown(w, i) ==
  /\ i \in hand[w] /\ place[i] # w
  /\ hand' = [hand EXCEPT ![w] = @ \ {i}]
  /\ UNCHANGED <<place, worked>>

Return(i) ==
  /\ place[i] = Aside
  /\ place' = [place EXCEPT ![i] = Ready]
  /\ UNCHANGED <<hand, worked>>

Next ==
  \/ TakeBack
  \/ \E i \in Items : Return(i)
  \/ \E w \in Workers : WorkOn(w)
  \/ \E w \in Workers, i \in Items :
       Assign(w, i) \/ PickUp(w, i) \/ Settle(w, i) \/ PutDown(w, i)

Spec == Init /\ [][Next]_queueVars
=============================================================================
