------------------------------ MODULE AtomicTx ------------------------------
(***************************************************************************)
(* What WithTransaction promises its callers.  What a call does to the     *)
(* database is decided once, as a whole.  It is committed only after fn    *)
(* has returned nil and before the call returns, and the call returns nil  *)
(* exactly when it is; a call that has returned an error is aborted, then  *)
(* or later, unless the answer of the database was lost.                   *)
(***************************************************************************)
CONSTANT Calls

VARIABLES
  verdict,  \* what fn returned: none yet, nil, failed
  outcome,  \* what became of its work: undecided, committed, aborted
  answer,   \* what the call returned: none yet, nil, failed
  lost      \* calls that do not know their outcome

txVars == <<verdict, outcome, answer, lost>>

Init ==
  /\ verdict = [c \in Calls |-> "none"]
  /\ outcome = [c \in Calls |-> "undecided"]
  /\ answer = [c \in Calls |-> "none"]
  /\ lost = {}

FnReturns(c) ==
  /\ verdict[c] = "none" /\ answer[c] = "none"
  /\ \E v \in {"nil", "failed"} : verdict' = [verdict EXCEPT ![c] = v]
  /\ UNCHANGED <<outcome, answer, lost>>

(* By the database, at any time.                                           *)
Abort(c) ==
  /\ outcome[c] = "undecided"
  /\ outcome' = [outcome EXCEPT ![c] = "aborted"]
  /\ UNCHANGED <<verdict, answer, lost>>

Commit(c) ==
  /\ verdict[c] = "nil" /\ outcome[c] = "undecided" /\ answer[c] = "none"
  /\ outcome' = [outcome EXCEPT ![c] = "committed"]
  /\ answer' = [answer EXCEPT ![c] = "nil"]
  /\ UNCHANGED <<verdict, lost>>

GiveUp(c) ==
  /\ outcome[c] # "committed" /\ answer[c] = "none"
  /\ \E o \in {outcome[c], "aborted"} : outcome' = [outcome EXCEPT ![c] = o]
  /\ answer' = [answer EXCEPT ![c] = "failed"]
  /\ UNCHANGED <<verdict, lost>>

LoseAnswer(c) ==
  /\ verdict[c] = "nil" /\ outcome[c] = "undecided" /\ answer[c] = "none"
  /\ \E o \in {"committed", "aborted"} : outcome' = [outcome EXCEPT ![c] = o]
  /\ answer' = [answer EXCEPT ![c] = "failed"]
  /\ lost' = lost \cup {c}
  /\ UNCHANGED verdict

Next ==
  \E c \in Calls : FnReturns(c) \/ Abort(c) \/ Commit(c) \/ GiveUp(c) \/ LoseAnswer(c)

Spec == Init /\ [][Next]_txVars
=============================================================================
