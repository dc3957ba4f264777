--------------------------- MODULE PostgresProofs ---------------------------
(***************************************************************************)
(* What WithTransaction reports and leaves behind, for any number of calls *)
(* and connections.                                                        *)
(***************************************************************************)
EXTENDS Postgres, FiniteSetTheorems, TLAPS

FnResults == {Nil, Panic} \cup {Err(k) : k \in FnErrors}

(* What WithTransaction makes of fn's error e is r, and r keeps its kind.  *)
Keeps(e, r) ==
  /\ e.is = "duplicate" => IsDuplicateKeyError(r)
  /\ e.is = "deadline" => IsTimeoutError(r)
  /\ e.is = "canceling" => IsTimeoutError(r) \/ \E k \in LosesTimeout : r = Both(e, Err(k))

(* What is true of one call.  A transaction at the server is open only as  *)
(* long as the *sql.Tx has its connection, and only WithTransaction's      *)
(* commit of what fn returned nil for ends it as committed; until the call *)
(* returns it has no result.                                               *)
CallInv(c) ==
  /\ tx[c] \in {"none", "active", "claimed", "ended"}
  /\ tx[c] = "none" => server[c] = "none" /\ (c \in inTx => pc[c] = "sent")
  /\ tx[c] \in {"active", "claimed"} =>
       server[c] \in {"open", "failed", "aborted"} /\ c \in inTx
  /\ tx[c] = "ended" => server[c] \in {"committed", "aborted"} /\ c \notin inTx
  /\ tx[c] = "claimed" => CtxDone(c)
  /\ c \in inQuery => pc[c] \in {"run", "rows"}
  /\ pc[c] = "txrun" => tx[c] \in {"active", "claimed"} /\ server[c] \in {"open", "failed"}
  /\ pc[c] \in {"idle", "begin", "sent"} => tx[c] = "none"
  /\ pc[c] = "sent" => c \in inTx
  /\ c \in Statements =>
       tx[c] = "none" /\ pc[c] \in {"idle", "conn", "run", "rows", "done"}
  /\ c \in Transactions /\ pc[c] \notin {"idle", "begin", "sent", "done"} => tx[c] # "none"
  /\ pc[c] # "done" => result[c] = NoResult /\ server[c] # "committed"
  /\ pc[c] \notin {"finish", "done"} => fnResult[c] = NoResult
  /\ pc[c] = "finish" => fnResult[c] \in FnResults
  /\ pc[c] = "done" => (tx[c] = "active" => CtxDone(c))
  /\ pc[c] = "done" => Keeps(fnResult[c], result[c])
  /\ result[c] = Nil => server[c] = "committed"
  /\ server[c] = "committed" => fnResult[c] = Nil
  /\ server[c] = "committed" /\ pc[c] = "done" => result[c] = Nil \/ c \in unsure

Shape ==
  /\ pc \in [Calls -> Places]
  /\ ctx \in [Calls -> CtxErrors \cup {"live"}]
  /\ tx \in [Calls -> {"none", "active", "claimed", "ended"}]
  /\ server \in [Calls -> {"none", "open", "failed", "committed", "aborted"}]
  /\ fnResult \in [Calls -> Results] /\ result \in [Calls -> Results]
  /\ inTx \subseteq Calls /\ inQuery \subseteq Calls

IInv == Shape /\ \A c \in Calls : CallInv(c)

(* A step of call c leaves the other calls alone.                          *)
Only(c) ==
  \A d \in Calls \ {c} :
    /\ pc'[d] = pc[d] /\ ctx'[d] = ctx[d] /\ tx'[d] = tx[d] /\ server'[d] = server[d]
    /\ fnResult'[d] = fnResult[d] /\ result'[d] = result[d]
    /\ d \in inTx' <=> d \in inTx
    /\ d \in inQuery' <=> d \in inQuery
    /\ d \in unsure' <=> d \in unsure

-----------------------------------------------------------------------------
(* The results are distinct, and an error is neither nil nor no result.    *)
LEMMA ResultFacts ==
  /\ Nil \in Results /\ Panic \in Results /\ NoResult \in Results
  /\ Nil # Panic /\ Nil # NoResult /\ Panic # NoResult
  /\ \A k \in Kinds : Err(k) \in Results /\ Err(k) # Nil /\ Err(k) # NoResult
  /\ \A k \in Kinds : /\ CommitFailed(Err(k)) \in Results /\ CommitFailed(Err(k)) # Nil
                         /\ CommitFailed(Err(k)) # NoResult
  /\ \A r : Keeps(Nil, r) /\ Keeps(NoResult, r)
BY Zenon DEF Nil, Panic, NoResult, Results, Err, Kinds, CtxErrors, CommitFailed, Keeps

(* What fn returns is a result, and no other than its kind is found in it. *)
LEMMA FnResultsFacts == FnResults \subseteq Results /\ NoResult \notin FnResults
BY DEF FnResults, FnErrors, Nil, NoResult, Panic, Results, Err, Kinds, CtxErrors

(* The errors tx.Rollback returns.                                         *)
RollbackErrors == CtxErrors \cup {"badConn", "txDone"}

(* Two errors in one: fn's kind is kept, or lost as KindSurvives says.     *)
LEMMA BothFacts ==
  ASSUME NEW k \in FnErrors, NEW j \in RollbackErrors
  PROVE  /\ Both(Err(k), Err(j)) \in Results \ {Nil, NoResult}
         /\ Keeps(Err(k), Both(Err(k), Err(j)))
<1> USE DEF Both, Err, FnErrors, RollbackErrors, CtxErrors
<1>1. Both(Err(k), Err(j)) \in Results \ {Nil, NoResult}
  BY DEF Results, Kinds, Nil, NoResult
<1>2. k = "duplicate" => IsDuplicateKeyError(Both(Err(k), Err(j)))
  BY DEF IsDuplicateKeyError, PqErrors
<1>3. k = "deadline" => IsTimeoutError(Both(Err(k), Err(j)))
  BY DEF IsTimeoutError
<1>4. j = "deadline" => IsTimeoutError(Both(Err(k), Err(j)))
  BY DEF IsTimeoutError
<1>5. j # "deadline" => j \in LosesTimeout
  BY DEF LosesTimeout
<1>6. Err(k).is = k
  OBVIOUS
<1> HIDE DEF Both, Err, FnErrors, RollbackErrors, CtxErrors
<1>7. QED BY <1>1, <1>2, <1>3, <1>4, <1>5, <1>6, Zenon DEF Keeps

(* An error by itself keeps its kind.                                      *)
LEMMA AloneFacts ==
  ASSUME NEW k \in FnErrors
  PROVE  Err(k) \in Results \ {Nil, NoResult} /\ Keeps(Err(k), Err(k))
BY DEF Keeps, Results, Err, Nil, NoResult, FnErrors, Kinds, CtxErrors, IsDuplicateKeyError,
   PqErrors, IsTimeoutError

(* Whatever tx.Rollback returned, WithTransaction does not return nil for  *)
(* an fn that failed, and keeps the kind of its error.                     *)
LEMMA AfterRollbackFacts ==
  ASSUME NEW c \in Calls, fnResult[c] \in FnResults, fnResult[c] # Nil,
         NEW rb \in {Nil} \cup {Err(j) : j \in RollbackErrors}
  PROVE  /\ AfterRollback(c, rb) \in Results \ {Nil, NoResult}
         /\ Keeps(fnResult[c], AfterRollback(c, rb))
<1>1. CASE fnResult[c] = Panic
  BY <1>1 DEF AfterRollback, Panic, Nil, NoResult, Results, Keeps
<1>2. CASE fnResult[c] # Panic
  <2>1. PICK k \in FnErrors : fnResult[c] = Err(k)
    BY <1>2, Zenon DEF FnResults
  <2>2. CASE rb = Nil
    BY <1>2, <2>1, <2>2, AloneFacts, Zenon DEF AfterRollback
  <2>3. CASE rb # Nil
    <3>1. PICK j \in RollbackErrors : rb = Err(j) BY <2>3, Zenon
    <3>2. AfterRollback(c, rb) = Both(Err(k), Err(j))
      BY <1>2, <2>1, <2>3, <3>1, Zenon DEF AfterRollback
    <3>3. QED BY <2>1, <3>2, BothFacts, Zenon
  <2>4. QED BY <2>2, <2>3, Zenon
<1>3. QED BY <1>1, <1>2, Zenon

(* What is true of a call stays true when another one steps.               *)
LEMMA OthersAlone ==
  ASSUME NEW c \in Calls, NEW d \in Calls, d # c, Only(c), CallInv(d)
  PROVE  CallInv(d)'
BY DEF Only, CallInv, CtxDone

-----------------------------------------------------------------------------
(* Each step of a call keeps what is true of it and touches no other.      *)
Step(c) == Shape' /\ Only(c) /\ CallInv(c)'

(* A context that ends.                                                    *)
LEMMA ContextStep ==
  ASSUME IInv, NEW c \in Calls,
         \/ CallerCancels(c) \/ DeadlinePasses(c)
  PROVE  Step(c)
<1> USE ResultFacts, PostgresAssumption DEF IInv, Shape, Places, Calls, CtxDone, ctxVars, txVars
<1>1. CASE CallerCancels(c)
  <2> USE <1>1 DEF CallerCancels
  <2>1. Shape' BY Zenon DEF CallInv, CtxErrors, Kinds
  <2>2. Only(c) BY Zenon DEF Only
  <2>3. CallInv(c)' BY Zenon DEF CallInv, CtxErrors, Kinds
  <2>4. QED BY <2>1, <2>2, <2>3, Zenon DEF Step
<1>2. CASE DeadlinePasses(c)
  <2> USE <1>2 DEF DeadlinePasses
  <2>1. Shape' BY Zenon DEF CallInv, CtxErrors, Kinds
  <2>2. Only(c) BY Zenon DEF Only
  <2>3. CallInv(c)' BY Zenon DEF CallInv, CtxErrors, Kinds
  <2>4. QED BY <2>1, <2>2, <2>3, Zenon DEF Step
<1>3. QED BY <1>1, <1>2, Zenon

(* A statement on the client, and the rows of a query.                     *)
LEMMA StatementStep ==
  ASSUME IInv, NEW c \in Calls,
         \/ StartStatement(c) \/ FnUsesClient(c) \/ GetConn(c) \/ GetConnFails(c)
         \/ Answer(c) \/ Interrupt(c) \/ Break(c) \/ CutRows(c)
         \/ ReadRows(c)
  PROVE  Step(c)
<1> USE ResultFacts, PostgresAssumption DEF IInv, Shape, Places, Calls, CtxDone, ctxVars, txVars
<1>1. CASE StartStatement(c)
  <2> USE <1>1 DEF StartStatement, BeginStatement, Move
  <2>1. Shape' BY Zenon DEF CallInv, CtxErrors, Kinds
  <2>2. Only(c) BY Zenon DEF Only
  <2>3. CallInv(c)' BY Zenon DEF CallInv, CtxErrors, Kinds
  <2>4. QED BY <2>1, <2>2, <2>3, Zenon DEF Step
<1>2. CASE FnUsesClient(c)
  <2> USE <1>2 DEF FnUsesClient, BeginStatement, Move
  <2>1. Shape' BY Zenon DEF CallInv, CtxErrors, Kinds
  <2>2. Only(c) BY Zenon DEF Only
  <2>3. CallInv(c)' BY Zenon DEF CallInv, CtxErrors, Kinds
  <2>4. QED BY <2>1, <2>2, <2>3, Zenon DEF Step
<1>3. CASE GetConn(c)
  <2> USE <1>3 DEF GetConn, Move
  <2>1. Shape' BY Zenon DEF CallInv, CtxErrors, Kinds
  <2>2. Only(c) BY Zenon DEF Only
  <2>3. CallInv(c)' BY Zenon DEF CallInv, CtxErrors, Kinds
  <2>4. QED BY <2>1, <2>2, <2>3, Zenon DEF Step
<1>4. CASE pc[c] \in {"conn", "run", "rows"} /\ EndStatement(c)
  <2> USE <1>4 DEF EndStatement
  <2>1. Shape' BY Zenon DEF CallInv, CtxErrors, Kinds
  <2>2. Only(c) BY Zenon DEF Only
  <2>3. CallInv(c)'
    <3>1. /\ c \notin inQuery' /\ UNCHANGED <<ctx, inTx, tx, server, fnResult, result, unsure>>
          /\ c \in Transactions => pc'[c] = "fn"
          /\ c \in Statements => pc'[c] = "done"
      BY Zenon
    <3>2. CASE c \in Transactions
      <4>1. pc'[c] = "fn" /\ c \notin Statements BY <3>1, <3>2, Zenon
      <4> HIDE DEF EndStatement
      <4>2. QED BY <3>1, <3>2, <4>1, Zenon DEF CallInv
    <3>3. CASE c \in Statements
      <4>1. pc'[c] = "done" /\ c \notin Transactions BY <3>1, <3>3, Zenon
      <4>2. /\ tx[c] = "none" /\ server[c] = "none" /\ c \notin inTx
            /\ fnResult[c] = NoResult /\ result[c] = NoResult
        BY <3>3, Zenon DEF CallInv
      <4> HIDE DEF EndStatement, IInv, Shape, Places
      <4>3. QED BY <3>1, <3>3, <4>1, <4>2, Zenon DEF CallInv
    <3>4. QED BY <3>2, <3>3, Zenon
  <2>4. QED BY <2>1, <2>2, <2>3, Zenon DEF Step
<1>5. CASE Answer(c) /\ ~EndStatement(c)
  <2> USE <1>5 DEF Answer, Move, Cancel
  <2>1. Shape' BY DEF CallInv, CtxErrors, Kinds
  <2>2. Only(c) BY Zenon DEF Only
  <2>3. CallInv(c)' BY DEF CallInv, CtxErrors, Kinds
  <2>4. QED BY <2>1, <2>2, <2>3, Zenon DEF Step
<1>6. CASE CutRows(c)
  <2> USE <1>6 DEF CutRows
  <2>1. Shape' BY Zenon DEF CallInv, CtxErrors, Kinds
  <2>2. Only(c) BY Zenon DEF Only
  <2>3. CallInv(c)' BY Zenon DEF CallInv, CtxErrors, Kinds
  <2>4. QED BY <2>1, <2>2, <2>3, Zenon DEF Step
<1>7. QED
  BY <1>1, <1>2, <1>3, <1>4, <1>5, <1>6, Zenon
     DEF GetConnFails, Answer, Interrupt, Break, ReadRows

(* A transaction up to the end of fn, and awaitDone.                       *)
LEMMA TxStep ==
  ASSUME IInv, NEW c \in Calls,
         \/ StartTransaction(c) \/ BeginGetConn(c) \/ BeginTx(c) \/ BeginFails(c)
         \/ BeginBreaks(c) \/ TxStatement(c)
         \/ TxAnswer(c) \/ TxInterrupt(c) \/ TxBreak(c) \/ Claim(c)
         \/ RollbackClaimed(c) \/ FnReturns(c)
  PROVE  Step(c)
<1> USE ResultFacts, PostgresAssumption DEF IInv, Shape, Places, Calls, CtxDone, ctxVars, txVars
<1>1. CASE StartTransaction(c)
  <2> USE <1>1 DEF StartTransaction, Move
  <2>1. Shape' BY Zenon DEF CallInv, CtxErrors, Kinds
  <2>2. Only(c) BY Zenon DEF Only
  <2>3. CallInv(c)' BY Zenon DEF CallInv, CtxErrors, Kinds
  <2>4. QED BY <2>1, <2>2, <2>3, Zenon DEF Step
<1>2. CASE BeginTx(c)
  <2> USE <1>2 DEF BeginTx, Move
  <2>1. Shape' BY Zenon DEF CallInv, CtxErrors, Kinds
  <2>2. Only(c) BY Zenon DEF Only
  <2>3. CallInv(c)' BY Zenon DEF CallInv, CtxErrors, Kinds
  <2>4. QED BY <2>1, <2>2, <2>3, Zenon DEF Step
<1>3. CASE BeginFails(c) \/ BeginBreaks(c)
  <2>1. /\ pc[c] \in {"begin", "sent"} /\ inTx' = inTx \ {c} /\ UNCHANGED <<tx, server, unsure>>
        /\ \E k \in Kinds : Return(c, Err(k))
    BY <1>3, Zenon DEF BeginFails, BeginBreaks, Kinds, CallInv
  <2>2. PICK k \in Kinds : Return(c, Err(k)) BY <2>1, Zenon
  <2>3. result' = [result EXCEPT ![c] = Err(k)] /\ pc' = [pc EXCEPT ![c] = "done"]
        /\ UNCHANGED <<ctx, inQuery, fnResult>>
    BY <2>2, Zenon DEF Return
  <2>4. Shape' BY <2>1, <2>3, Zenon DEF Places
  <2>5. Only(c) BY <2>1, <2>3, Zenon DEF Only
  <2>6. CallInv(c)'
    <3>1. /\ tx[c] = "none" /\ server[c] = "none" /\ fnResult[c] = NoResult
          /\ c \notin inQuery /\ c \notin Statements
      BY <2>1, Zenon DEF CallInv
    <3>2. /\ pc'[c] = "done" /\ result'[c] = Err(k) /\ c \notin inTx'
          /\ UNCHANGED <<tx, server, unsure, ctx, inQuery, fnResult>>
      BY <2>1, <2>3, Zenon
    <3> HIDE DEF IInv, Shape, Places
    <3>3. QED BY <3>1, <3>2, Zenon DEF CallInv
  <2>7. QED BY <2>4, <2>5, <2>6, Zenon DEF Step
<1>4. CASE TxStatement(c)
  <2> USE <1>4 DEF TxStatement, Move
  <2>1. Shape' BY Zenon DEF CallInv, CtxErrors, Kinds
  <2>2. Only(c) BY Zenon DEF Only
  <2>3. CallInv(c)' BY Zenon DEF CallInv, CtxErrors, Kinds
  <2>4. QED BY <2>1, <2>2, <2>3, Zenon DEF Step
<1>5. CASE TxAnswer(c) \/ TxInterrupt(c) \/ TxBreak(c)
  <2>1. PICK s \in {"open", "failed", "aborted"} : Back(c, s)
    BY <1>5, Zenon DEF TxAnswer, TxInterrupt, TxBreak, Back, Move, CallInv
  <2> USE <2>1 DEF Back, Move
  <2>2. Shape' OBVIOUS
  <2>3. Only(c) BY Zenon DEF Only
  <2>4. CallInv(c)' BY Zenon DEF CallInv
  <2>5. QED BY <2>2, <2>3, <2>4, Zenon DEF Step
<1>6. CASE Claim(c)
  <2> USE <1>6 DEF Claim
  <2>1. Shape' BY Zenon DEF CallInv, CtxErrors, Kinds
  <2>2. Only(c) BY Zenon DEF Only
  <2>3. CallInv(c)' BY Zenon DEF CallInv, CtxErrors, Kinds
  <2>4. QED BY <2>1, <2>2, <2>3, Zenon DEF Step
<1>7. CASE RollbackClaimed(c)
  <2> USE <1>7 DEF RollbackClaimed
  <2>1. Shape' BY Zenon DEF CallInv, CtxErrors, Kinds
  <2>2. Only(c) BY Zenon DEF Only
  <2>3. CallInv(c)' BY Zenon DEF CallInv, CtxErrors, Kinds
  <2>4. QED BY <2>1, <2>2, <2>3, Zenon DEF Step
<1>8. CASE FnReturns(c)
  <2> USE <1>8 DEF FnReturns, Move
  <2>1. PICK r \in FnResults : fnResult' = [fnResult EXCEPT ![c] = r]
    BY Zenon DEF FnResults
  <2>2. r \in Results BY FnResultsFacts, Zenon
  <2>3. Shape' BY <2>1, <2>2, Zenon
  <2>4. Only(c) BY Zenon DEF Only
  <2>5. CallInv(c)' BY <2>1, Zenon DEF CallInv
  <2>6. QED BY <2>3, <2>4, <2>5, Zenon DEF Step
<1>9. CASE BeginGetConn(c)
  <2> USE <1>9 DEF BeginGetConn, Move
  <2>1. Shape' BY Zenon DEF CallInv, CtxErrors, Kinds
  <2>2. Only(c) BY Zenon DEF Only
  <2>3. CallInv(c)' BY Zenon DEF CallInv, CtxErrors, Kinds
  <2>4. QED BY <2>1, <2>2, <2>3, Zenon DEF Step
<1>10. QED BY <1>1, <1>2, <1>3, <1>4, <1>5, <1>6, <1>7, <1>8, <1>9, Zenon

(* WithTransaction returns r after it has ended the transaction as s.      *)
LEMMA ReturnsAfterEnd ==
  ASSUME IInv, NEW c \in Calls, NEW r \in Results, NEW s \in {"committed", "aborted"},
         pc[c] = "finish", tx[c] = "active", Return(c, r), EndTx(c, s),
         unsure' \in {unsure, unsure \cup {c}},
         Keeps(fnResult[c], r), r = Nil => s = "committed",
         s = "committed" => fnResult[c] = Nil /\ (r = Nil \/ c \in unsure')
  PROVE  Step(c)
<1> USE DEF IInv, Shape, Places, ctxVars
<1>1. Shape' BY Zenon DEF Return, EndTx
<1>2. Only(c) BY Zenon DEF Return, EndTx, Only
<1>3. /\ pc'[c] = "done" /\ tx'[c] = "ended" /\ server'[c] = s /\ result'[c] = r
      /\ fnResult'[c] = fnResult[c] /\ c \notin inTx' /\ inQuery' = inQuery /\ ctx' = ctx
  BY Zenon DEF Return, EndTx
<1>4. c \notin inQuery /\ c \notin Statements BY Zenon DEF CallInv
<1>5. CallInv(c)' BY <1>3, <1>4, Zenon DEF CallInv
<1> HIDE DEF IInv, Shape, Places
<1>6. QED BY <1>1, <1>2, <1>5, Zenon DEF Step

(* WithTransaction returns an error and leaves the transaction to those    *)
(* who have ended it or are going to.                                      *)
LEMMA ReturnsWithoutEnd ==
  ASSUME IInv, NEW c \in Calls, NEW r \in Results,
         pc[c] = "finish", tx[c] = "active" => CtxDone(c), Return(c, r),
         UNCHANGED <<tx, server, inTx, unsure>>,
         Keeps(fnResult[c], r), r # Nil
  PROVE  Step(c)
<1> USE DEF IInv, Shape, Places, ctxVars
<1>1. Shape' BY Zenon DEF Return
<1>2. Only(c) BY Zenon DEF Return, Only
<1>3. /\ pc'[c] = "done" /\ result'[c] = r /\ fnResult'[c] = fnResult[c]
      /\ inQuery' = inQuery /\ ctx' = ctx
  BY Zenon DEF Return
<1>4. c \notin inQuery /\ c \notin Statements /\ server[c] # "committed" BY Zenon DEF CallInv
<1>5. CallInv(c)' BY <1>3, <1>4, Zenon DEF CallInv, CtxDone
<1> HIDE DEF IInv, Shape, Places
<1>6. QED BY <1>1, <1>2, <1>5, Zenon DEF Step

(* The end of WithTransaction.                                             *)
LEMMA FinishStep ==
  ASSUME IInv, NEW c \in Calls,
         \/ Rollback(c) \/ Commit(c)
  PROVE  Step(c)
<1>1. CASE Rollback(c)
  <2>1. pc[c] = "finish" /\ fnResult[c] # Nil /\ fnResult[c] \in FnResults
    BY <1>1, Zenon DEF Rollback, IInv, CallInv
  <2>2. ASSUME NEW rb \in {Nil} \cup {Err(j) : j \in RollbackErrors}
        PROVE  /\ AfterRollback(c, rb) \in Results \ {Nil, NoResult}
               /\ Keeps(fnResult[c], AfterRollback(c, rb))
    BY <2>1, AfterRollbackFacts, Zenon
  <2>3. CASE tx[c] = "active"
    <3>1. CtxDone(c) => ctx[c] \in RollbackErrors
      BY Zenon DEF IInv, Shape, CtxDone, RollbackErrors
    <3>2. PICK rb \in {Nil} \cup {Err(j) : j \in RollbackErrors} :
            EndTx(c, "aborted") /\ Return(c, AfterRollback(c, rb)) /\ unsure' = unsure
      BY <1>1, <2>3, <3>1, Zenon DEF Rollback, RollbackTx, RollbackErrors
    <3>3. QED BY <2>1, <2>2, <2>3, <3>2, ReturnsAfterEnd, Zenon
  <2>4. CASE tx[c] # "active"
    <3>1. /\ Return(c, AfterRollback(c, Err("txDone")))
          /\ UNCHANGED <<tx, server, inTx, unsure>>
      BY <1>1, <2>4, Zenon DEF Rollback
    <3>2. Err("txDone") \in {Err(j) : j \in RollbackErrors} BY Zenon DEF RollbackErrors
    <3>3. QED BY <2>1, <2>2, <2>4, <3>1, <3>2, ReturnsWithoutEnd, Zenon
  <2>5. QED BY <2>3, <2>4, Zenon
<1>2. CASE Commit(c)
  <2>1. pc[c] = "finish" /\ fnResult[c] = Nil BY <1>2, Zenon DEF Commit
  <2>2. \A r : Keeps(fnResult[c], r) BY <2>1, ResultFacts, Zenon
  <2>3. \A k \in Kinds : /\ CommitFailed(Err(k)) \in Results /\ CommitFailed(Err(k)) # Nil
                         /\ CommitFailed(Err(k)) # NoResult
    BY ResultFacts, Zenon
  <2>4. CASE CtxDone(c) \/ tx[c] # "active"
    <3>1. PICK k \in Kinds : Return(c, CommitFailed(Err(k)))
      <4>1. (IF tx[c] = "active" THEN ctx[c] ELSE "txDone") \in Kinds
        BY <2>4, Zenon DEF IInv, Shape, CtxDone, Kinds
      <4>2. QED BY <1>2, <2>4, <4>1, Zenon DEF Commit
    <3>2. UNCHANGED <<tx, server, inTx, unsure>> BY <1>2, <2>4, Zenon DEF Commit
    <3>3. QED BY <2>1, <2>2, <2>3, <2>4, <3>1, <3>2, ReturnsWithoutEnd, Zenon
  <2>5. CASE ~CtxDone(c) /\ tx[c] = "active"
    <3>1. CASE EndTx(c, "committed") /\ Return(c, Nil) /\ unsure' = unsure
      BY <2>1, <2>2, <2>5, <3>1, ResultFacts, ReturnsAfterEnd, Zenon
    <3>2. ASSUME NEW k \in Kinds, EndTx(c, "aborted"), Return(c, CommitFailed(Err(k))),
                 unsure' = unsure
          PROVE  Step(c)
      BY <2>1, <2>2, <2>3, <2>5, <3>2, ReturnsAfterEnd, Zenon
    <3>3. ASSUME NEW s \in {"committed", "aborted"}, EndTx(c, s),
                 Return(c, CommitFailed(Err("badConn"))), unsure' = unsure \cup {c}
          PROVE  Step(c)
      <4>1. "badConn" \in Kinds BY Zenon DEF Kinds
      <4>2. QED BY <2>1, <2>2, <2>3, <2>5, <3>3, <4>1, ReturnsAfterEnd, Zenon
    <3>4. "other" \in Kinds /\ "badConn" \in Kinds BY Zenon DEF Kinds
    <3>5. QED BY <1>2, <2>5, <3>1, <3>2, <3>3, <3>4, Zenon DEF Commit
  <2>6. QED BY <2>4, <2>5, Zenon
<1>3. QED BY <1>1, <1>2, Zenon

(* What a step of the client itself leaves alone.                          *)
LEMMA ClientStep ==
  ASSUME IInv, NewPostgresClient \/ Close \/ UNCHANGED vars
  PROVE  IInv'
<1>1. UNCHANGED <<pc, ctx, tx, server, fnResult, result, inTx, inQuery, unsure>>
  BY Zenon DEF NewPostgresClient, Close, vars, ctxVars, txVars
<1>2. Shape'
  BY <1>1, Zenon DEF IInv, Shape
<1>3. ASSUME NEW c \in Calls PROVE CallInv(c)'
  BY <1>1, Zenon DEF IInv, CallInv, CtxDone
<1>4. QED BY <1>2, <1>3, Zenon DEF IInv

(* A step of call c.                                                       *)
CallStep(c) ==
  \/ StartStatement(c) \/ StartTransaction(c) \/ CallerCancels(c) \/ DeadlinePasses(c)
  \/ FnUsesClient(c) \/ TxStatement(c) \/ FnReturns(c)
  \/ Proceed(c) \/ Served(c) \/ Claim(c)

(* It keeps what is true of c and touches no other call.                   *)
LEMMA EachStep ==
  ASSUME IInv, NEW c \in Calls, CallStep(c)
  PROVE  Step(c)
BY ContextStep, StatementStep, TxStep, FinishStep, Zenon DEF CallStep, Proceed, Served

(* Every step keeps the invariant.                                         *)
LEMMA NextStep ==
  ASSUME IInv, [Next]_vars
  PROVE  IInv'
<1>1. CASE NewPostgresClient \/ Close \/ UNCHANGED vars
  BY <1>1, ClientStep, Zenon
<1>2. ASSUME NEW c \in Calls, Step(c)
      PROVE  IInv'
  <2>1. ASSUME NEW d \in Calls PROVE CallInv(d)'
    BY <1>2, OthersAlone, Zenon DEF IInv, Step
  <2>2. QED BY <1>2, <2>1, Zenon DEF IInv, Step
<1>3. QED BY <1>1, <1>2, EachStep, Zenon DEF Next, CallStep

(* The invariant holds of every reachable state.                           *)
THEOREM Invariant == Spec => []IInv
<1>1. Init => IInv
  <2> SUFFICES ASSUME Init PROVE IInv
    OBVIOUS
  <2>1. Shape
    BY ResultFacts, Zenon DEF Init, Shape, Places, CtxErrors
  <2>2. ASSUME NEW c \in Calls PROVE CallInv(c)
    BY ResultFacts, Zenon DEF Init, CallInv, CtxDone
  <2>3. QED BY <2>1, <2>2, Zenon DEF IInv
<1>2. IInv /\ [Next]_vars => IInv'
  BY NextStep, Zenon
<1>3. QED BY <1>1, <1>2, PTL DEF Spec

(* Nil from WithTransaction means that the server committed, the server    *)
(* commits nothing fn failed for, and an error from a committed            *)
(* transaction means that the answer was lost.                             *)
THEOREM Truth == Spec => []OutcomeIsTrue
<1>1. IInv => OutcomeIsTrue
  BY Zenon DEF IInv, CallInv, OutcomeIsTrue
<1>2. QED BY <1>1, Invariant, PTL

(* Whatever fn did, a call that has returned holds no connection and no    *)
(* open transaction, but for one that awaitDone is about to roll back.     *)
THEOREM Released == Spec => []NothingLeftOpen
<1>1. IInv => NothingLeftOpen
  BY Zenon DEF IInv, Shape, CallInv, NothingLeftOpen
<1>2. QED BY <1>1, Invariant, PTL

(* A duplicate key or an exceeded deadline that fn returned is recognised  *)
(* in the error of WithTransaction, whatever became of the rollback.  The  *)
(* 57014 of an interrupted statement is, unless the rollback failed with   *)
(* one of the errors of LosesTimeout: those are all the cases.             *)
THEOREM Recognised == Spec => []KindSurvives
<1>1. IInv => KindSurvives
  BY Zenon DEF IInv, CallInv, Keeps, KindSurvives
<1>2. QED BY <1>1, Invariant, PTL

-----------------------------------------------------------------------------
(* The pool's limit, and the types.                                        *)

(* The connections lent, and their limit.                                  *)
Lent == Cardinality(inQuery) + Cardinality(inTx)
InLimit == Lent <= MaxOpenConns

RestOK ==
  /\ client \in {"none", "failed", "ready", "closed"}
  /\ stmt \in [Calls -> {"none", "exec", "query"}]
  /\ deadline \in [Calls -> {"none", "tight", "loose"}]
  /\ qctx \in [Calls -> CtxErrors \cup {"none", "live"}]
  /\ inTx \subseteq Transactions /\ unsure \subseteq Calls
  /\ faults \in 0..MaxFaults

(* A set of calls that gains a member, or loses one, counts one more or    *)
(* one less at most.                                                       *)
LEMMA CountCalls ==
  ASSUME NEW S, S \subseteq Calls
  PROVE  /\ IsFiniteSet(S) /\ Cardinality(S) \in Nat
         /\ \A T : T \subseteq S => Cardinality(T) \in Nat /\ Cardinality(T) <= Cardinality(S)
         /\ \A c : Cardinality(S \cup {c}) \in Nat
                  /\ Cardinality(S \cup {c}) <= Cardinality(S) + 1
<1>1. IsFiniteSet(S)
  BY FS_Subset, PostgresAssumption, Zenon
<1>2. Cardinality(S) \in Nat
  BY <1>1, FS_CardinalityType, Zenon
<1>3. ASSUME NEW T, T \subseteq S
      PROVE  Cardinality(T) \in Nat /\ Cardinality(T) <= Cardinality(S)
  BY <1>1, <1>3, FS_Subset, FS_CardinalityType, Zenon
<1>4. ASSUME NEW c
      PROVE  /\ Cardinality(S \cup {c}) \in Nat
             /\ Cardinality(S \cup {c}) <= Cardinality(S) + 1
  <2>1. CASE c \in S
    <3>1. S \cup {c} = S
      BY <2>1, Zenon
    <3>2. Cardinality(S \cup {c}) = Cardinality(S)
      BY <3>1, Zenon
    <3> QED
      BY <1>2, <3>2
  <2>2. CASE c \notin S
    BY <1>1, <1>2, <2>2, FS_AddElement
  <2> QED
    BY <2>1, <2>2, Zenon
<1> QED
  BY <1>1, <1>2, <1>3, <1>4, Zenon

(* A connection is lent only when one is free.                             *)
LEMMA LentStep ==
  ASSUME IInv, InLimit, [Next]_vars
  PROVE  InLimit'
<1>0. inQuery \subseteq Calls /\ inTx \subseteq Calls
  BY Zenon DEF IInv, Shape
<1>1. /\ Cardinality(inQuery) \in Nat /\ Cardinality(inTx) \in Nat
      /\ MaxOpenConns \in Nat
  BY <1>0, CountCalls, PostgresAssumption, Zenon
<1>2. CASE inQuery' \subseteq inQuery /\ inTx' \subseteq inTx
  <2>1. /\ Cardinality(inQuery') \in Nat /\ Cardinality(inQuery') <= Cardinality(inQuery)
        /\ Cardinality(inTx') \in Nat /\ Cardinality(inTx') <= Cardinality(inTx)
    BY <1>0, <1>2, CountCalls, Zenon
  <2> QED
    BY <1>1, <2>1 DEF InLimit, Lent
<1>3. ASSUME NEW c \in Calls, GetConn(c)
      PROVE  InLimit'
  <2>1. FreeConn /\ inQuery' = inQuery \cup {c} /\ inTx' = inTx
    BY <1>3, Zenon DEF GetConn, txVars
  <2>2. /\ Cardinality(inQuery') \in Nat
        /\ Cardinality(inQuery') <= Cardinality(inQuery) + 1
    BY <1>0, <2>1, CountCalls, Zenon
  <2> QED
    BY <1>1, <2>1, <2>2 DEF InLimit, Lent, FreeConn
<1>4. ASSUME NEW c \in Calls, BeginGetConn(c)
      PROVE  InLimit'
  <2>1. FreeConn /\ inTx' = inTx \cup {c} /\ inQuery' = inQuery
    BY <1>4, Zenon DEF BeginGetConn
  <2>2. /\ Cardinality(inTx') \in Nat
        /\ Cardinality(inTx') <= Cardinality(inTx) + 1
    BY <1>0, <2>1, CountCalls, Zenon
  <2> QED
    BY <1>1, <2>1, <2>2 DEF InLimit, Lent, FreeConn
<1>5. ASSUME NEW c \in Calls,
             \/ StartStatement(c) \/ StartTransaction(c) \/ CallerCancels(c)
             \/ DeadlinePasses(c) \/ FnUsesClient(c) \/ TxStatement(c) \/ FnReturns(c)
             \/ TxAnswer(c) \/ TxBreak(c) \/ TxInterrupt(c) \/ Claim(c)
             \/ BeginFails(c) \/ BeginTx(c)
      PROVE  UNCHANGED <<inQuery, inTx>>
  BY <1>5, Zenon DEF StartStatement, StartTransaction, CallerCancels, DeadlinePasses,
     FnUsesClient, BeginStatement, TxStatement, FnReturns, TxAnswer, TxBreak, TxInterrupt,
     Back, Claim, BeginFails, BeginTx, Return, txVars
<1>6. ASSUME NEW c \in Calls,
             \/ Answer(c) \/ Break(c) \/ GetConnFails(c) \/ Interrupt(c) \/ ReadRows(c)
             \/ CutRows(c) \/ RollbackClaimed(c) \/ BeginBreaks(c)
      PROVE  inQuery' \subseteq inQuery /\ inTx' \subseteq inTx
  BY <1>6, Zenon DEF Answer, Break, GetConnFails, Interrupt, ReadRows, EndStatement, CutRows,
     RollbackClaimed, BeginBreaks, Return, txVars
<1>7. ASSUME NEW c \in Calls, Rollback(c) \/ Commit(c)
      PROVE  inQuery' \subseteq inQuery /\ inTx' \subseteq inTx
  BY <1>7, Zenon DEF Rollback, RollbackTx, Commit, EndTx, Return
<1>8. NewPostgresClient \/ Close \/ UNCHANGED vars => UNCHANGED <<inQuery, inTx>>
  BY Zenon DEF NewPostgresClient, Close, vars, txVars
<1> QED
  BY <1>2, <1>3, <1>4, <1>5, <1>6, <1>7, <1>8, Zenon DEF Next, Proceed, Served

(* The client, the statement and the contexts of a call.                   *)
LEMMA ContextTypes ==
  ASSUME RestOK, Next
  PROVE  /\ client' \in {"none", "failed", "ready", "closed"}
         /\ stmt' \in [Calls -> {"none", "exec", "query"}]
         /\ deadline' \in [Calls -> {"none", "tight", "loose"}]
         /\ qctx' \in [Calls -> CtxErrors \cup {"none", "live"}]
<1> USE DEF RestOK, ctxVars
<1>1. CASE NewPostgresClient \/ Close
  BY <1>1, Zenon DEF NewPostgresClient, Close
<1>2. ASSUME NEW c \in Calls, StartStatement(c) \/ FnUsesClient(c)
      PROVE  /\ client' = client
             /\ stmt' \in [Calls -> {"none", "exec", "query"}]
             /\ deadline' \in [Calls -> {"none", "tight", "loose"}]
             /\ qctx' \in [Calls -> CtxErrors \cup {"none", "live"}]
  <2>1. client' = client /\ stmt' \in [Calls -> {"none", "exec", "query"}]
    BY <1>2, Zenon DEF StartStatement, FnUsesClient, BeginStatement
  <2>2. deadline' \in [Calls -> {"none", "tight", "loose"}]
    BY <1>2, Zenon DEF StartStatement, FnUsesClient
  <2>3. \A d : WithQueryTimeout(d) \in {"none", "live"}
    BY Zenon DEF WithQueryTimeout
  <2>4. qctx' \in [Calls -> CtxErrors \cup {"none", "live"}]
    BY <1>2, <2>3, Zenon DEF StartStatement, FnUsesClient
  <2> QED
    BY <2>1, <2>2, <2>4, Zenon
<1>3. ASSUME NEW c \in Calls, EndStatement(c)
      PROVE  /\ UNCHANGED <<client, deadline>>
             /\ stmt' \in [Calls -> {"none", "exec", "query"}]
             /\ qctx' \in [Calls -> CtxErrors \cup {"none", "live"}]
  BY <1>3, Zenon DEF EndStatement
<1>4. ASSUME NEW c \in Calls,
             Answer(c) \/ Break(c) \/ GetConnFails(c) \/ Interrupt(c) \/ ReadRows(c)
      PROVE  \/ EndStatement(c)
             \/ Cancel(c) /\ UNCHANGED <<client, stmt, deadline>>
  BY <1>4, Zenon DEF Answer, Break, GetConnFails, Interrupt, ReadRows
<1>5. ASSUME NEW c \in Calls, Cancel(c) \/ DeadlinePasses(c)
      PROVE  qctx' \in [Calls -> CtxErrors \cup {"none", "live"}]
  BY <1>5, Zenon DEF Cancel, DeadlinePasses, CtxErrors
<1>6. ASSUME NEW c \in Calls, StartTransaction(c)
      PROVE  /\ UNCHANGED <<client, stmt, qctx>>
             /\ deadline' \in [Calls -> {"none", "tight", "loose"}]
  BY <1>6, Zenon DEF StartTransaction
<1>7. ASSUME NEW c \in Calls, DeadlinePasses(c)
      PROVE  UNCHANGED <<client, stmt, deadline>>
  BY <1>7, Zenon DEF DeadlinePasses
<1>8. ASSUME NEW c \in Calls,
             \/ CallerCancels(c) \/ TxStatement(c) \/ FnReturns(c) \/ TxAnswer(c)
             \/ TxBreak(c) \/ TxInterrupt(c) \/ Claim(c) \/ BeginGetConn(c) \/ BeginTx(c)
             \/ BeginFails(c) \/ BeginBreaks(c) \/ GetConn(c) \/ CutRows(c) \/ RollbackClaimed(c)
      PROVE  UNCHANGED <<client, stmt, deadline, qctx>>
  BY <1>8, Zenon DEF CallerCancels, TxStatement, FnReturns, TxAnswer, TxBreak, TxInterrupt, Back,
     Claim, BeginGetConn, BeginTx, BeginFails, BeginBreaks, Return, GetConn, CutRows, RollbackClaimed
<1>9. ASSUME NEW c \in Calls, Rollback(c) \/ Commit(c)
      PROVE  UNCHANGED <<client, stmt, deadline, qctx>>
  BY <1>9, Zenon DEF Rollback, Commit, Return
<1>10. CASE UNCHANGED <<client, stmt, deadline, qctx>>
  BY <1>10, Zenon
<1> QED
  BY <1>1, <1>2, <1>3, <1>4, <1>5, <1>6, <1>7, <1>8, <1>9, <1>10, Zenon
     DEF Next, Proceed, Served

(* The rest: only calls of WithTransaction get as far as BeginTx.          *)
LEMMA RestTypes ==
  ASSUME IInv, RestOK, Next
  PROVE  RestOK'
<1> USE DEF ctxVars, txVars
<1>1. inTx' \subseteq Transactions
  <2>1. ASSUME NEW c \in Calls, BeginGetConn(c)
        PROVE  inTx' \subseteq Transactions
    <3>1. c \in Transactions /\ inTx' = inTx \cup {c}
      BY <2>1, Zenon DEF BeginGetConn, Move, IInv, CallInv, Calls
    <3> QED
      BY <3>1, Zenon DEF RestOK
  <2>2. ASSUME NEW c \in Calls,
               Rollback(c) \/ Commit(c) \/ RollbackClaimed(c) \/ BeginBreaks(c)
        PROVE  inTx' \subseteq inTx
    BY <2>2, Zenon DEF Rollback, RollbackTx, Commit, EndTx, RollbackClaimed, BeginBreaks
  <2>3. ASSUME NEW c \in Calls,
               \/ StartStatement(c) \/ StartTransaction(c) \/ CallerCancels(c)
               \/ DeadlinePasses(c) \/ FnUsesClient(c) \/ TxStatement(c) \/ FnReturns(c)
               \/ TxAnswer(c) \/ TxBreak(c) \/ TxInterrupt(c) \/ Claim(c)
               \/ BeginFails(c) \/ BeginTx(c)
        PROVE  inTx' = inTx
    BY <2>3, Zenon DEF StartStatement, StartTransaction, CallerCancels, DeadlinePasses,
       FnUsesClient, BeginStatement, TxStatement, FnReturns, TxAnswer, TxBreak,
       TxInterrupt, Back, Claim, BeginFails, BeginTx
  <2>4. ASSUME NEW c \in Calls,
               \/ Answer(c) \/ Break(c) \/ GetConnFails(c) \/ Interrupt(c) \/ ReadRows(c)
               \/ CutRows(c) \/ GetConn(c)
        PROVE  inTx' = inTx
    BY <2>4, Zenon DEF Answer, Break, GetConnFails, Interrupt, ReadRows, EndStatement, CutRows,
       GetConn
  <2>5. NewPostgresClient \/ Close => inTx' = inTx
    BY Zenon DEF NewPostgresClient, Close
  <2> QED
    BY <2>1, <2>2, <2>3, <2>4, <2>5, Zenon DEF Next, Proceed, Served, RestOK
<1>2. unsure' \subseteq Calls
  <2>1. ASSUME NEW c \in Calls, Commit(c)
        PROVE  unsure' \subseteq Calls
    BY <2>1, Zenon DEF Commit, RestOK
  <2>2. ASSUME NEW c \in Calls,
               \/ StartStatement(c) \/ StartTransaction(c) \/ CallerCancels(c)
               \/ DeadlinePasses(c) \/ FnUsesClient(c) \/ TxStatement(c) \/ FnReturns(c)
               \/ TxAnswer(c) \/ TxBreak(c) \/ TxInterrupt(c) \/ Claim(c)
               \/ BeginFails(c) \/ BeginBreaks(c) \/ BeginTx(c) \/ RollbackClaimed(c)
               \/ Rollback(c) \/ BeginGetConn(c)
        PROVE  unsure' = unsure
    BY <2>2, Zenon DEF StartStatement, StartTransaction, CallerCancels, DeadlinePasses,
       FnUsesClient, BeginStatement, TxStatement, FnReturns, TxAnswer, TxBreak,
       TxInterrupt, Back, Claim, BeginFails, BeginBreaks, BeginTx, RollbackClaimed, Rollback,
       BeginGetConn
  <2>3. ASSUME NEW c \in Calls,
               \/ Answer(c) \/ Break(c) \/ GetConnFails(c) \/ Interrupt(c) \/ ReadRows(c)
               \/ CutRows(c) \/ GetConn(c)
        PROVE  unsure' = unsure
    BY <2>3, Zenon DEF Answer, Break, GetConnFails, Interrupt, ReadRows, EndStatement, CutRows,
       GetConn
  <2>4. NewPostgresClient \/ Close => unsure' = unsure
    BY Zenon DEF NewPostgresClient, Close
  <2> QED
    BY <2>1, <2>2, <2>3, <2>4, Zenon DEF Next, Proceed, Served, RestOK
<1>3. faults' \in 0..MaxFaults
  <2>1. ASSUME NEW c \in Calls,
               \/ StartStatement(c) \/ StartTransaction(c) \/ CallerCancels(c)
               \/ DeadlinePasses(c) \/ FnUsesClient(c) \/ TxStatement(c) \/ FnReturns(c)
               \/ TxAnswer(c) \/ TxBreak(c) \/ TxInterrupt(c) \/ Claim(c)
               \/ BeginFails(c) \/ BeginBreaks(c) \/ BeginTx(c) \/ RollbackClaimed(c)
               \/ BeginGetConn(c)
        PROVE  faults' = faults \/ Fault
    BY <2>1, Zenon DEF StartStatement, StartTransaction, CallerCancels, DeadlinePasses,
       FnUsesClient, BeginStatement, TxStatement, FnReturns, TxAnswer, TxBreak,
       TxInterrupt, Claim, BeginFails, BeginBreaks, BeginTx, RollbackClaimed, BeginGetConn
  <2>2. ASSUME NEW c \in Calls,
               \/ Answer(c) \/ Break(c) \/ GetConnFails(c) \/ Interrupt(c) \/ ReadRows(c)
               \/ CutRows(c) \/ GetConn(c) \/ Rollback(c) \/ Commit(c)
        PROVE  faults' = faults \/ Fault
    BY <2>2, Zenon DEF Answer, Break, GetConnFails, Interrupt, ReadRows, CutRows, GetConn,
       Rollback, Commit
  <2>3. NewPostgresClient \/ Close => faults' = faults
    BY Zenon DEF NewPostgresClient, Close
  <2>4. faults' = faults \/ Fault
    BY <2>1, <2>2, <2>3, Zenon DEF Next, Proceed, Served
  <2> QED
    BY <2>4, PostgresAssumption DEF Fault, RestOK
<1> QED
  BY <1>1, <1>2, <1>3, ContextTypes, Zenon DEF RestOK

(* Every variable keeps its type; in particular the pool never lends more  *)
(* than MaxOpenConns connections, to statements, to rows that are read     *)
(* later and to transactions together.                                     *)
THEOREM TypeCorrect == Spec => []TypeOK
<1>1. Init => RestOK /\ InLimit
  <2> SUFFICES ASSUME Init PROVE RestOK /\ InLimit
    OBVIOUS
  <2>1. RestOK
    BY PostgresAssumption DEF Init, RestOK
  <2>2. Cardinality({}) = 0
    BY FS_EmptySet, Zenon
  <2>3. Lent = 0
    BY <2>2 DEF Init, Lent
  <2> QED
    BY <2>1, <2>3, PostgresAssumption DEF InLimit
<1>2. IInv /\ RestOK /\ InLimit /\ [Next]_vars => RestOK' /\ InLimit'
  <2>1. RestOK /\ UNCHANGED vars => RestOK'
    BY Zenon DEF RestOK, vars, ctxVars, txVars
  <2> QED
    BY <2>1, RestTypes, LentStep, Zenon
<1>3. IInv /\ RestOK /\ InLimit => TypeOK
  BY Zenon DEF IInv, Shape, RestOK, InLimit, Lent, TypeOK
<1> QED
  BY <1>1, <1>2, <1>3, Invariant, PTL DEF Spec

-----------------------------------------------------------------------------
(* The refinement.                                                         *)

(* What AtomicTx sees of one call.                                         *)
Verdict(c) == Told(fnResult[c])
Outcome(c) == Decided(server[c])
Answered(c) == Told(result[c])

(* The readings of a result and of the server's transaction.               *)
LEMMA Readings ==
  /\ Told(NoResult) = "none" /\ Told(Nil) = "nil"
  /\ \A r : r \notin {NoResult, Nil} => Told(r) = "failed"
  /\ \A s \in {"committed", "aborted"} : Decided(s) = s
  /\ \A s : s \notin {"committed", "aborted"} => Decided(s) = "undecided"
BY ResultFacts, Zenon DEF Told, Decided

(* A step of call c changes what AtomicTx sees of c, and of no other.      *)
LEMMA SeenOfOne ==
  ASSUME NEW c \in Calls, Only(c)
  PROVE  /\ Verdicts' = [Verdicts EXCEPT ![c] = Verdict(c)']
         /\ Outcomes' = [Outcomes EXCEPT ![c] = Outcome(c)']
         /\ Answers' = [Answers EXCEPT ![c] = Answered(c)']
BY Zenon DEF Only, Verdicts, Verdict, Outcomes, Outcome, Answers, Answered

(* Nothing that AtomicTx sees of c has changed.                            *)
Unseen(c) ==
  /\ Verdict(c)' = Verdict(c) /\ Outcome(c)' = Outcome(c) /\ Answered(c)' = Answered(c)
  /\ UNCHANGED unsure

(* The abstract step of c, by what is seen of c before and after it.       *)
LEMMA AbstractStep ==
  ASSUME NEW c \in Calls, Only(c),
         \/ Unseen(c)
         \/ /\ Verdict(c) = "none" /\ Verdict(c)' \in {"nil", "failed"}
            /\ Answered(c) = "none" /\ Answered(c)' = "none"
            /\ Outcome(c)' = Outcome(c) /\ UNCHANGED unsure
         \/ /\ Outcome(c) = "undecided" /\ Outcome(c)' = "aborted"
            /\ Verdict(c)' = Verdict(c) /\ Answered(c)' = Answered(c) /\ UNCHANGED unsure
         \/ /\ Outcome(c) # "committed" /\ Outcome(c)' \in {Outcome(c), "aborted"}
            /\ Answered(c) = "none" /\ Answered(c)' = "failed"
            /\ Verdict(c)' = Verdict(c) /\ UNCHANGED unsure
         \/ /\ Verdict(c) = "nil" /\ Verdict(c)' = "nil"
            /\ Outcome(c) = "undecided" /\ Answered(c) = "none"
            /\ \/ Outcome(c)' = "committed" /\ Answered(c)' = "nil" /\ UNCHANGED unsure
               \/ /\ Outcome(c)' \in {"committed", "aborted"} /\ Answered(c)' = "failed"
                  /\ unsure' = unsure \cup {c}
  PROVE  Atomic!Next \/ UNCHANGED <<Verdicts, Outcomes, Answers, unsure>>
<1>1. /\ Verdicts' = [Verdicts EXCEPT ![c] = Verdict(c)']
      /\ Outcomes' = [Outcomes EXCEPT ![c] = Outcome(c)']
      /\ Answers' = [Answers EXCEPT ![c] = Answered(c)']
  BY SeenOfOne, Zenon
<1>2. /\ Verdicts = [d \in Calls |-> Verdict(d)] /\ Outcomes = [d \in Calls |-> Outcome(d)]
      /\ Answers = [d \in Calls |-> Answered(d)]
  BY Zenon DEF Verdicts, Outcomes, Answers, Verdict, Outcome, Answered
<1>3. /\ Verdict(c)' = Verdict(c) => Verdicts' = Verdicts
      /\ Outcome(c)' = Outcome(c) => Outcomes' = Outcomes
      /\ Answered(c)' = Answered(c) => Answers' = Answers
  BY <1>1, <1>2, Zenon
<1>4. Verdicts[c] = Verdict(c) /\ Outcomes[c] = Outcome(c) /\ Answers[c] = Answered(c)
  BY <1>2, Zenon
<1> QED
  BY <1>1, <1>3, <1>4, Zenon
     DEF Unseen, Atomic!Next, Atomic!FnReturns, Atomic!Abort, Atomic!Commit,
         Atomic!GiveUp, Atomic!LoseAnswer

(* A step that changes no result, and the server's transaction at most     *)
(* within the states in which its outcome is open.                         *)
LEMMA QuietStep ==
  ASSUME NEW c \in Calls,
         UNCHANGED <<fnResult, result, unsure>>,
         \/ UNCHANGED server
         \/ /\ server[c] \notin {"committed", "aborted"}
            /\ server'[c] \notin {"committed", "aborted"}
  PROVE  Unseen(c)
BY Readings, Zenon DEF Unseen, Verdict, Outcome, Answered

(* The return of WithTransaction without a commit: its transaction is as   *)
(* before, or aborted.                                                     *)
LEMMA FailedReturn ==
  ASSUME IInv, NEW c \in Calls, pc[c] # "done", Only(c),
         NEW r \in Results \ {Nil, NoResult}, Return(c, r), UNCHANGED unsure,
         UNCHANGED server \/ server' = [server EXCEPT ![c] = "aborted"]
  PROVE  Atomic!Next \/ UNCHANGED <<Verdicts, Outcomes, Answers, unsure>>
<1>1. /\ server \in [Calls -> {"none", "open", "failed", "committed", "aborted"}]
      /\ server[c] # "committed" /\ result[c] = NoResult /\ result \in [Calls -> Results]
  BY Zenon DEF IInv, Shape, CallInv
<1>2. result'[c] = r /\ fnResult' = fnResult
  BY <1>1, Zenon DEF Return
<1>3. Answered(c) = "none" /\ Answered(c)' = "failed" /\ Verdict(c)' = Verdict(c)
  BY <1>1, <1>2, Readings, Zenon DEF Answered, Verdict
<1>4. Outcome(c) # "committed" /\ Outcome(c)' \in {Outcome(c), "aborted"}
  BY <1>1, Readings, Zenon DEF Outcome
<1> QED
  BY <1>3, <1>4, AbstractStep, Zenon

(* Each step of a call, on the abstract side.                              *)
LEMMA RefinesStep ==
  ASSUME IInv, NEW c \in Calls, Only(c), CallStep(c)
  PROVE  Atomic!Next \/ UNCHANGED <<Verdicts, Outcomes, Answers, unsure>>
<1>1. /\ server \in [Calls -> {"none", "open", "failed", "committed", "aborted"}]
      /\ fnResult \in [Calls -> Results] /\ result \in [Calls -> Results]
      /\ CallInv(c)
  BY Zenon DEF IInv, Shape
<1>2. CASE StartStatement(c) \/ StartTransaction(c) \/ CallerCancels(c)
           \/ DeadlinePasses(c) \/ FnUsesClient(c) \/ TxStatement(c) \/ Answer(c)
           \/ Break(c) \/ GetConn(c) \/ GetConnFails(c) \/ Interrupt(c) \/ ReadRows(c)
           \/ Claim(c) \/ CutRows(c) \/ BeginGetConn(c)
  <2>1. UNCHANGED <<fnResult, result, unsure, server>>
    BY <1>2, Zenon DEF StartStatement, StartTransaction, CallerCancels, DeadlinePasses,
       FnUsesClient, TxStatement, Answer, Break, GetConn, GetConnFails, Interrupt,
       ReadRows, Claim, CutRows, BeginGetConn, BeginStatement, EndStatement, txVars
  <2> QED BY <2>1, QuietStep, AbstractStep, Zenon
<1>3. CASE BeginTx(c) \/ TxAnswer(c)
  <2>1. UNCHANGED <<fnResult, result, unsure>>
    BY <1>3, Zenon DEF BeginTx, TxAnswer, Back
  <2>2. server[c] \in {"none", "open", "failed"} /\ server'[c] \in {"open", "failed"}
    BY <1>1, <1>3, Zenon DEF BeginTx, TxAnswer, Back, Move, CallInv
  <2> QED BY <2>1, <2>2, QuietStep, AbstractStep, Zenon
<1>4. CASE TxInterrupt(c) \/ TxBreak(c) \/ RollbackClaimed(c)
  <2>1. UNCHANGED <<fnResult, result, unsure>> /\ server'[c] = "aborted"
    BY <1>1, <1>4, Zenon DEF TxInterrupt, TxBreak, RollbackClaimed, Back
  <2>2. server[c] \in {"open", "failed", "aborted"}
    BY <1>1, <1>4, Zenon DEF TxInterrupt, TxBreak, RollbackClaimed, Back, Move, CallInv
  <2>3. Verdict(c)' = Verdict(c) /\ Answered(c)' = Answered(c) /\ Outcome(c)' = "aborted"
    BY <2>1, Readings, Zenon DEF Verdict, Answered, Outcome
  <2>4. Outcome(c) \in {"undecided", "aborted"}
    BY <2>2, Readings, Zenon DEF Outcome
  <2> QED BY <2>1, <2>3, <2>4, AbstractStep, Zenon DEF Unseen
<1>5. CASE FnReturns(c)
  <2>1. UNCHANGED <<server, result, unsure>> /\ fnResult'[c] \in FnResults
    BY <1>1, <1>5, Zenon DEF FnReturns, FnResults
  <2>2. fnResult[c] = NoResult /\ result[c] = NoResult
    BY <1>1, <1>5, Zenon DEF FnReturns, Move, CallInv
  <2>3. Verdict(c) = "none" /\ Verdict(c)' \in {"nil", "failed"}
    BY <2>1, <2>2, Readings, FnResultsFacts, Zenon DEF Verdict
  <2>4. Answered(c) = "none" /\ Answered(c)' = "none" /\ Outcome(c)' = Outcome(c)
    BY <2>1, <2>2, Readings, Zenon DEF Answered, Outcome
  <2> QED BY <2>1, <2>3, <2>4, AbstractStep, Zenon
<1>6. CASE BeginFails(c) \/ BeginBreaks(c)
  <2>1. pc[c] # "done" /\ UNCHANGED <<server, unsure>>
    BY <1>6, Zenon DEF BeginFails, BeginBreaks
  <2>2. CtxDone(c) => ctx[c] \in Kinds
    BY Zenon DEF IInv, Shape, CtxDone, Kinds
  <2>3. PICK k \in Kinds : Return(c, Err(k))
    BY <1>6, <2>2, Zenon DEF BeginFails, BeginBreaks, Kinds
  <2> QED BY <2>1, <2>3, ResultFacts, FailedReturn, Zenon
<1>7. CASE Rollback(c)
  <2>1. /\ pc[c] = "finish" /\ fnResult[c] # Nil /\ fnResult[c] \in FnResults
        /\ UNCHANGED unsure
    BY <1>1, <1>7, Zenon DEF Rollback, CallInv
  <2>2. CtxDone(c) => ctx[c] \in RollbackErrors
    BY Zenon DEF IInv, Shape, CtxDone, RollbackErrors
  <2>3. PICK rb \in {Nil} \cup {Err(j) : j \in RollbackErrors} :
          /\ Return(c, AfterRollback(c, rb))
          /\ UNCHANGED server \/ server' = [server EXCEPT ![c] = "aborted"]
    BY <1>7, <2>2, Zenon DEF Rollback, RollbackTx, EndTx, RollbackErrors
  <2> QED BY <2>1, <2>3, AfterRollbackFacts, FailedReturn, Zenon
<1>8. CASE Commit(c)
  <2>1. pc[c] = "finish" /\ fnResult[c] = Nil /\ result[c] = NoResult
    BY <1>1, <1>8, Zenon DEF Commit, CallInv
  <2>2. CASE CtxDone(c) \/ tx[c] # "active"
    <3>1. (IF tx[c] = "active" THEN ctx[c] ELSE "txDone") \in Kinds
      BY <2>2, Zenon DEF IInv, Shape, CtxDone, Kinds
    <3>2. PICK k \in Kinds : Return(c, CommitFailed(Err(k)))
      BY <1>8, <2>2, <3>1, Zenon DEF Commit
    <3>3. UNCHANGED <<server, unsure>> BY <1>8, <2>2, Zenon DEF Commit
    <3> QED BY <2>1, <3>2, <3>3, ResultFacts, FailedReturn, Zenon
  <2>3. CASE ~CtxDone(c) /\ tx[c] = "active" /\ server[c] # "open"
    <3>1. "other" \in Kinds /\ "badConn" \in Kinds BY Zenon DEF Kinds
    <3>2. PICK k \in Kinds : Return(c, CommitFailed(Err(k)))
      BY <1>8, <2>3, <3>1, Zenon DEF Commit
    <3>3. server' = [server EXCEPT ![c] = "aborted"] /\ UNCHANGED unsure
      BY <1>8, <2>3, Zenon DEF Commit, EndTx
    <3> QED BY <2>1, <3>2, <3>3, ResultFacts, FailedReturn, Zenon
  <2>4. CASE ~CtxDone(c) /\ tx[c] = "active" /\ server[c] = "open"
    <3>1. /\ UNCHANGED fnResult
          /\ \/ server'[c] = "committed" /\ result'[c] = Nil /\ UNCHANGED unsure
             \/ /\ server'[c] \in {"committed", "aborted"}
                /\ result'[c] = CommitFailed(Err("badConn")) /\ unsure' = unsure \cup {c}
      BY <1>1, <1>8, <2>4, Zenon DEF Commit, EndTx, Return
    <3>2. CommitFailed(Err("badConn")) \notin {Nil, NoResult}
      BY ResultFacts, Zenon DEF Kinds
    <3>3. /\ Verdict(c) = "nil" /\ Verdict(c)' = "nil"
          /\ Outcome(c) = "undecided" /\ Answered(c) = "none"
      BY <2>1, <2>4, <3>1, Readings, Zenon DEF Verdict, Outcome, Answered
    <3>4. \/ Outcome(c)' = "committed" /\ Answered(c)' = "nil" /\ UNCHANGED unsure
          \/ /\ Outcome(c)' \in {"committed", "aborted"} /\ Answered(c)' = "failed"
             /\ unsure' = unsure \cup {c}
      BY <3>1, <3>2, Readings, Zenon DEF Outcome, Answered
    <3> QED BY <3>3, <3>4, AbstractStep, Zenon
  <2> QED BY <2>2, <2>3, <2>4, Zenon
<1> QED
  BY <1>2, <1>3, <1>4, <1>5, <1>6, <1>7, <1>8, Zenon DEF CallStep, Proceed, Served

(* WithTransaction implements AtomicTx: for any number of calls, whatever  *)
(* contexts, broken connections and awaitDone do, a transaction is decided *)
(* once, is committed only for an fn that returned nil and before its call *)
(* returns, and the call returns nil only together with the commit.        *)
THEOREM Refinement == Spec => ImplementsAtomicTx
<1>1. Init => Atomic!Init
  BY Readings DEF Init, Atomic!Init, Verdicts, Outcomes, Answers
<1>2. IInv /\ [Next]_vars => [Atomic!Next]_(Atomic!txVars)
  <2> SUFFICES ASSUME IInv, [Next]_vars
               PROVE  Atomic!Next \/ UNCHANGED <<Verdicts, Outcomes, Answers, unsure>>
    BY Zenon DEF Atomic!txVars
  <2>1. CASE NewPostgresClient \/ Close \/ UNCHANGED vars
    <3>1. UNCHANGED <<fnResult, server, result, unsure>>
      BY <2>1, Zenon DEF NewPostgresClient, Close, vars, txVars
    <3> QED BY <3>1, Zenon DEF Verdicts, Outcomes, Answers
  <2>2. ASSUME NEW c \in Calls, CallStep(c)
        PROVE  Atomic!Next \/ UNCHANGED <<Verdicts, Outcomes, Answers, unsure>>
    BY <2>2, EachStep, RefinesStep, Zenon DEF Step
  <2> QED BY <2>1, <2>2, Zenon DEF Next, CallStep
<1> QED
  BY <1>1, <1>2, Invariant, PTL DEF Spec, ImplementsAtomicTx, Atomic!Spec
=============================================================================
