------------------------------ MODULE Postgres ------------------------------
(***************************************************************************)
(* db/postgres.go: statements with the query timeout, rows that are read   *)
(* after the call that returned them, and WithTransaction, on a connection *)
(* pool that several goroutines share.  The pool, sql.Tx, sql.Rows and the *)
(* goroutines database/sql keeps for done contexts (awaitDone), the driver *)
(* and the server are external: they are modelled as this code uses them.  *)
(*                                                                         *)
(* A call is one use of the client by the application: a statement or a    *)
(* transaction.  The function given to WithTransaction may run statements  *)
(* on its transaction and, with the same context, on the client itself; it *)
(* returns what it likes.  Time is abstracted to the order in which        *)
(* deadlines pass.                                                         *)
(***************************************************************************)
EXTENDS Integers, FiniteSets

CONSTANTS
  Statements,   \* calls of Exec-, Prepare-, Query- and QueryRowContext
  Transactions, \* calls of WithTransaction
  MaxOpenConns, \* ConnectionConfig.MaxOpenConns
  QueryTimeout, \* whether ConnectionConfig.QueryTimeout is set
  MaxFaults     \* bound: broken connections

Calls == Statements \cup Transactions

ASSUME PostgresAssumption ==
  /\ IsFiniteSet(Calls) /\ Statements \cap Transactions = {}
  /\ MaxOpenConns \in Nat \ {0} /\ QueryTimeout \in BOOLEAN /\ MaxFaults \in Nat

VARIABLES
  client,   \* the *sql.DB: none, failed, ready, closed
  pc,       \* where each call is
  stmt,     \* the statement it runs on the client: exec (or prepare) or query
  deadline, \* of its context: none, not later than the query timeout, later
  ctx,      \* its context: live, or the error of a done one
  qctx,     \* the context withQueryTimeout has derived from it: none, live, done
  inQuery,  \* calls with a connection for a statement or its rows
  inTx,     \* calls with a connection for their transaction
  tx,       \* the *sql.Tx: active, claimed by awaitDone, ended
  server,   \* the transaction at the server
  fnResult, \* what fn returned
  result,   \* what WithTransaction returned
  unsure,   \* history: the answer to the COMMIT was lost
  faults

ctxVars == <<deadline, ctx, qctx>>
txVars == <<inTx, tx, server, fnResult, result, unsure>>
vars == <<client, pc, stmt, ctxVars, inQuery, txVars, faults>>

(* An error: what errors.Is and errors.As find in it, and what its text    *)
(* says.  deadline and canceled are the errors of a context; canceling     *)
(* (57014) and duplicate (23505) are the server's, as *pq.Error.           *)
CtxErrors == {"deadline", "canceled"}
Kinds == CtxErrors \cup {"canceling", "duplicate", "txDone", "badConn", "other"}
Err(k) == [is |-> k, says |-> {k}]
NoResult == [is |-> "none", says |-> {}]
Nil == [is |-> "nil", says |-> {}]
Panic == [is |-> "panic", says |-> {}]
Results == [is : Kinds \cup {"none", "nil", "panic"}, says : SUBSET Kinds]

(* fmt.Errorf("... %v ... %w", err, rbErr): the text of both, the chain of *)
(* the second.                                                             *)
Both(err, rbErr) == [is |-> rbErr.is, says |-> err.says \cup rbErr.says]

(* IsTimeoutError.  The text of 57014 for an interrupted statement has     *)
(* none of the keywords.                                                   *)
IsTimeoutError(e) == e.is \in {"deadline", "canceling"} \/ "deadline" \in e.says

(* IsDuplicateKeyError: the code decides for a *pq.Error, the text for all *)
(* others.  The broken form has no second part.                            *)
PqErrors == {"canceling", "duplicate"}
IsDuplicateByCode(e) == e.is = "duplicate"
IsDuplicateKeyError(e) ==
  IF e.is \in PqErrors THEN e.is = "duplicate" ELSE "duplicate" \in e.says

Places == {"idle", "conn", "run", "rows", "begin", "sent", "fn", "txrun", "finish", "done"}

TypeOK ==
  /\ client \in {"none", "failed", "ready", "closed"}
  /\ pc \in [Calls -> Places]
  /\ stmt \in [Calls -> {"none", "exec", "query"}]
  /\ deadline \in [Calls -> {"none", "tight", "loose"}]
  /\ ctx \in [Calls -> CtxErrors \cup {"live"}]
  /\ qctx \in [Calls -> CtxErrors \cup {"none", "live"}]
  /\ inQuery \subseteq Calls /\ inTx \subseteq Transactions
  /\ Cardinality(inQuery) + Cardinality(inTx) <= MaxOpenConns
  /\ tx \in [Calls -> {"none", "active", "claimed", "ended"}]
  /\ server \in [Calls -> {"none", "open", "failed", "committed", "aborted"}]
  /\ fnResult \in [Calls -> Results] /\ result \in [Calls -> Results]
  /\ unsure \subseteq Calls
  /\ faults \in 0..MaxFaults

Init ==
  /\ client = "none"
  /\ pc = [c \in Calls |-> "idle"]
  /\ stmt = [c \in Calls |-> "none"]
  /\ deadline = [c \in Calls |-> "none"]
  /\ ctx = [c \in Calls |-> "live"]
  /\ qctx = [c \in Calls |-> "none"]
  /\ inQuery = {} /\ inTx = {}
  /\ tx = [c \in Calls |-> "none"]
  /\ server = [c \in Calls |-> "none"]
  /\ fnResult = [c \in Calls |-> NoResult]
  /\ result = [c \in Calls |-> NoResult]
  /\ unsure = {} /\ faults = 0

Fault == faults < MaxFaults /\ faults' = faults + 1

Move(c, from, to) == pc[c] = from /\ pc' = [pc EXCEPT ![c] = to]

-----------------------------------------------------------------------------
(* The pool and the contexts.                                              *)

(* sql.DB lends at most MaxOpenConns connections.  The broken form lends   *)
(* one more.                                                               *)
FreeConnOneMore == Cardinality(inQuery) + Cardinality(inTx) <= MaxOpenConns
FreeConn == Cardinality(inQuery) + Cardinality(inTx) < MaxOpenConns

(* sql.Open and the ping; the handle is closed when the ping fails.        *)
NewPostgresClient ==
  /\ client = "none"
  /\ client' \in {"ready", "failed"}
  /\ UNCHANGED <<pc, stmt, ctxVars, inQuery, txVars, faults>>

Close ==
  /\ client = "ready" /\ client' = "closed"
  /\ UNCHANGED <<pc, stmt, ctxVars, inQuery, txVars, faults>>

CtxDone(c) == ctx[c] # "live"

(* The context of a client statement.                                      *)
QueryDone(c) == CtxDone(c) \/ qctx[c] \in CtxErrors

(* withQueryTimeout derives a context unless there is no timeout or the    *)
(* caller's own deadline is not later.  The broken form derives none.      *)
WithoutTimeout(d) == "none"
WithQueryTimeout(d) == IF ~QueryTimeout \/ d = "tight" THEN "none" ELSE "live"

(* The caller may cancel at any time.  Its deadline passes, but not before *)
(* the one derived from it.                                                *)
CallerCancels(c) ==
  /\ pc[c] \notin {"idle", "done"} /\ ~CtxDone(c)
  /\ ctx' = [ctx EXCEPT ![c] = "canceled"]
  /\ UNCHANGED <<client, pc, stmt, deadline, qctx, inQuery, txVars, faults>>

DeadlinePasses(c) ==
  /\ pc[c] \notin {"idle", "done"}
  /\ \/ /\ deadline[c] # "none" /\ ~CtxDone(c) /\ qctx[c] # "live"
        /\ ctx' = [ctx EXCEPT ![c] = "deadline"]
        /\ UNCHANGED qctx
     \/ /\ qctx[c] = "live"
        /\ qctx' = [qctx EXCEPT ![c] = "deadline"]
        /\ UNCHANGED ctx
  /\ UNCHANGED <<client, pc, stmt, deadline, inQuery, txVars, faults>>

-----------------------------------------------------------------------------
(* ExecContext, PrepareContext, QueryContext, QueryRowContext.             *)

(* A statement begins; its context is derived from the caller's.           *)
BeginStatement(c, from) ==
  /\ Move(c, from, "conn")
  /\ \E s \in {"exec", "query"} : stmt' = [stmt EXCEPT ![c] = s]
  /\ UNCHANGED <<client, ctx, inQuery, txVars, faults>>

StartStatement(c) ==
  /\ client \in {"ready", "closed"} /\ c \in Statements
  /\ BeginStatement(c, "idle")
  /\ \E d \in {"none", "tight", "loose"} : deadline' = [deadline EXCEPT ![c] = d]
  /\ qctx' = [qctx EXCEPT ![c] = WithQueryTimeout(deadline'[c])]

(* fn uses the client instead of its transaction.                          *)
FnUsesClient(c) ==
  /\ BeginStatement(c, "fn")
  /\ qctx' = [qctx EXCEPT ![c] = WithQueryTimeout(deadline[c])]
  /\ UNCHANGED deadline

(* The statement is over, its connection back in the pool and its context  *)
(* forgotten.  What fn makes of the outcome is left open.                  *)
EndStatement(c) ==
  /\ inQuery' = inQuery \ {c}
  /\ pc' = [pc EXCEPT ![c] = IF c \in Transactions THEN "fn" ELSE "done"]
  /\ stmt' = [stmt EXCEPT ![c] = "none"]
  /\ qctx' = [qctx EXCEPT ![c] = "none"]
  /\ UNCHANGED <<client, deadline, ctx, txVars>>

GetConn(c) ==
  /\ client = "ready" /\ FreeConn /\ ~QueryDone(c)
  /\ Move(c, "conn", "run")
  /\ inQuery' = inQuery \cup {c}
  /\ UNCHANGED <<client, stmt, ctxVars, txVars, faults>>

GetConnFails(c) ==
  /\ pc[c] = "conn" /\ (QueryDone(c) \/ client = "closed")
  /\ EndStatement(c)
  /\ UNCHANGED faults

(* cancel(): nothing, if no context was derived.                           *)
Cancel(c) == qctx' = [qctx EXCEPT ![c] = IF @ = "live" THEN "canceled" ELSE @]

(* The server answers.  A query returns rows, and the deferred cancel()    *)
(* runs before the caller has them.                                        *)
Answer(c) ==
  /\ pc[c] = "run"
  /\ \/ stmt[c] = "exec" /\ EndStatement(c)
     \/ /\ stmt[c] = "query" /\ Move(c, "run", "rows")
        /\ Cancel(c)
        /\ UNCHANGED <<client, stmt, deadline, ctx, inQuery, txVars>>
  /\ UNCHANGED faults

(* The context is done: the driver has sent a cancel request, and the      *)
(* server gives in to it.                                                  *)
Interrupt(c) ==
  /\ pc[c] = "run" /\ QueryDone(c)
  /\ EndStatement(c)
  /\ UNCHANGED faults

Break(c) ==
  /\ pc[c] = "run" /\ Fault
  /\ EndStatement(c)

(* awaitDone of sql.Rows closes the rows of a query whose context is done; *)
(* the driver reads first what the server has still to send.               *)
CutRows(c) ==
  /\ pc[c] = "rows" /\ c \in inQuery /\ QueryDone(c)
  /\ inQuery' = inQuery \ {c}
  /\ UNCHANGED <<client, pc, stmt, ctxVars, txVars, faults>>

(* The caller reads the rows, or is told why they were closed.             *)
ReadRows(c) ==
  /\ pc[c] = "rows"
  /\ EndStatement(c)
  /\ UNCHANGED faults

-----------------------------------------------------------------------------
(* WithTransaction.                                                        *)

StartTransaction(c) ==
  /\ client \in {"ready", "closed"} /\ c \in Transactions
  /\ Move(c, "idle", "begin")
  /\ \E d \in {"none", "tight", "loose"} : deadline' = [deadline EXCEPT ![c] = d]
  /\ UNCHANGED <<client, stmt, ctx, qctx, inQuery, txVars, faults>>

(* BeginTx: the pool lends a connection, BEGIN is sent, and the driver     *)
(* waits for the answer whatever becomes of the context.                   *)
BeginGetConn(c) ==
  /\ client = "ready" /\ FreeConn /\ ~CtxDone(c)
  /\ Move(c, "begin", "sent")
  /\ inTx' = inTx \cup {c}
  /\ UNCHANGED <<client, stmt, ctxVars, inQuery, tx, server, fnResult, result, unsure, faults>>

BeginTx(c) ==
  /\ Move(c, "sent", "fn")
  /\ tx' = [tx EXCEPT ![c] = "active"]
  /\ server' = [server EXCEPT ![c] = "open"]
  /\ UNCHANGED <<client, stmt, ctxVars, inQuery, inTx, fnResult, result, unsure, faults>>

Return(c, r) ==
  /\ pc' = [pc EXCEPT ![c] = "done"]
  /\ result' = [result EXCEPT ![c] = r]
  /\ UNCHANGED <<client, stmt, ctxVars, inQuery, fnResult>>

BeginFails(c) ==
  /\ pc[c] = "begin"
  /\ \/ CtxDone(c) /\ Return(c, Err(ctx[c]))
     \/ client = "closed" /\ Return(c, Err("other"))
  /\ UNCHANGED <<inTx, tx, server, unsure, faults>>

BeginBreaks(c) ==
  /\ pc[c] = "sent" /\ Fault
  /\ Return(c, Err("badConn"))
  /\ inTx' = inTx \ {c}
  /\ UNCHANGED <<tx, server, unsure>>

(* A statement of fn on its transaction: refused when the context is done  *)
(* or the connection broken, otherwise sent.  No timeout is added.         *)
TxStatement(c) ==
  /\ ~CtxDone(c) /\ server[c] # "aborted"
  /\ Move(c, "fn", "txrun")
  /\ UNCHANGED <<client, stmt, ctxVars, inQuery, txVars, faults>>

(* It comes back, with the server's transaction at s.                      *)
Back(c, s) ==
  /\ Move(c, "txrun", "fn")
  /\ server' = [server EXCEPT ![c] = s]
  /\ UNCHANGED <<client, stmt, ctxVars, inQuery, inTx, tx, fnResult, result, unsure>>

(* An error makes the server refuse all that follows.  A connection whose  *)
(* statement was interrupted is closed by the driver.                      *)
TxAnswer(c) == (Back(c, server[c]) \/ Back(c, "failed")) /\ UNCHANGED faults
TxInterrupt(c) == CtxDone(c) /\ Back(c, "aborted") /\ UNCHANGED faults
TxBreak(c) == Fault /\ Back(c, "aborted")

(* awaitDone of sql.Tx: once the context is done it claims the transaction,*)
(* and rolls it back when no statement of it is under way.                 *)
Claim(c) ==
  /\ tx[c] = "active" /\ CtxDone(c)
  /\ tx' = [tx EXCEPT ![c] = "claimed"]
  /\ UNCHANGED <<client, pc, stmt, ctxVars, inQuery, inTx, server, fnResult, result, unsure,
                 faults>>

RollbackClaimed(c) ==
  /\ tx[c] = "claimed" /\ pc[c] # "txrun"
  /\ tx' = [tx EXCEPT ![c] = "ended"]
  /\ server' = [server EXCEPT ![c] = "aborted"]
  /\ inTx' = inTx \ {c}
  /\ UNCHANGED <<client, pc, stmt, ctxVars, inQuery, fnResult, result, unsure, faults>>

(* fn returns nil or an error, or panics.                                  *)
FnErrors == {"duplicate", "deadline", "canceling", "other"}
FnReturns(c) ==
  /\ Move(c, "fn", "finish")
  /\ \E r \in {Nil, Panic} \cup {Err(k) : k \in FnErrors} :
       fnResult' = [fnResult EXCEPT ![c] = r]
  /\ UNCHANGED <<client, stmt, ctxVars, inQuery, inTx, tx, server, result, unsure, faults>>

(* tx.Rollback and tx.Commit end an active transaction at the server as s, *)
(* and give its connection back.                                           *)
EndTx(c, s) ==
  /\ tx' = [tx EXCEPT ![c] = "ended"]
  /\ server' = [server EXCEPT ![c] = s]
  /\ inTx' = inTx \ {c}

(* What WithTransaction returns when fn failed and tx.Rollback returned    *)
(* rb: fn's error, or both; a panic is raised again in any case.           *)
AfterRollback(c, rb) ==
  CASE fnResult[c] = Panic -> Panic
    [] fnResult[c] # Panic /\ rb = Nil -> fnResult[c]
    [] OTHER -> Both(fnResult[c], rb)

(* The broken form does nothing when fn has panicked.                      *)
RollbackTxUnlessPanic(c) ==
  IF fnResult[c] = Panic THEN UNCHANGED <<tx, server, inTx>> ELSE EndTx(c, "aborted")
RollbackTx(c) == EndTx(c, "aborted")

(* Rollback fails on a connection that is broken, or that the driver has   *)
(* given up because the context is done; and when awaitDone was first.     *)
Rollback(c) ==
  /\ pc[c] = "finish" /\ fnResult[c] # Nil
  /\ \/ /\ tx[c] = "active" /\ server[c] # "aborted"
        /\ RollbackTx(c) /\ Return(c, AfterRollback(c, Nil))
        /\ UNCHANGED faults
     \/ /\ tx[c] = "active"
        /\ IF server[c] = "aborted" THEN UNCHANGED faults ELSE Fault
        /\ RollbackTx(c) /\ Return(c, AfterRollback(c, Err("badConn")))
     \/ /\ tx[c] = "active" /\ CtxDone(c)
        /\ RollbackTx(c) /\ Return(c, AfterRollback(c, Err(ctx[c])))
        /\ UNCHANGED faults
     \/ /\ tx[c] # "active"
        /\ Return(c, AfterRollback(c, Err("txDone")))
        /\ UNCHANGED <<tx, server, inTx, faults>>
  /\ UNCHANGED unsure

(* An error of tx.Commit is returned.  The broken form returns nil.        *)
CommitFailedIgnored(e) == Nil
CommitFailed(e) == e

(* tx.Commit does nothing once the context is done or the transaction      *)
(* claimed.  A failed transaction is rolled back by the driver.  When the  *)
(* connection breaks, the COMMIT may or may not have been carried out.     *)
Commit(c) ==
  /\ pc[c] = "finish" /\ fnResult[c] = Nil
  /\ \/ /\ CtxDone(c) \/ tx[c] # "active"
        /\ Return(c, CommitFailed(Err(IF tx[c] = "active" THEN ctx[c] ELSE "txDone")))
        /\ UNCHANGED <<tx, server, inTx, unsure, faults>>
     \/ /\ ~CtxDone(c) /\ tx[c] = "active"
        /\ \/ server[c] = "open" /\ EndTx(c, "committed") /\ Return(c, Nil)
           \/ /\ server[c] \in {"failed", "aborted"} /\ EndTx(c, "aborted")
              /\ Return(c, CommitFailed(
                   Err(IF server[c] = "failed" THEN "other" ELSE "badConn")))
        /\ UNCHANGED <<unsure, faults>>
     \/ /\ ~CtxDone(c) /\ tx[c] = "active" /\ server[c] = "open" /\ Fault
        /\ \E s \in {"committed", "aborted"} : EndTx(c, s)
        /\ Return(c, CommitFailed(Err("badConn")))
        /\ unsure' = unsure \cup {c}

-----------------------------------------------------------------------------
(* What happens without the server: the pool lends or refuses, the caller  *)
(* learns that its rows are closed, and Commit and Rollback find the       *)
(* transaction claimed.                                                    *)
Proceed(c) ==
  \/ GetConn(c) \/ GetConnFails(c) \/ BeginGetConn(c) \/ BeginFails(c)
  \/ c \notin inQuery /\ ReadRows(c)
  \/ tx[c] # "active" /\ (Rollback(c) \/ Commit(c))

(* What the server has a part in.                                          *)
Served(c) ==
  \/ Answer(c) \/ Interrupt(c) \/ Break(c) \/ CutRows(c) \/ ReadRows(c)
  \/ BeginTx(c) \/ BeginBreaks(c) \/ TxAnswer(c) \/ TxInterrupt(c) \/ TxBreak(c)
  \/ Rollback(c) \/ Commit(c) \/ RollbackClaimed(c)

Next ==
  \/ NewPostgresClient \/ Close
  \/ \E c \in Calls :
       \/ StartStatement(c) \/ StartTransaction(c) \/ CallerCancels(c) \/ DeadlinePasses(c)
       \/ FnUsesClient(c) \/ TxStatement(c) \/ FnReturns(c)
       \/ Proceed(c) \/ Served(c) \/ Claim(c)

Spec == Init /\ [][Next]_vars

(* Deadlines pass, goroutines run, and fn returns at some point.  awaitDone*)
(* claims a transaction unless its Commit or Rollback is under way.        *)
(* Nothing is assumed of the server: it need not answer, nor give in to a  *)
(* cancel request.                                                         *)
FairSpec ==
  /\ Spec
  /\ \A c \in Calls :
       /\ WF_vars(DeadlinePasses(c)) /\ WF_vars(Proceed(c))
       /\ WF_vars(pc[c] # "finish" /\ Claim(c))
       /\ SF_vars(FnReturns(c))

-----------------------------------------------------------------------------
(* Properties.                                                             *)

(* WithTransaction tells the truth: nil means that the server committed,   *)
(* and the server commits only what fn returned nil for; if the call       *)
(* returns an error although it committed, the answer to the COMMIT was    *)
(* lost.  This holds with contexts that end, and connections that break,   *)
(* at any point, and when fn has ignored a failed statement.               *)
OutcomeIsTrue ==
  \A c \in Calls :
    /\ result[c] = Nil => server[c] = "committed"
    /\ server[c] = "committed" => fnResult[c] = Nil
    /\ server[c] = "committed" /\ pc[c] = "done" => result[c] = Nil \/ c \in unsure

(* A call that has returned holds no connection and leaves no transaction  *)
(* open, whether fn returned or panicked, except for a moment when its     *)
(* context is done: then database/sql is about to roll back by itself.     *)
NothingLeftOpen ==
  \A c \in Calls :
    /\ pc[c] = "done" => c \notin inQuery /\ (c \in inTx => CtxDone(c))
    /\ server[c] \in {"open", "failed"} => c \in inTx

(* A duplicate key or an exceeded deadline that made fn fail is recognised *)
(* by IsDuplicateKeyError and IsTimeoutError in what WithTransaction       *)
(* returns, also when the rollback fails too and the error of fn is no     *)
(* longer in the chain.  One error is not: 57014, which the server returns *)
(* for a statement that was interrupted, is no longer found when the       *)
(* rollback has failed with anything but the exceeded deadline itself.     *)
LosesTimeout == {"txDone", "badConn", "canceled"}
KindSurvives ==
  \A c \in Calls :
    pc[c] = "done" =>
      /\ fnResult[c].is = "duplicate" => IsDuplicateKeyError(result[c])
      /\ fnResult[c].is = "deadline" => IsTimeoutError(result[c])
      /\ fnResult[c].is = "canceling" =>
           \/ IsTimeoutError(result[c])
           \/ \E k \in LosesTimeout : result[c] = Both(fnResult[c], Err(k))

(* The calls together implement AtomicTx: whatever contexts, connections   *)
(* and awaitDone do, the outcome of a transaction is decided once, and     *)
(* nothing is committed after its call has returned.                       *)
Told(r) == CASE r = NoResult -> "none" [] r = Nil -> "nil" [] OTHER -> "failed"
Decided(s) == IF s \in {"committed", "aborted"} THEN s ELSE "undecided"
Verdicts == [c \in Calls |-> Told(fnResult[c])]
Outcomes == [c \in Calls |-> Decided(server[c])]
Answers == [c \in Calls |-> Told(result[c])]
Atomic == INSTANCE AtomicTx
            WITH verdict <- Verdicts, outcome <- Outcomes, answer <- Answers, lost <- unsure
ImplementsAtomicTx == Atomic!Spec

(* With a query timeout every statement on the client ends, though all     *)
(* connections are taken, also by the very transaction that waits for one; *)
(* and a transaction whose context has a deadline ends and gives its       *)
(* connection back.  The one thing they can wait for without end is the    *)
(* server: its answer to a cancel request, to BEGIN, COMMIT or ROLLBACK,   *)
(* or the rest of the rows.  No deadline ends that.                        *)
Bounded(c) == pc[c] # "idle" /\ (c \in Statements \/ deadline[c] # "none")
AwaitsServer(c) ==
  \/ pc[c] = "run" /\ QueryDone(c)
  \/ pc[c] = "rows" /\ c \in inQuery /\ QueryDone(c)
  \/ pc[c] = "sent"
  \/ pc[c] = "txrun" /\ CtxDone(c)
  \/ pc[c] = "finish" /\ tx[c] = "active"
  \/ pc[c] = "done" /\ tx[c] = "claimed"
BoundedCallsEnd ==
  \A c \in Calls :
    Bounded(c) ~> (pc[c] = "done" /\ c \notin inTx \cup inQuery) \/ []AwaitsServer(c)

-----------------------------------------------------------------------------
(* What the documentation says and the code does not do.                   *)

(* client.go:55: QueryTimeout "is applied as a deadline to every query".   *)
(* The rows of a query can then be read until a deadline has passed or the *)
(* caller has cancelled.  QueryContext and QueryRowContext cancel the      *)
(* derived context when they return, and the rows are closed.              *)
RowsUntilDeadline ==
  \A c \in Calls :
    pc[c] = "rows" /\ c \notin inQuery => CtxDone(c) \/ qctx[c] = "deadline"
=============================================================================
