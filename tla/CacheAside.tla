----------------------------- MODULE CacheAside -----------------------------
(***************************************************************************)
(* cache/cache_aside.go: GetOrSet, called concurrently by several callers  *)
(* (goroutines or machines) for one key.  Calls for different keys share   *)
(* nothing.  Redis is the state of the key and of its lock; every Redis    *)
(* command is one step, and what lies between two commands is local to the *)
(* caller.  Time is abstracted: a TTL or a deadline may end at any moment, *)
(* and lapsed and slow remember whether one did that should not have.      *)
(***************************************************************************)
EXTENDS Integers, FiniteSets

CONSTANTS
  Callers,
  MaxCalls,     \* bound: calls of GetOrSet
  MaxWrites,    \* bound: changes of what fn computes
  MaxExpiries,  \* bound: times the key's TTL ends
  MaxFaults     \* bound: Redis errors, errors of fn, cancellations, crashes

ASSUME CacheAssumption ==
  /\ MaxCalls \in Nat /\ MaxWrites \in Nat /\ MaxExpiries \in Nat /\ MaxFaults \in Nat

VARIABLES
  source,    \* version of what fn computes (a row of the database)
  key,       \* Redis: the value stored under key, or Miss
  lock,      \* Redis: whether key:lock exists
  newest,    \* history: version of the last value stored
  pc,        \* where each caller is
  cacheNil,  \* GetOrSetOptions.CacheNil of each call
  awaited,   \* the lock holders a spin-waiter began to wait for
  floor,     \* history: version each caller could have read when it began
  result,    \* what each call returns (while in "store": what it will store)
  lapsed,    \* history: LockTTL ended while its holder was in the section
  slow,      \* history: a spin-wait ended before the lock holder it met
  fnCalls,   \* history: calls of fn that ran to their end
  calls, expiries, faults

vars == <<source, key, lock, newest, pc, cacheNil, awaited, floor, result,
          lapsed, slow, fnCalls, calls, expiries, faults>>

(* What only the beginning of a call or the environment changes.           *)
given == <<source, cacheNil, floor, lapsed, calls, expiries>>

(* What fn computes is a version of the source together with its form: a   *)
(* plain string or the empty one.  In Redis the form may be the sentinel.  *)
Versions == 0..MaxWrites
FormOf(v) == IF v % 2 = 1 THEN "empty" ELSE "plain"
Values == [ver : Versions, form : {"plain", "empty", "sentinel"}]
Miss  == [ver |-> -1, form |-> "miss"]
Error == [ver |-> -1, form |-> "error"]

(* The caller holds the lock.                                              *)
Section == {"check", "fn", "store", "release"}
Places == Section \cup {"idle", "get", "lock", "spin", "fallback", "done", "crashed"}
Holders == {c \in Callers : pc[c] \in Section}

TypeOK ==
  /\ source \in Versions
  /\ key \in Values \cup {Miss}
  /\ lock \in BOOLEAN
  /\ newest \in Versions
  /\ pc \in [Callers -> Places]
  /\ cacheNil \in [Callers -> BOOLEAN]
  /\ awaited \in [Callers -> SUBSET Callers]
  /\ floor \in [Callers -> Versions]
  /\ result \in [Callers -> Values \cup {Error}]
  /\ lapsed \in BOOLEAN /\ slow \in BOOLEAN
  /\ fnCalls \in Nat
  /\ calls \in 0..MaxCalls /\ expiries \in 0..MaxExpiries /\ faults \in 0..MaxFaults

Init ==
  /\ source = 0
  /\ key = Miss
  /\ lock = FALSE
  /\ newest = 0
  /\ pc = [c \in Callers |-> "idle"]
  /\ cacheNil = [c \in Callers |-> FALSE]
  /\ awaited = [c \in Callers |-> {}]
  /\ floor = [c \in Callers |-> 0]
  /\ result = [c \in Callers |-> Error]
  /\ lapsed = FALSE /\ slow = FALSE
  /\ fnCalls = 0 /\ calls = 0 /\ expiries = 0 /\ faults = 0

Fault == faults < MaxFaults /\ faults' = faults + 1

-----------------------------------------------------------------------------
(* Conversions between what fn returns and what Redis holds.               *)

(* The broken form lets the sentinel out.                                  *)
FromStoreAsIs(v) == v
FromStore(v) == IF v.form = "sentinel" THEN [ver |-> v.ver, form |-> "empty"] ELSE v

ToStore(v, nil) ==
  IF v.form = "empty" /\ nil THEN [ver |-> v.ver, form |-> "sentinel"] ELSE v

(* What fn returns when it reads the source now.                           *)
Computed == [ver |-> source, form |-> FormOf(source)]

-----------------------------------------------------------------------------
(* GetOrSet, called by c.                                                  *)

Move(c, to) == pc' = [pc EXCEPT ![c] = to]

Returns(c, value) ==
  /\ Move(c, "done")
  /\ result' = [result EXCEPT ![c] = value]

Call(c, nil) ==
  /\ pc[c] \in {"idle", "done"}
  /\ calls < MaxCalls /\ calls' = calls + 1
  /\ Move(c, "get")
  /\ cacheNil' = [cacheNil EXCEPT ![c] = nil]
  /\ floor' = [floor EXCEPT ![c] = IF key = Miss THEN 0 ELSE key.ver]
  /\ UNCHANGED <<source, key, lock, newest, awaited, slow, result, lapsed,
                 fnCalls, expiries, faults>>

(* The first Get: a hit, a miss, or an error other than a miss.            *)
FirstGet(c) ==
  /\ pc[c] = "get"
  /\ \/ /\ key # Miss
        /\ Returns(c, FromStore(key))
        /\ UNCHANGED faults
     \/ /\ key = Miss
        /\ Move(c, "lock")
        /\ UNCHANGED <<result, faults>>
     \/ /\ Fault
        /\ Returns(c, Error)
  /\ UNCHANGED <<key, lock, newest, awaited, slow, fnCalls, given>>

(* SetNX of the lock.  A command that fails may have been executed.  The   *)
(* broken form does not look at the result.                                *)
LockFreeAlways == TRUE
LockFree == ~lock

Lock(c) ==
  /\ pc[c] = "lock"
  /\ \/ /\ LockFree
        /\ lock' = TRUE
        /\ Move(c, "check")
        /\ UNCHANGED <<awaited, result, faults>>
     \/ /\ ~LockFree
        /\ Move(c, "spin")
        /\ awaited' = [awaited EXCEPT ![c] = Holders]
        /\ UNCHANGED <<lock, result, faults>>
     \/ /\ Fault
        /\ lock' = TRUE \/ UNCHANGED lock
        /\ Returns(c, Error)
        /\ UNCHANGED awaited
  /\ UNCHANGED <<key, newest, slow, fnCalls, given>>

(* The double-check: only a hit returns early, an error counts as a miss.  *)
(* The broken form leaves the double-check out.                            *)
CheckSkipped(c) == Move(c, "fn") /\ UNCHANGED <<result, faults>>
Check(c) ==
  \/ /\ key # Miss
     /\ Move(c, "release")
     /\ result' = [result EXCEPT ![c] = FromStore(key)]
     /\ UNCHANGED faults
  \/ /\ key = Miss
     /\ Move(c, "fn")
     /\ UNCHANGED <<result, faults>>
  \/ /\ Fault
     /\ Move(c, "fn")
     /\ UNCHANGED result

DoubleCheck(c) ==
  /\ pc[c] = "check"
  /\ Check(c)
  /\ UNCHANGED <<key, lock, newest, awaited, slow, fnCalls, given>>

(* fn, called by the lock holder: it reads the source, or fails.  The      *)
(* broken form does not look at its error.                                 *)
AfterFnErrorStores == "store"
AfterFnError == "release"

Compute(c) ==
  /\ pc[c] = "fn"
  /\ fnCalls' = fnCalls + 1
  /\ \/ /\ Move(c, "store")
        /\ result' = [result EXCEPT ![c] = Computed]
        /\ UNCHANGED faults
     \/ /\ Fault
        /\ Move(c, AfterFnError)
        /\ result' = [result EXCEPT ![c] = Error]
  /\ UNCHANGED <<key, lock, newest, awaited, slow, given>>

(* Set.  A command that fails may have been executed, and the computed     *)
(* value is not returned.                                                  *)
StoreKey(c) ==
  /\ key' = ToStore(result[c], cacheNil[c])
  /\ newest' = result[c].ver

Store(c) ==
  /\ pc[c] = "store"
  /\ \/ /\ StoreKey(c)
        /\ UNCHANGED <<result, faults>>
     \/ /\ Fault
        /\ StoreKey(c) \/ UNCHANGED <<key, newest>>
        /\ result' = [result EXCEPT ![c] = Error]
  /\ Move(c, "release")
  /\ UNCHANGED <<lock, awaited, slow, fnCalls, given>>

(* The deferred Del, whoever's lock it deletes.  Its error (of a cancelled *)
(* context, say) is ignored.                                               *)
Release(c) ==
  /\ pc[c] = "release"
  /\ \/ lock' = FALSE /\ UNCHANGED faults
     \/ UNCHANGED lock /\ Fault
  /\ Move(c, "done")
  /\ UNCHANGED <<key, newest, awaited, slow, result, fnCalls, given>>

(* One Get of the spin-wait.  After a miss, or an error, the deadline may  *)
(* have passed.  The broken form waits for ever.                           *)
DeadlineNever(c) == FALSE
Deadline(c) == slow' = (slow \/ awaited[c] \cap Holders # {})

Spin(c) ==
  /\ pc[c] = "spin"
  /\ \/ /\ key # Miss
        /\ Returns(c, FromStore(key))
        /\ UNCHANGED <<slow, faults>>
     \/ /\ key = Miss /\ Deadline(c)
        /\ Move(c, "fallback")
        /\ UNCHANGED <<result, faults>>
     \/ /\ key # Miss /\ Deadline(c) /\ Fault
        /\ Move(c, "fallback")
        /\ UNCHANGED result
  /\ UNCHANGED <<key, lock, newest, awaited, fnCalls, given>>

(* ctx.Done() during the spin-wait.                                        *)
SpinCancelled(c) ==
  /\ pc[c] = "spin"
  /\ Fault
  /\ Returns(c, Error)
  /\ UNCHANGED <<key, lock, newest, awaited, slow, fnCalls, given>>

(* fn, called without the lock; its result is returned and not stored.     *)
(* The broken form also stores it.                                         *)
FallbackStores(c) ==
  /\ Returns(c, Computed)
  /\ key' = ToStore(Computed, cacheNil[c])
  /\ newest' = source
FallbackReturns(c) == Returns(c, Computed) /\ UNCHANGED <<key, newest>>

Fallback(c) ==
  /\ pc[c] = "fallback"
  /\ fnCalls' = fnCalls + 1
  /\ \/ FallbackReturns(c) /\ UNCHANGED faults
     \/ Fault /\ Returns(c, Error) /\ UNCHANGED <<key, newest>>
  /\ UNCHANGED <<lock, awaited, slow, given>>

-----------------------------------------------------------------------------
(* The environment.                                                        *)

(* The data behind fn changes.                                             *)
Write ==
  /\ source < MaxWrites /\ source' = source + 1
  /\ UNCHANGED <<key, lock, newest, pc, cacheNil, awaited, floor, result,
                 lapsed, slow, fnCalls, calls, expiries, faults>>

KeyExpires ==
  /\ key # Miss /\ key' = Miss
  /\ expiries < MaxExpiries /\ expiries' = expiries + 1
  /\ UNCHANGED <<source, lock, newest, pc, cacheNil, awaited, floor, result,
                 lapsed, slow, fnCalls, calls, faults>>

(* The lock's TTL ends: under its holder, if it was chosen too short.      *)
LockExpires ==
  /\ lock /\ lock' = FALSE
  /\ lapsed' = (lapsed \/ Holders # {})
  /\ UNCHANGED <<source, key, newest, pc, cacheNil, awaited, floor, result, slow,
                 fnCalls, calls, expiries, faults>>

(* The machine of caller c stops, wherever it is.                          *)
Crash(c) ==
  /\ pc[c] \notin {"idle", "done", "crashed"}
  /\ Fault
  /\ Move(c, "crashed")
  /\ UNCHANGED <<key, lock, newest, awaited, slow, result, fnCalls, given>>

-----------------------------------------------------------------------------
CallStep(c) ==
  \/ FirstGet(c) \/ Lock(c) \/ DoubleCheck(c) \/ Compute(c) \/ Store(c)
  \/ Release(c) \/ Spin(c) \/ Fallback(c)

Next ==
  \/ \E c \in Callers :
       \/ \E nil \in BOOLEAN : Call(c, nil)
       \/ CallStep(c) \/ SpinCancelled(c) \/ Crash(c)
  \/ Write \/ KeyExpires \/ LockExpires

Spec == Init /\ [][Next]_vars

(* A caller that can go on does, and fn returns.  Nothing is assumed of    *)
(* TTLs: no call may depend on the end of one.                             *)
FairSpec == Spec /\ \A c \in Callers : WF_vars(CallStep(c))

-----------------------------------------------------------------------------
(* Properties.                                                             *)

(* The lock protects the section from SetNX to the deferred Del: as long   *)
(* as no holder outlives its TTL, two callers are never in it at once,     *)
(* although Del deletes the lock without asking whose it is.               *)
OneLeader ==
  ~lapsed => \A c, d \in Callers : pc[c] \in Section /\ pc[d] \in Section => c = d

(* A value is never replaced by one computed from older data: Set runs in  *)
(* the section that fn was called in, and the fallback does not store.     *)
NeverStoresOlder == [][lapsed \/ newest' >= newest]_vars

(* What a call returns is what fn computed, the empty string included, and *)
(* (unless a lock lapsed) not older than what the cache held when the call *)
(* began.                                                                  *)
ReturnsAreTrue ==
  \A c \in Callers :
    pc[c] = "done" /\ result[c] # Error =>
      /\ result[c].form = FormOf(result[c].ver)
      /\ lapsed \/ result[c].ver >= floor[c]

(* "fn must be called exactly once" (redis_cache_test.go): while the key   *)
(* lives, nothing fails and fn is faster than TTL and deadline, one call   *)
(* of fn serves all callers, those included that missed before it was      *)
(* stored and locked after it was released.                                *)
FnOnce == expiries = 0 /\ faults = 0 /\ ~lapsed /\ ~slow => fnCalls <= 1

(* Every call returns, even when the lock holder has crashed and the lock  *)
(* is never released: the spin-wait has a deadline.                        *)
EveryCallReturns ==
  \A c \in Callers : pc[c] # "idle" ~> pc[c] \in {"done", "crashed"}
=============================================================================
