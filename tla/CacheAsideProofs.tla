-------------------------- MODULE CacheAsideProofs --------------------------
(***************************************************************************)
(* GetOrSet for any number of callers, of calls, of writes and of faults.  *)
(* What depends on the lock is shown for the behaviours up to the moment   *)
(* its TTL ends under a holder, if it ever does.                           *)
(***************************************************************************)
EXTENDS CacheAside, TLAPS

(* Whoever is in the section holds the lock, and is alone there.           *)
Locked == ~lapsed => \A c \in Callers : pc[c] \in Section => lock

(* A value in the form fn returned it.                                     *)
True(v) == v \in Values /\ v.form = FormOf(v.ver)

(* The cache holds what was stored last, and nobody stored, or was told of *)
(* at the beginning of a call, more than the source has produced.          *)
Stored ==
  /\ key # Miss => key.ver = newest /\ True(FromStore(key))
  /\ newest <= source
  /\ ~lapsed => \A c \in Callers : floor[c] <= newest

(* What the section is about to store is not older than what is stored.    *)
Storing ==
  \A c \in Callers : pc[c] = "store" =>
    /\ True(result[c]) /\ result[c].ver <= source
    /\ lapsed \/ newest <= result[c].ver

(* What a call returns, decided before the deferred Del.                   *)
Returning ==
  \A c \in Callers : pc[c] \in {"release", "done"} /\ result[c] # Error =>
    True(result[c]) /\ (lapsed \/ result[c].ver >= floor[c])

IInv == TypeOK /\ OneLeader /\ Locked /\ Stored /\ Storing /\ Returning

-----------------------------------------------------------------------------
(* Facts on the conversions.                                               *)

(* What fn computes has a version of the source and its true form.         *)
LEMMA ComputedTrue ==
  ASSUME source \in Versions
  PROVE  Computed \in Values /\ True(Computed) /\ Computed.ver = source
         /\ Computed # Error
BY Zenon DEF Computed, True, Values, FormOf, Error, Versions

(* fromStore undoes what GetOrSet does to an empty result before Set, so   *)
(* a value comes out of Redis as fn returned it.                           *)
LEMMA RoundTrip ==
  ASSUME NEW v, True(v), NEW nil \in BOOLEAN
  PROVE  /\ ToStore(v, nil) \in Values
         /\ ToStore(v, nil).ver = v.ver
         /\ FromStore(ToStore(v, nil)) = v
         /\ ToStore(v, nil) # Miss
BY DEF True, ToStore, FromStore, Values, FormOf, Miss, Versions

(* fromStore keeps the version.                                            *)
LEMMA FromStoreType ==
  ASSUME NEW v \in Values
  PROVE  FromStore(v) \in Values /\ FromStore(v).ver = v.ver /\ FromStore(v) # Error
BY DEF FromStore, Values, Error, Versions
-----------------------------------------------------------------------------
(* Every step of GetOrSet and of its environment keeps the types.          *)
LEMMA TypeStep ==
  ASSUME TypeOK, Storing, Next
  PROVE  TypeOK'
<1> USE CacheAssumption DEF TypeOK, Fault, Move, given, Versions
<1> DEFINE Type == Values \cup {Error}
<1>1. ASSUME NEW c \in Callers, NEW p \in Places, Move(c, p)
      PROVE  pc' \in [Callers -> Places]
  BY <1>1, Zenon
<1>2. ASSUME NEW c \in Callers, NEW v \in Type,
             result' = [result EXCEPT ![c] = v]
      PROVE  result' \in [Callers -> Type]
  BY <1>2, Zenon
<1>3. /\ Error \in Type
      /\ key # Miss => FromStore(key) \in Type
      /\ Computed \in Type
      /\ {"get", "lock", "check", "fn", "store", "release", "spin", "fallback",
          "done", "crashed"} \subseteq Places
  BY FromStoreType, ComputedTrue, Zenon DEF Places, Section
<1> USE DEF Returns
<1>4. ASSUME NEW c \in Callers, NEW nil \in BOOLEAN, Call(c, nil)
      PROVE  TypeOK'
  BY <1>1, <1>3, <1>4 DEF Call, Values
<1>5. ASSUME NEW c \in Callers, FirstGet(c)
      PROVE  TypeOK'
  BY <1>1, <1>2, <1>3, <1>5 DEF FirstGet
<1>6. ASSUME NEW c \in Callers, Lock(c)
      PROVE  TypeOK'
  <2>1. lock' \in BOOLEAN
    BY <1>6, Zenon DEF Lock
  <2> QED
    BY <1>1, <1>2, <1>3, <1>6, <2>1 DEF Lock, Holders
<1>7. ASSUME NEW c \in Callers, DoubleCheck(c)
      PROVE  TypeOK'
  BY <1>1, <1>2, <1>3, <1>7 DEF DoubleCheck, Check
<1>8. ASSUME NEW c \in Callers, Compute(c)
      PROVE  TypeOK'
  BY <1>1, <1>2, <1>3, <1>8 DEF Compute, AfterFnError
<1>9. ASSUME NEW c \in Callers, Store(c)
      PROVE  TypeOK'
  <2>1. /\ ToStore(result[c], cacheNil[c]) \in Values
        /\ result[c].ver \in 0..MaxWrites
    BY <1>9, RoundTrip, Zenon DEF Store, Storing, True, Values
  <2> QED
    BY <1>1, <1>2, <1>3, <1>9, <2>1 DEF Store, StoreKey
<1>10. ASSUME NEW c \in Callers, Release(c)
       PROVE  TypeOK'
  <2>1. lock' \in BOOLEAN
    BY <1>10, Zenon DEF Release
  <2> QED
    BY <1>1, <1>3, <1>10, <2>1 DEF Release
<1>11. ASSUME NEW c \in Callers, Spin(c) \/ SpinCancelled(c)
       PROVE  TypeOK'
  <2>1. slow' \in BOOLEAN
    BY <1>11, Zenon DEF Spin, SpinCancelled, Deadline
  <2> QED
    BY <1>1, <1>2, <1>3, <1>11, <2>1 DEF Spin, SpinCancelled
<1>12. ASSUME NEW c \in Callers, Fallback(c)
       PROVE  TypeOK'
  BY <1>1, <1>2, <1>3, <1>12 DEF Fallback, FallbackReturns
<1>13. ASSUME NEW c \in Callers, Crash(c)
       PROVE  TypeOK'
  BY <1>1, <1>3, <1>13 DEF Crash
<1>14. CASE Write
  BY <1>14 DEF Write
<1>15. CASE KeyExpires
  BY <1>15 DEF KeyExpires
<1>16. CASE LockExpires
  <2>1. lock' \in BOOLEAN /\ lapsed' \in BOOLEAN
    BY <1>16, Zenon DEF LockExpires
  <2> QED
    BY <1>16, <2>1, Zenon DEF LockExpires
<1> QED
  BY <1>4, <1>5, <1>6, <1>7, <1>8, <1>9, <1>10, <1>11, <1>12, <1>13, <1>14,
     <1>15, <1>16, Zenon DEF Next, CallStep
-----------------------------------------------------------------------------
(* Once a lock has lapsed under its holder, this is not forgotten.         *)
LEMMA LapsedStays == Next => (lapsed => lapsed')
<1>1. ASSUME NEW c \in Callers,
             \/ \E nil \in BOOLEAN : Call(c, nil)
             \/ CallStep(c) \/ SpinCancelled(c) \/ Crash(c)
      PROVE  UNCHANGED lapsed
  BY <1>1, Zenon DEF Call, CallStep, FirstGet, Lock, DoubleCheck, Compute, Store, Release,
     Spin, SpinCancelled, Fallback, Crash, given
<1>2. Write \/ KeyExpires => UNCHANGED lapsed
  BY Zenon DEF Write, KeyExpires
<1>3. LockExpires /\ lapsed => lapsed'
  BY Zenon DEF LockExpires
<1> QED
  BY <1>1, <1>2, <1>3, Zenon DEF Next

(* SetNX lets a caller in only when nobody holds the lock, and the lock    *)
(* goes only with its holder, so the section stays exclusive.              *)
LEMMA LeaderStep ==
  ASSUME TypeOK, OneLeader, Locked, Next, ~lapsed'
  PROVE  OneLeader' /\ Locked'
<1>0. ~lapsed
  BY LapsedStays, Zenon
<1> USE DEF TypeOK, OneLeader, Locked, Move, Returns, Section
<1>1. ASSUME NEW c \in Callers,
             \/ \E nil \in BOOLEAN : Call(c, nil)
             \/ FirstGet(c) \/ Spin(c) \/ SpinCancelled(c) \/ Fallback(c)
             \/ Crash(c)
      PROVE  OneLeader' /\ Locked'
  <2>1. PICK p \in {"get", "lock", "spin", "fallback", "done", "crashed"} :
          pc' = [pc EXCEPT ![c] = p]
    BY <1>1, Zenon DEF Call, FirstGet, Spin, SpinCancelled, Fallback, FallbackReturns, Crash
  <2>2. UNCHANGED lock
    BY <1>1, Zenon DEF Call, FirstGet, Spin, SpinCancelled, Fallback, Crash
  <2> QED
    BY <1>0, <2>1, <2>2, Zenon
<1>2. ASSUME NEW c \in Callers, Lock(c)
      PROVE  OneLeader' /\ Locked'
  <2>1. CASE LockFree /\ lock' = TRUE /\ Move(c, "check")
    BY <1>0, <2>1, Zenon DEF LockFree
  <2>2. CASE /\ lock' = TRUE \/ UNCHANGED lock
             /\ Move(c, "spin") \/ Move(c, "done")
    BY <1>0, <2>2
  <2> QED
    BY <1>2, <2>1, <2>2, Zenon DEF Lock
<1>3. ASSUME NEW c \in Callers, DoubleCheck(c) \/ Compute(c) \/ Store(c)
      PROVE  OneLeader' /\ Locked'
  <2>1. PICK p \in Section : pc[c] \in Section /\ pc' = [pc EXCEPT ![c] = p]
    BY <1>3, Zenon DEF DoubleCheck, Check, Compute, AfterFnError, Store
  <2>2. UNCHANGED lock
    BY <1>3, Zenon DEF DoubleCheck, Compute, Store
  <2> QED
    BY <1>0, <2>1, <2>2, Zenon
<1>4. ASSUME NEW c \in Callers, Release(c)
      PROVE  OneLeader' /\ Locked'
  BY <1>0, <1>4, Zenon DEF Release
<1>5. CASE Write \/ KeyExpires
  BY <1>0, <1>5, Zenon DEF Write, KeyExpires
<1>6. CASE LockExpires
  <2>1. Holders = {}
    BY <1>6, Zenon DEF LockExpires
  <2> QED
    BY <1>6, <2>1, Zenon DEF LockExpires, Holders
<1> QED
  BY <1>1, <1>2, <1>3, <1>4, <1>5, <1>6, Zenon DEF Next, CallStep

(* Only Store changes what is stored, and it stores what it computed in    *)
(* the section: nothing older.                                             *)
LEMMA StoredStep ==
  ASSUME TypeOK, Stored, Storing, Next
  PROVE  Stored' /\ (lapsed \/ newest' >= newest)
<1>0. lapsed => lapsed'
  BY LapsedStays, Zenon
<1> USE <1>0 DEF TypeOK, Stored, Versions
<1>1. ASSUME NEW c \in Callers, NEW nil \in BOOLEAN, Call(c, nil)
      PROVE  Stored' /\ (lapsed \/ newest' >= newest)
  BY <1>1 DEF Call, Values
<1>2. ASSUME NEW c \in Callers, Store(c)
      PROVE  Stored' /\ (lapsed \/ newest' >= newest)
  <2>1. /\ True(result[c]) /\ result[c].ver <= source
        /\ lapsed \/ newest <= result[c].ver
        /\ result[c].ver \in Nat
    BY <1>2 DEF Store, Storing, True, Values
  <2>2. CASE StoreKey(c)
    <3>1. /\ key'.ver = newest' /\ FromStore(key') = result[c]
          /\ newest' = result[c].ver
      BY <2>1, <2>2, RoundTrip, Zenon DEF StoreKey
    <3> QED
      BY <1>2, <2>1, <3>1 DEF Store, given, True, FromStore
  <2>3. CASE UNCHANGED <<key, newest>>
    BY <1>2, <2>3 DEF Store, given, True, FromStore
  <2> QED
    BY <1>2, <2>2, <2>3, Zenon DEF Store
<1>3. CASE Write
  BY <1>3 DEF Write, True, FromStore
<1>4. CASE KeyExpires
  BY <1>4 DEF KeyExpires
<1>5. CASE UNCHANGED <<source, floor, key, newest>>
  BY <1>5 DEF True, FromStore
<1>6. ASSUME NEW c \in Callers,
             \/ FirstGet(c) \/ Lock(c) \/ DoubleCheck(c) \/ Compute(c)
             \/ Release(c) \/ Spin(c) \/ SpinCancelled(c) \/ Fallback(c)
             \/ Crash(c)
      PROVE  UNCHANGED <<source, floor, key, newest>>
  BY <1>6, Zenon DEF FirstGet, Lock, DoubleCheck, Compute, Release, Spin, SpinCancelled,
              Fallback, FallbackReturns, Crash, given
<1>7. LockExpires => UNCHANGED <<source, floor, key, newest>>
  BY Zenon DEF LockExpires, given
<1> QED
  BY <1>1, <1>2, <1>3, <1>4, <1>5, <1>6, <1>7, Zenon DEF Next, CallStep
-----------------------------------------------------------------------------
(* What c will store or return, of what it has computed or read so far.    *)
Promise(c) ==
  /\ pc[c] = "store" =>
       /\ True(result[c]) /\ result[c].ver <= source
       /\ lapsed \/ newest <= result[c].ver
  /\ pc[c] \in {"release", "done"} /\ result[c] # Error =>
       True(result[c]) /\ (lapsed \/ result[c].ver >= floor[c])

(* The promises of all calls are the two invariants about them.            *)
LEMMA PromiseDef == Storing /\ Returning <=> \A c \in Callers : Promise(c)
BY Zenon DEF Storing, Returning, Promise

(* A call that a step leaves alone keeps its promise.                      *)
LEMMA PromiseKept ==
  ASSUME TypeOK, NEW d \in Callers, Promise(d),
         UNCHANGED <<pc[d], result[d], floor[d]>>,
         source' \in Nat, source' >= source,
         lapsed => lapsed',
         pc[d] = "store" => lapsed' \/ UNCHANGED newest
  PROVE  Promise(d)'
<1>1. pc[d] = "store" => result[d].ver \in Nat
  BY DEF Promise, True, Values, Versions
<1> QED
  BY <1>1 DEF Promise, True, TypeOK, Versions

(* A call returns what it reads from the cache or what fn computes, and    *)
(* both are at least as new as what the cache held when the call began.    *)
LEMMA PromiseStep ==
  ASSUME TypeOK, OneLeader, Stored, Storing, Returning, Next, TypeOK'
  PROVE  Storing' /\ Returning'
<1>0. \A c \in Callers : Promise(c)
  BY PromiseDef, Zenon
<1>l. lapsed => lapsed'
  BY LapsedStays, Zenon
<1>a. /\ source \in Nat /\ newest \in Nat /\ newest <= source
      /\ \A c \in Callers : floor[c] \in Nat /\ (lapsed \/ floor[c] <= newest)
  BY DEF TypeOK, Stored, Versions
<1>h. key # Miss => True(FromStore(key)) /\ FromStore(key).ver = newest
  BY FromStoreType, Zenon DEF TypeOK, Stored
<1>c. True(Computed) /\ Computed.ver = source
  BY ComputedTrue, Zenon DEF TypeOK
<1>e. \A c \in Callers : pc[c] \in Places /\ pc \in [Callers -> Places]
                         /\ result \in [Callers -> Values \cup {Error}]
                         /\ floor \in [Callers -> Versions]
  BY Zenon DEF TypeOK
<1>k. ASSUME NEW c \in Callers, NEW d \in Callers, d # c,
             \/ \E nil \in BOOLEAN : Call(c, nil)
             \/ CallStep(c) \/ SpinCancelled(c) \/ Crash(c)
      PROVE  Promise(d)'
  <2>1. UNCHANGED <<pc[d], result[d], floor[d], source>>
    BY <1>k, <1>e, Zenon DEF Call, CallStep, FirstGet, Lock, DoubleCheck, Check, Compute,
         Store, Release, Spin, SpinCancelled, Fallback, FallbackReturns, Crash,
         given, Move, Returns
  <2>2. pc[d] = "store" => lapsed' \/ UNCHANGED newest
    <3>1. CASE Store(c)
      BY <1>k, <1>l, <3>1, Zenon DEF Store, OneLeader, Section
    <3>2. CASE ~Store(c)
      BY <1>k, <3>2, Zenon DEF Call, CallStep, FirstGet, Lock, DoubleCheck, Compute,
           Release, Spin, SpinCancelled, Fallback, FallbackReturns, Crash
    <3> QED
      BY <3>1, <3>2, Zenon
  <2> QED
    BY <1>0, <1>a, <1>l, <2>1, <2>2, PromiseKept
<1>1. ASSUME NEW c \in Callers, FirstGet(c) \/ Spin(c) \/ SpinCancelled(c)
      PROVE  Promise(c)'
  BY <1>1, <1>l, <1>a, <1>h, <1>e, Zenon DEF FirstGet, Spin, SpinCancelled, Move, Returns,
     Promise, True, given
<1>2. ASSUME NEW c \in Callers, DoubleCheck(c)
      PROVE  Promise(c)'
  BY <1>2, <1>l, <1>a, <1>h, <1>e, Zenon DEF DoubleCheck, Check, Move, Promise, True, given
<1>3. ASSUME NEW c \in Callers, Compute(c) \/ Fallback(c)
      PROVE  Promise(c)'
  BY <1>3, <1>l, <1>a, <1>c, <1>e DEF Compute, AfterFnError, Fallback, FallbackReturns,
     Move, Returns, Promise, True, given
<1>4. ASSUME NEW c \in Callers, Store(c) \/ Release(c)
      PROVE  Promise(c)'
  <2>1. result[c] # Error => result[c].ver \in Int
    BY <1>e DEF Values, Versions
  <2> QED
    BY <1>4, <1>l, <1>0, <1>a, <1>e, <2>1 DEF Store, StoreKey, Release, Move, Promise,
       True, given
<1>5. ASSUME NEW c \in Callers,
             \/ \E nil \in BOOLEAN : Call(c, nil)
             \/ Lock(c) \/ Crash(c)
      PROVE  Promise(c)'
  BY <1>5, <1>e, Zenon DEF Call, Lock, Crash, Move, Returns, Promise
<1>6. ASSUME Write \/ KeyExpires \/ LockExpires, NEW d \in Callers
      PROVE  Promise(d)'
  <2>1. /\ UNCHANGED <<pc[d], result[d], floor[d], newest>>
        /\ source' \in Nat /\ source' >= source
    BY <1>6, <1>a DEF Write, KeyExpires, LockExpires, given
  <2> QED
    BY <1>0, <1>l, <2>1, PromiseKept, Zenon
<1>7. \A c \in Callers : Promise(c)'
  BY <1>k, <1>1, <1>2, <1>3, <1>4, <1>5, <1>6, Zenon DEF Next, CallStep
<1> QED
  BY <1>7, Zenon DEF Storing, Returning, Promise
-----------------------------------------------------------------------------
(* The strengthened invariant holds in every state of GetOrSet.            *)
THEOREM Invariance == Spec => []IInv
<1>1. Init => IInv
  <2>1. Init => TypeOK
    <3> SUFFICES ASSUME Init PROVE TypeOK
      OBVIOUS
    <3>1. /\ lock \in BOOLEAN /\ lapsed \in BOOLEAN /\ slow \in BOOLEAN
          /\ cacheNil \in [Callers -> BOOLEAN]
      BY Zenon DEF Init
    <3> QED
      BY <3>1, CacheAssumption DEF Init, TypeOK, Versions, Places
  <2> QED
    BY <2>1 DEF Init, IInv, TypeOK, OneLeader, Locked, Stored, Storing, Returning,
                Section, Versions
<1>2. IInv /\ [Next]_vars => IInv'
  <2>1. IInv /\ Next => IInv'
    BY TypeStep, LeaderStep, StoredStep, PromiseStep, Zenon DEF IInv, OneLeader, Locked
  <2>2. IInv /\ UNCHANGED vars => IInv'
    BY DEF IInv, vars, TypeOK, OneLeader, Locked, Stored, Storing, Returning,
           True, FromStore
  <2> QED
    BY <2>1, <2>2, Zenon
<1> QED
  BY <1>1, <1>2, PTL DEF Spec

(* Two callers are never in the section at once: SetNX and the deferred    *)
(* Del make a lock of the key, for any number of callers.                  *)
THEOREM LeaderIsAlone == Spec => []OneLeader
<1>1. IInv => OneLeader
  BY Zenon DEF IInv
<1> QED
  BY <1>1, Invariance, PTL

(* The cached value is never replaced by an older one.                     *)
THEOREM NeverOlder == Spec => NeverStoresOlder
<1>1. IInv /\ [Next]_vars => [lapsed \/ newest' >= newest]_vars
  BY StoredStep, Zenon DEF IInv
<1> QED
  BY <1>1, Invariance, PTL DEF Spec, NeverStoresOlder

(* A call returns what fn computed, in the form it computed it, and        *)
(* nothing older than what the cache held when the call began.             *)
THEOREM TrueReturns == Spec => []ReturnsAreTrue
<1>1. IInv => ReturnsAreTrue
  BY Zenon DEF IInv, Returning, ReturnsAreTrue, True
<1> QED
  BY <1>1, Invariance, PTL

(* Versions, results, the lock and the history of a call keep their types. *)
THEOREM TypeCorrect == Spec => []TypeOK
<1>1. IInv => TypeOK
  BY Zenon DEF IInv
<1> QED
  BY <1>1, Invariance, PTL
-----------------------------------------------------------------------------
(* One call of fn.                                                         *)

(* What FnOnce is conditional on.                                          *)
Undisturbed == expiries = 0 /\ faults = 0 /\ ~lapsed /\ ~slow

(* fn has not run, or its result is stored or about to be; who is in the   *)
(* section and past the double-check knows which.  A lock has a holder,    *)
(* and a holder leaves only once the key is there, so who waits for one    *)
(* finds the key, and nobody falls back.                                   *)
Serves(c) ==
  /\ pc[c] = "fn" => fnCalls = 0
  /\ pc[c] = "release" => key # Miss
  /\ pc[c] = "spin" => key # Miss \/ awaited[c] \cap Holders # {}
  /\ pc[c] # "fallback"

Once ==
  Undisturbed =>
    /\ fnCalls = 0 \/ (fnCalls = 1 /\ (key # Miss \/ \E c \in Callers : pc[c] = "store"))
    /\ lock => Holders # {}
    /\ \A c \in Callers : Serves(c)

(* A disturbance is never undone.                                          *)
LEMMA DisturbedStays ==
  ASSUME TypeOK, Next, Undisturbed'
  PROVE  Undisturbed /\ faults' = faults /\ expiries' = expiries
<1>0. ~lapsed
  BY LapsedStays, Zenon DEF Undisturbed
<1> USE CacheAssumption DEF TypeOK, Undisturbed
<1>1. ASSUME NEW c \in Callers,
             \/ \E nil \in BOOLEAN : Call(c, nil)
             \/ CallStep(c) \/ SpinCancelled(c) \/ Crash(c)
      PROVE  /\ expiries' = expiries /\ faults \in {faults', faults' - 1}
             /\ slow => slow'
  <2>1. expiries' = expiries /\ faults \in {faults', faults' - 1}
    BY <1>1, SMTT(20) DEF Call, CallStep, FirstGet, Lock, DoubleCheck, Check, Compute,
         Store, Release, Spin, SpinCancelled, Fallback, Crash, Fault, given
  <2>2. slow => slow'
    <3>1. CASE Spin(c)
      BY <3>1, Zenon DEF Spin, Deadline
    <3>2. CASE ~Spin(c)
      BY <1>1, <3>2, Zenon DEF Call, CallStep, FirstGet, Lock, DoubleCheck, Compute, Store,
           Release, SpinCancelled, Fallback, Crash
    <3> QED
      BY <3>1, <3>2, Zenon
  <2> QED
    BY <2>1, <2>2, Zenon
<1>2. CASE Write \/ KeyExpires \/ LockExpires
  BY <1>0, <1>2 DEF Write, KeyExpires, LockExpires
<1>3. CASE \E c \in Callers :
             \/ \E nil \in BOOLEAN : Call(c, nil)
             \/ CallStep(c) \/ SpinCancelled(c) \/ Crash(c)
  BY <1>0, <1>1, <1>3
<1> QED
  BY <1>2, <1>3, Zenon DEF Next

(* Every undisturbed step keeps fn to one call.                            *)
LEMMA OnceStep ==
  ASSUME IInv, Once, Next, Undisturbed'
  PROVE  Once'
<1>0. Undisturbed /\ faults' = faults /\ expiries' = expiries /\ ~slow'
  BY DisturbedStays, Zenon DEF IInv, Undisturbed
<1>1. /\ fnCalls = 0 \/ (fnCalls = 1 /\ (key # Miss \/ \E c \in Callers : pc[c] = "store"))
      /\ lock => Holders # {}
      /\ \A c \in Callers : Serves(c)
  BY <1>0, Zenon DEF Once
<1>2. /\ pc \in [Callers -> Places] /\ awaited \in [Callers -> SUBSET Callers]
      /\ faults \in Nat /\ expiries \in Nat
  BY CacheAssumption DEF IInv, TypeOK
<1>3. ~Fault
  BY <1>0, <1>2 DEF Fault
<1>4. \A c, d \in Callers : pc[c] \in Section /\ pc[d] \in Section => c = d
  BY <1>0, Zenon DEF IInv, OneLeader, Undisturbed
<1> USE DEF Holders, Section, Move, Returns, given
<1>5. ASSUME NEW c \in Callers, NEW nil \in BOOLEAN, Call(c, nil)
      PROVE  Once'
  BY <1>1, <1>2, <1>5, Zenon DEF Call, Once, Serves
<1>6. ASSUME NEW c \in Callers, FirstGet(c)
      PROVE  Once'
  BY <1>1, <1>2, <1>3, <1>6 DEF FirstGet, Once, Serves
<1>7. ASSUME NEW c \in Callers, Lock(c)
      PROVE  Once'
  BY <1>1, <1>2, <1>3, <1>7 DEF Lock, LockFree, Once, Serves
<1>8. ASSUME NEW c \in Callers, DoubleCheck(c)
      PROVE  Once'
  BY <1>1, <1>2, <1>3, <1>4, <1>8 DEF DoubleCheck, Check, Once, Serves
<1>9. ASSUME NEW c \in Callers, Compute(c)
      PROVE  Once'
  BY <1>1, <1>2, <1>3, <1>4, <1>9 DEF Compute, Once, Serves
<1>10. ASSUME NEW c \in Callers, Store(c)
      PROVE  Once'
  <2>1. key' # Miss
    BY <1>3, <1>10, RoundTrip, Zenon DEF Store, StoreKey, IInv, Storing, TypeOK
  <2> QED
    BY <1>1, <1>2, <1>4, <1>10, <2>1, Zenon DEF Store, Once, Serves
<1>11. ASSUME NEW c \in Callers, Release(c)
      PROVE  Once'
  BY <1>1, <1>2, <1>3, <1>4, <1>11, Zenon DEF Release, Once, Serves
<1>12. ASSUME NEW c \in Callers, Spin(c) \/ SpinCancelled(c) \/ Fallback(c) \/ Crash(c)
      PROVE  Once'
  <2>1. ~SpinCancelled(c) /\ ~Crash(c) /\ ~Fallback(c)
    BY <1>1, <1>3, Zenon DEF SpinCancelled, Crash, Fallback, Serves
  <2>2. key # Miss
    BY <1>0, <1>1, <1>12, <2>1, Zenon DEF Spin, Deadline, Serves
  <2> QED
    BY <1>1, <1>2, <1>3, <1>12, <2>1, <2>2, Zenon DEF Spin, Once, Serves
<1>13. CASE Write
  BY <1>1, <1>13, Zenon DEF Write, Once, Serves
<1>14. CASE KeyExpires
  BY <1>0, <1>2, <1>14 DEF KeyExpires
<1>15. CASE LockExpires
  BY <1>1, <1>15, Zenon DEF LockExpires, Once, Serves
<1> QED
  BY <1>5, <1>6, <1>7, <1>8, <1>9, <1>10, <1>11, <1>12, <1>13, <1>14, <1>15, Zenon
  DEF Next, CallStep

(* One call of fn serves all callers, however many there are and however   *)
(* they interleave, as long as the key and the lock live, nothing fails    *)
(* and no spin-wait ends early.                                            *)
THEOREM OneCallOfFn == Spec => []FnOnce
<1>1. Init => Once
  BY Zenon DEF Init, Once, Serves
<1>2. IInv /\ Once /\ [Next]_vars => Once'
  <2>1. ~Undisturbed' => Once'
    BY Zenon DEF Once
  <2>2. Once /\ UNCHANGED vars => Once'
    BY DEF vars, Once, Serves, Undisturbed, Holders
  <2> QED
    BY OnceStep, <2>1, <2>2, Zenon
<1>3. Once => FnOnce
  BY DEF Once, FnOnce, Undisturbed
<1> QED
  BY Invariance, <1>1, <1>2, <1>3, PTL DEF Spec
=============================================================================
