-------------------------- MODULE OAuthLoginProofs --------------------------
(***************************************************************************)
(* The oauth2 manager for any number of logins and of requests.            *)
(***************************************************************************)
EXTENDS OAuthLogin, TLAPS

(* A saved state is that of a login, with the time its URL gave it.        *)
SavedByLogin ==
  \A l \in Logins : data[l] # Absent =>
    issuedAt[l] # Absent /\ data[l] = issuedAt[l] + StateTimeout

(* A request that retrieved a state did so in its time, and has reached    *)
(* the steps that follow; and only such a request has.                     *)
Inside == {"exchange", "handler", "delete"}
Retrieved ==
  \A r \in Requests :
    /\ retrieved[r] # Absent =>
         /\ asked[r].state \in Logins /\ issuedAt[asked[r].state] # Absent
         /\ retrieved[r] <= issuedAt[asked[r].state] + StateTimeout
         /\ pc[r] \in Inside \cup {"done"}
    /\ pc[r] \in Inside => retrieved[r] # Absent

(* The code of a request that passed the nonce check is that of its login. *)
Checked ==
  \A r \in Requests :
    /\ pc[r] = "handler" \/ r \in sessions => asked[r].state = asked[r].code
    /\ r \in sessions => pc[r] \in {"delete", "done"}

IInv == TypeOK /\ SavedByLogin /\ Retrieved /\ Checked /\ UsedIsGone

-----------------------------------------------------------------------------
(* Every step keeps the types.                                             *)
LEMMA TypeStep ==
  ASSUME TypeOK, Next
  PROVE  TypeOK'
<1> USE OAuthAssumption DEF TypeOK, Times, storeVars, requestVars, Absent
<1>m. ASSUME NEW r \in Requests, NEW p \in Places, Move(r, p)
      PROVE  pc' \in [Requests -> Places]
  BY <1>m, Zenon DEF Move
<1>a. ASSUME NEW r \in Requests, NEW status \in Statuses, Answer(r, status)
      PROVE  answer' \in [Requests -> Statuses]
  BY <1>a, Zenon DEF Answer
<1>p. /\ Places = {"idle", "provider", "state", "exchange", "handler", "delete", "done"}
      /\ Statuses = {0, 200, 400, 401, 500}
  BY Zenon DEF Places, Statuses
<1>1. CASE removeExpired
  BY <1>1, Zenon DEF removeExpired, RemovesExpired
<1>2. CASE RoutineReturns
  <2>1. routine' \in BOOLEAN
    BY <1>2, Zenon DEF RoutineReturns
  <2> QED
    BY <1>2, <2>1, Zenon DEF RoutineReturns
<1>3. CASE Cleanup
  <2>1. done' \in BOOLEAN
    BY <1>3, Zenon DEF Cleanup
  <2> QED
    BY <1>3, <2>1, Zenon DEF Cleanup
<1>4. CASE RegisterProvider
  <2>1. registered' \in BOOLEAN
    BY <1>4, Zenon DEF RegisterProvider
  <2> QED
    BY <1>4, <2>1, Zenon DEF RegisterProvider
<1>5. CASE Tick
  BY <1>5 DEF Tick
<1>6. ASSUME NEW l \in Logins, GetAuthURL(l)
      PROVE  TypeOK'
  BY <1>6 DEF GetAuthURL, SaveState, ExpiresAt
<1>7. ASSUME NEW r \in Requests, NEW s \in Logins \cup {Unknown},
             NEW c \in Logins \cup {Unknown}, Request(r, s, c)
      PROVE  TypeOK'
  <2>1. asked' \in [Requests -> [state : Logins \cup {Unknown},
                                 code : Logins \cup {Unknown}]]
    BY <1>7, Zenon DEF Request
  <2>2. pc' \in [Requests -> Places] /\ answer' \in [Requests -> Statuses]
    BY <1>7, <1>m, <1>a, <1>p DEF Request
  <2> QED
    BY <1>7, <2>1, <2>2, Zenon DEF Request
<1>8. ASSUME NEW r \in Requests, FindProvider(r)
      PROVE  TypeOK'
  <2>1. pc' \in [Requests -> Places] /\ answer' \in [Requests -> Statuses]
    BY <1>8, <1>m, <1>a, <1>p DEF FindProvider
  <2> QED
    BY <1>8, <2>1, Zenon DEF FindProvider
<1>9. ASSUME NEW r \in Requests, GetStateData(r)
      PROVE  TypeOK'
  <2>1. pc' \in [Requests -> Places] /\ answer' \in [Requests -> Statuses]
    BY <1>9, <1>m, <1>a, <1>p DEF GetStateData
  <2>2. retrieved' \in [Requests -> {Absent} \cup Times]
    BY <1>9, Zenon DEF GetStateData
  <2>3. data' \in [Logins -> {Absent} \cup Nat]
    BY <1>9, Zenon DEF GetStateData, DeleteState
  <2> QED
    BY <1>9, <2>1, <2>2, <2>3, Zenon DEF GetStateData
<1>10. ASSUME NEW r \in Requests, ProviderHandleCallback(r)
       PROVE  TypeOK'
  <2>1. pc' \in [Requests -> Places] /\ answer' \in [Requests -> Statuses]
    BY <1>10, <1>m, <1>a, <1>p DEF ProviderHandleCallback, AfterFailure
  <2> QED
    BY <1>10, <2>1 DEF ProviderHandleCallback
<1>11. ASSUME NEW r \in Requests, CallbackHandler(r)
       PROVE  TypeOK'
  <2>1. pc' \in [Requests -> Places] /\ answer' \in [Requests -> Statuses]
    BY <1>11, <1>m, <1>a, <1>p DEF CallbackHandler, AfterFailure
  <2> QED
    BY <1>11, <2>1 DEF CallbackHandler
<1>12. ASSUME NEW r \in Requests, DeferredDelete(r)
       PROVE  TypeOK'
  BY <1>12, <1>m, <1>p DEF DeferredDelete, DeleteState
<1> QED
  BY <1>1, <1>2, <1>3, <1>4, <1>5, <1>6, <1>7, <1>8, <1>9, <1>10, <1>11, <1>12, Zenon
     DEF Next

(* What the invariant says of request r alone.                             *)
Known(r) ==
  /\ retrieved[r] # Absent =>
       /\ asked[r].state \in Logins /\ issuedAt[asked[r].state] # Absent
       /\ retrieved[r] <= issuedAt[asked[r].state] + StateTimeout
       /\ pc[r] \in Inside \cup {"done"}
       /\ pc[r] = "done" => data[asked[r].state] = Absent
  /\ pc[r] \in Inside => retrieved[r] # Absent
  /\ pc[r] = "handler" \/ r \in sessions => asked[r].state = asked[r].code
  /\ r \in sessions => pc[r] \in {"delete", "done"}

(* The invariants about requests are those of each request together.       *)
LEMMA KnownDef ==
  Retrieved /\ Checked /\ UsedIsGone <=> \A r \in Requests : Known(r)
BY Zenon DEF Retrieved, Checked, UsedIsGone, Known

(* Request r takes a step that saves no state: the other requests keep     *)
(* what is known of them.                                                  *)
LEMMA OthersAlone ==
  ASSUME NEW q \in Requests, Known(q),
         UNCHANGED <<pc[q], asked[q], retrieved[q], q \in sessions, issuedAt>>,
         \A l \in Logins : data[l] = Absent => data'[l] = Absent
  PROVE  Known(q)'
BY Zenon DEF Known

(* One step of a request: what it learns, it learns from the step before.  *)
LEMMA RequestStep ==
  ASSUME IInv, NEW r \in Requests,
         \/ \E s, c \in Logins \cup {Unknown} : Request(r, s, c)
         \/ FindProvider(r) \/ GetStateData(r) \/ ProviderHandleCallback(r)
         \/ CallbackHandler(r) \/ DeferredDelete(r)
  PROVE  SavedByLogin' /\ Retrieved' /\ Checked' /\ UsedIsGone'
<1>t. /\ pc \in [Requests -> Places] /\ retrieved \in [Requests -> {Absent} \cup Times]
      /\ asked \in [Requests -> [state : Logins \cup {Unknown},
                                 code : Logins \cup {Unknown}]]
      /\ data \in [Logins -> {Absent} \cup Nat] /\ now \in Times
      /\ sessions \subseteq Requests
  BY Zenon DEF IInv, TypeOK
<1>k. \A q \in Requests : Known(q)
  BY KnownDef, Zenon DEF IInv
<1>s. SavedByLogin
  BY Zenon DEF IInv
<1>0. UNCHANGED issuedAt
  BY Zenon DEF Request, FindProvider, GetStateData, ProviderHandleCallback,
         CallbackHandler, DeferredDelete
<1>1. \A l \in Logins : data'[l] = data[l] \/ data'[l] = Absent
  BY <1>t, Zenon DEF Request, FindProvider, GetStateData, ProviderHandleCallback,
              CallbackHandler, DeferredDelete, DeleteState, storeVars
<1>2. SavedByLogin'
  BY <1>0, <1>1, <1>s, Zenon DEF SavedByLogin
<1>3. ASSUME NEW q \in Requests, q # r
      PROVE  Known(q)'
  <2>1. UNCHANGED <<pc[q], asked[q], retrieved[q], q \in sessions>>
    BY <1>3, <1>t DEF Request, FindProvider, GetStateData, ProviderHandleCallback,
         CallbackHandler, DeferredDelete, Move
  <2> QED
    BY <1>0, <1>1, <1>k, <2>1, OthersAlone, Zenon
<1>4. ASSUME NEW s \in Logins \cup {Unknown}, NEW c \in Logins \cup {Unknown},
             Request(r, s, c)
      PROVE  Known(r)'
  BY <1>4, <1>t, <1>k, Zenon DEF Request, Known, Move, Inside
<1>5. ASSUME FindProvider(r) PROVE Known(r)'
  BY <1>5, <1>t, <1>k, Zenon DEF FindProvider, Known, Move, Inside
<1>6. ASSUME GetStateData(r) PROVE Known(r)'
  BY <1>6, <1>t, <1>k, <1>s, OAuthAssumption DEF GetStateData, Known, Move, Inside,
     SavedByLogin, Expired, Absent, Times
<1>7. ASSUME ProviderHandleCallback(r) PROVE Known(r)'
  BY <1>7, <1>t, <1>k, Zenon DEF ProviderHandleCallback, AfterFailure, NonceMatches, Known,
     Move, Inside, storeVars
<1>8. ASSUME CallbackHandler(r) PROVE Known(r)'
  BY <1>8, <1>t, <1>k, Zenon DEF CallbackHandler, AfterFailure, Known, Move, Inside, storeVars
<1>9. ASSUME DeferredDelete(r) PROVE Known(r)'
  BY <1>9, <1>t, <1>k, Zenon DEF DeferredDelete, DeleteState, Known, Move, Inside
<1>10. \A q \in Requests : Known(q)'
  BY <1>3, <1>4, <1>5, <1>6, <1>7, <1>8, <1>9, Zenon
<1> QED
  BY <1>2, <1>10, Zenon DEF Retrieved, Checked, UsedIsGone, Known

(* The steps of the manager's other operations and of the clock.           *)
LEMMA OtherStep ==
  ASSUME IInv,
         \/ removeExpired \/ RoutineReturns \/ Cleanup \/ RegisterProvider \/ Tick
         \/ \E l \in Logins : GetAuthURL(l)
  PROVE  SavedByLogin' /\ Retrieved' /\ Checked' /\ UsedIsGone'
<1>t. /\ data \in [Logins -> {Absent} \cup Nat] /\ now \in Nat
      /\ issuedAt \in [Logins -> {Absent} \cup Times]
  BY DEF IInv, TypeOK, Times
<1>k. \A q \in Requests : Known(q)
  BY KnownDef, Zenon DEF IInv
<1>s. SavedByLogin
  BY Zenon DEF IInv
<1>1. CASE removeExpired \/ RoutineReturns \/ Cleanup \/ RegisterProvider \/ Tick
  <2>1. /\ UNCHANGED <<issuedAt, requestVars>>
        /\ \A l \in Logins : data'[l] = data[l] \/ data'[l] = Absent
    BY <1>1, <1>t, Zenon DEF removeExpired, RemovesExpired, RoutineReturns, Cleanup,
         RegisterProvider, Tick, storeVars
  <2>2. SavedByLogin'
    BY <1>s, <2>1, Zenon DEF SavedByLogin
  <2>3. \A q \in Requests : Known(q)'
    BY <1>k, <2>1, OthersAlone, Zenon DEF requestVars
  <2> QED
    BY <2>2, <2>3, Zenon DEF Retrieved, Checked, UsedIsGone, Known
<1>2. ASSUME NEW l \in Logins, GetAuthURL(l)
      PROVE  SavedByLogin' /\ Retrieved' /\ Checked' /\ UsedIsGone'
  <2>1. /\ issuedAt[l] = Absent /\ UNCHANGED requestVars
        /\ issuedAt' = [issuedAt EXCEPT ![l] = now]
        /\ data' = [data EXCEPT ![l] = now + StateTimeout]
    BY <1>2, Zenon DEF GetAuthURL, SaveState, ExpiresAt
  <2>2. SavedByLogin'
    BY <1>s, <1>t, <2>1 DEF SavedByLogin, Absent
  <2>3. ASSUME NEW q \in Requests
        PROVE  Known(q)'
    BY <1>k, <1>t, <2>1, Zenon DEF Known, requestVars
  <2> QED
    BY <2>2, <2>3, Zenon DEF Retrieved, Checked, UsedIsGone, Known
<1> QED
  BY <1>1, <1>2, Zenon

-----------------------------------------------------------------------------
(* The strengthened invariant holds in every state of the manager.         *)
THEOREM Invariance == Spec => []IInv
<1>1. Init => IInv
  <2> SUFFICES ASSUME Init PROVE IInv
    OBVIOUS
  <2>1. registered \in BOOLEAN /\ done \in BOOLEAN /\ routine \in BOOLEAN
    BY Zenon DEF Init
  <2>2. TypeOK
    BY <2>1, OAuthAssumption DEF Init, TypeOK, Times, Places, Statuses
  <2>3. SavedByLogin /\ Retrieved /\ Checked /\ UsedIsGone
    BY Zenon DEF Init, SavedByLogin, Retrieved, Checked, UsedIsGone, Inside
  <2> QED
    BY <2>2, <2>3, Zenon DEF IInv
<1>2. IInv /\ [Next]_vars => IInv'
  <2>1. IInv /\ Next => TypeOK'
    BY TypeStep, Zenon DEF IInv
  <2>2. IInv /\ Next => SavedByLogin' /\ Retrieved' /\ Checked' /\ UsedIsGone'
    BY RequestStep, OtherStep, Zenon DEF Next
  <2>3. IInv /\ UNCHANGED vars => IInv'
    BY Zenon DEF IInv, vars, storeVars, requestVars, TypeOK, SavedByLogin, Retrieved,
           Checked, UsedIsGone
  <2> QED
    BY <2>1, <2>2, <2>3, Zenon DEF IInv
<1> QED
  BY <1>1, <1>2, PTL DEF Spec

(* Every variable keeps its type: a state is retrieved at a time of the    *)
(* clock, and a request is answered with one of the handler's statuses.    *)
THEOREM TypeCorrect == Spec => []TypeOK
<1>1. IInv => TypeOK
  BY Zenon DEF IInv
<1> QED
  BY <1>1, Invariance, PTL

(* A session belongs to the login whose code and state made it, whether or *)
(* not the provider enforces PKCE.                                         *)
THEOREM Matching == Spec => []SessionsMatch
<1>1. IInv => SessionsMatch
  BY Zenon DEF IInv, TypeOK, Checked, SessionsMatch
<1> QED
  BY <1>1, Invariance, PTL

(* No state is retrieved after its time, with or without cleanupRoutine.   *)
THEOREM InTime == Spec => []RetrievedInTime
<1>1. IInv => RetrievedInTime
  BY Zenon DEF IInv, Retrieved, RetrievedInTime
<1> QED
  BY <1>1, Invariance, PTL

(* A state is gone once a request that retrieved it has been answered.     *)
THEOREM UsedOnce == Spec => []UsedIsGone
<1>1. IInv => UsedIsGone
  BY Zenon DEF IInv
<1> QED
  BY <1>1, Invariance, PTL
=============================================================================
