----------------------------- MODULE OAuthLogin -----------------------------
(***************************************************************************)
(* oauth2: logins through an OpenID provider.  The manager hands out       *)
(* authorization URLs, keeps the state of each login in InMemoryStorage    *)
(* and handles the callback requests, several at a time.  The storage's    *)
(* mutex and the manager's are never held together or across a call, so    *)
(* each critical section is one step.                                      *)
(***************************************************************************)
EXTENDS Integers

CONSTANTS
  Logins,       \* logins: the state, nonce and verifier that GetAuthURL draws
  Requests,     \* callback requests; a browser may repeat one
  StateTimeout, \* ManagerConfig.StateTimeout, in ticks of the clock
  EnforcesPKCE, \* the provider compares the code verifier with the challenge
  MaxTime       \* bound: ticks of the clock

ASSUME OAuthAssumption ==
  /\ StateTimeout \in Nat \ {0} /\ MaxTime \in Nat
  /\ EnforcesPKCE \in BOOLEAN

VARIABLES
  now,
  registered,  \* the provider is in manager.providers
  data,        \* InMemoryStorage.data: ExpiresAt of each saved state
  done,        \* InMemoryStorage.done is closed
  routine,     \* cleanupRoutine is running
  issuedAt,    \* history: when each login got its URL
  pc,          \* where each request is
  asked,       \* its query parameters
  retrieved,   \* history: when it got the state's data, or Absent
  answer,      \* HTTP status
  sessions     \* requests for which the callback handler made a session

storeVars == <<data, done, routine>>
requestVars == <<pc, asked, retrieved, answer, sessions>>
vars == <<now, registered, storeVars, issuedAt, requestVars>>

Absent == -1
Unknown == "unknown"   \* a state that GetAuthURL never drew
Times == 0..MaxTime
Statuses == {0, 200, 400, 401, 500}
Places == {"idle", "provider", "state", "exchange", "handler", "delete", "done"}

TypeOK ==
  /\ now \in Times
  /\ registered \in BOOLEAN /\ done \in BOOLEAN /\ routine \in BOOLEAN
  /\ data \in [Logins -> {Absent} \cup Nat]
  /\ issuedAt \in [Logins -> {Absent} \cup Times]
  /\ pc \in [Requests -> Places]
  /\ asked \in [Requests -> [state : Logins \cup {Unknown}, code : Logins \cup {Unknown}]]
  /\ retrieved \in [Requests -> {Absent} \cup Times]
  /\ answer \in [Requests -> Statuses]
  /\ sessions \subseteq Requests

(* NewManager and NewInMemoryStorage.                                      *)
Init ==
  /\ now = 0
  /\ registered = FALSE
  /\ data = [l \in Logins |-> Absent]
  /\ done = FALSE
  /\ routine = TRUE
  /\ issuedAt = [l \in Logins |-> Absent]
  /\ pc = [r \in Requests |-> "idle"]
  /\ asked = [r \in Requests |-> [state |-> Unknown, code |-> Unknown]]
  /\ retrieved = [r \in Requests |-> Absent]
  /\ answer = [r \in Requests |-> 0]
  /\ sessions = {}

-----------------------------------------------------------------------------
(* InMemoryStorage.                                                        *)

(* The broken form never finds a state too old.                            *)
ExpiredNever(l) == FALSE
Expired(l) == now > data[l]

SaveState(l, expiresAt) == data' = [data EXCEPT ![l] = expiresAt]

DeleteState(l) == data' = [k \in Logins |-> IF k = l THEN Absent ELSE data[k]]

(* The broken form keeps what it should remove.                            *)
KeepsExpired == UNCHANGED data
RemovesExpired == data' = [l \in Logins |-> IF Expired(l) THEN Absent ELSE data[l]]

removeExpired ==
  /\ routine
  /\ RemovesExpired
  /\ UNCHANGED <<now, registered, done, routine, issuedAt, requestVars>>

(* The select of cleanupRoutine takes <-s.done.                            *)
RoutineReturns ==
  /\ routine /\ done
  /\ routine' = FALSE
  /\ UNCHANGED <<now, registered, data, done, issuedAt, requestVars>>

Cleanup ==
  /\ done' = TRUE
  /\ UNCHANGED <<now, registered, data, routine, issuedAt, requestVars>>

-----------------------------------------------------------------------------
(* manager: providers and authorization URLs.                              *)

RegisterProvider ==
  /\ registered' = TRUE
  /\ UNCHANGED <<now, storeVars, issuedAt, requestVars>>

(* time.Now().Add(m.stateTimeout).  The broken form has the sign wrong.    *)
ExpiresBefore == now - StateTimeout
ExpiresAt == now + StateTimeout

(* The random strings of a login are drawn once.                           *)
GetAuthURL(l) ==
  /\ registered
  /\ issuedAt[l] = Absent
  /\ issuedAt' = [issuedAt EXCEPT ![l] = now]
  /\ SaveState(l, ExpiresAt)
  /\ UNCHANGED <<now, registered, done, routine, requestVars>>

-----------------------------------------------------------------------------
(* GoogleCallbackHandler and manager.HandleCallback, for request r.        *)

Move(r, to) == pc' = [pc EXCEPT ![r] = to]
Answer(r, status) == answer' = [answer EXCEPT ![r] = status]

(* A request with any state, and a code the provider gave for some login   *)
(* or did not give; or a request that lacks a parameter.                   *)
Request(r, s, c) ==
  /\ pc[r] = "idle"
  /\ c \in Logins => issuedAt[c] # Absent
  /\ asked' = [asked EXCEPT ![r] = [state |-> s, code |-> c]]
  /\ \/ Move(r, "provider") /\ UNCHANGED answer
     \/ Move(r, "done") /\ Answer(r, 400)
  /\ UNCHANGED <<now, registered, storeVars, issuedAt, retrieved, sessions>>

FindProvider(r) ==
  /\ pc[r] = "provider"
  /\ \/ registered /\ Move(r, "state") /\ UNCHANGED answer
     \/ ~registered /\ Move(r, "done") /\ Answer(r, 400)
  /\ UNCHANGED <<now, registered, storeVars, issuedAt, asked, retrieved, sessions>>

(* GetStateData: not found, expired (and deleted), or found.               *)
GetStateData(r) ==
  LET s == asked[r].state
      exists == s \in Logins /\ data[s] # Absent
  IN /\ pc[r] = "state"
     /\ \/ /\ ~exists
           /\ Move(r, "done") /\ Answer(r, 401)
           /\ UNCHANGED <<data, retrieved>>
        \/ /\ exists /\ Expired(s)
           /\ DeleteState(s)
           /\ Move(r, "done") /\ Answer(r, 401)
           /\ UNCHANGED retrieved
        \/ /\ exists /\ ~Expired(s)
           /\ retrieved' = [retrieved EXCEPT ![r] = now]
           /\ Move(r, "exchange")
           /\ UNCHANGED <<data, answer>>
     /\ UNCHANGED <<now, registered, done, routine, issuedAt, asked, sessions>>

(* The provider: it may refuse any code, and one whose challenge does not  *)
(* match it refuses if it looks.                                           *)
Exchanges(r) ==
  /\ asked[r].code \in Logins
  /\ EnforcesPKCE => asked[r].code = asked[r].state

(* The ID token carries the nonce of the login the code was given for.     *)
NonceUnchecked(r) == TRUE
NonceMatches(r) == asked[r].code = asked[r].state

(* Where a request goes whose exchange failed: through the deferred        *)
(* DeleteState.  The broken form deletes after a success only.             *)
AfterFailureKeeps == "done"
AfterFailure == "delete"

ProviderHandleCallback(r) ==
  /\ pc[r] = "exchange"
  /\ \/ /\ Exchanges(r) /\ NonceMatches(r)
        /\ Move(r, "handler") /\ UNCHANGED answer
     \/ /\ Move(r, AfterFailure) /\ Answer(r, 401)
  /\ UNCHANGED <<now, registered, storeVars, issuedAt, asked, retrieved, sessions>>

CallbackHandler(r) ==
  /\ pc[r] = "handler"
  /\ \/ sessions' = sessions \cup {r} /\ Move(r, "delete") /\ Answer(r, 200)
     \/ UNCHANGED sessions /\ Move(r, AfterFailure) /\ Answer(r, 500)
  /\ UNCHANGED <<now, registered, storeVars, issuedAt, asked, retrieved>>

(* The deferred DeleteState, and the answer.                               *)
DeferredDelete(r) ==
  /\ pc[r] = "delete"
  /\ DeleteState(asked[r].state)
  /\ Move(r, "done")
  /\ UNCHANGED <<now, registered, done, routine, issuedAt, asked, retrieved,
                 answer, sessions>>

Tick ==
  /\ now < MaxTime /\ now' = now + 1
  /\ UNCHANGED <<registered, storeVars, issuedAt, requestVars>>

-----------------------------------------------------------------------------
Next ==
  \/ removeExpired \/ RoutineReturns \/ Cleanup \/ RegisterProvider \/ Tick
  \/ \E l \in Logins : GetAuthURL(l)
  \/ \E r \in Requests :
       \/ \E s, c \in Logins \cup {Unknown} : Request(r, s, c)
       \/ FindProvider(r) \/ GetStateData(r) \/ ProviderHandleCallback(r)
       \/ CallbackHandler(r) \/ DeferredDelete(r)

Spec == Init /\ [][Next]_vars

(* The ticker of cleanupRoutine fires again and again.                     *)
FairSpec == Spec /\ WF_vars(Tick) /\ WF_vars(removeExpired)

-----------------------------------------------------------------------------
(* Properties.                                                             *)

(* A session is made only for the login the provider's code was given for, *)
(* whatever state and code a request brings together, and even if the      *)
(* provider does not look at the code verifier.                            *)
SessionsMatch == \A r \in sessions : asked[r].state = asked[r].code

(* A state is of no use after its time, whether or not cleanupRoutine has  *)
(* come round or was stopped: nobody retrieved it later than StateTimeout  *)
(* after its URL was made.                                                 *)
RetrievedInTime ==
  \A r \in Requests : retrieved[r] # Absent =>
    retrieved[r] <= issuedAt[asked[r].state] + StateTimeout

(* Once a request that retrieved a state has been answered, with whatever  *)
(* status, the state is gone and stays so: a later request cannot use it.  *)
UsedIsGone ==
  \A r \in Requests : pc[r] = "done" /\ retrieved[r] # Absent =>
    data[asked[r].state] = Absent

(* States nobody comes back for do not stay for ever, until Cleanup.       *)
ExpiredAreRemoved ==
  \A l \in Logins :
    data[l] # Absent /\ issuedAt[l] + StateTimeout < MaxTime ~> data[l] = Absent \/ done
=============================================================================
