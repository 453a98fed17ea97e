------------------------- MODULE WebSessionProofs -------------------------
(***************************************************************************)
(* What WebSession's run checks of keys, timers, answers and the shutdown, *)
(* proved for any number of handlers, requests and sessions.  The invariant *)
(* falls into four parts, each about a few variables; a section proves what *)
(* the building blocks of the actions (Return, Activate, Lock) do to the   *)
(* parts, and one lemma per action puts them together.  Two more sections  *)
(* add to it what answers (Departures) and the shutdown (Placement) need.  *)
(***************************************************************************)
EXTENDS WebSession, TLAPS

-----------------------------------------------------------------------------
(* The handlers: where one stands tells what its locals hold, a key only   *)
(* between its derivation and its session, a session once there is one.    *)
Handlers ==
  /\ pc \in [Request -> Handler]
  /\ cookie \in [Request -> Sid \cup {None}]
  /\ key \in [Request -> Nat \cup {None}]
  /\ sid \in [Request -> Sid \cup {None}]
  /\ barred \in [Request -> SUBSET Sid]
  /\ \A r \in Request :
       /\ pc[r] \in {"rearm", "create"} <=> key[r] # None
       /\ pc[r] \in {"rearm", "lock"} => cookie[r] \in Sid
       /\ pc[r] \in {"list", "state", "touch", "mintlist", "lookup", "vault", "serve"}
            => sid[r] \in Sid

(* The sessions, and the timers of the active ones.                        *)
Sessions ==
  /\ state \in [Sid -> {"unborn", "active", "locked"}]
  /\ dek \in [Sid -> Nat \cup {None}]
  /\ timer \in [Sid -> {"nil", "armed", "fired"}]
  /\ firing \in [Sid -> Nat]
  /\ ActiveSessionsAreTimed

(* The server's own variables.                                             *)
Server ==
  /\ listed \subseteq Sid /\ toLock \subseteq Sid /\ gone \subseteq Sid
  /\ stage \in {"serving", "draining", "drained", "cutoff", "exited"}
  /\ keys \in Nat /\ arrived \in Nat /\ minted \in Nat

(* The keys: every key in use was derived, is intact and has one owner, an *)
(* active session or a login; and every derived key is in use or wiped.    *)
Ownership ==
  /\ zeroed \subseteq 1..keys
  /\ \A s \in Sid : dek[s] # None => dek[s] \in (1..keys) \ zeroed /\ state[s] = "active"
  /\ \A r \in Request : key[r] # None => key[r] \in (1..keys) \ zeroed
  /\ \A s, t \in Sid : dek[s] # None /\ dek[s] = dek[t] => s = t
  /\ \A q, r \in Request : key[q] # None /\ key[q] = key[r] => q = r
  /\ \A s \in Sid, r \in Request : key[r] # None => key[r] # dek[s]
  /\ KeysAreHeldOrZeroed

IInv == Handlers /\ Sessions /\ Server /\ Ownership

(* The parts are made of the type invariant's conjuncts.                   *)
LEMMA Types == IInv => TypeOK
BY DEF IInv, Handlers, Sessions, Server, Ownership, TypeOK

(* A server that has just started has derived no key.                      *)
LEMMA Initially == Init => IInv
BY DEF Init, IInv, Handlers, Sessions, Server, Ownership, KeysAreHeldOrZeroed,
   ActiveSessionsAreTimed, Handler, Sid

-----------------------------------------------------------------------------
(* A handler that returns leaves the handlers in order; it drops a key     *)
(* only where it holds one.                                                *)
LEMMA Returning ==
  ASSUME Handlers, NEW r \in Request, NEW from, Return(r, from)
  PROVE  Handlers' /\ (pc[r] \notin {"rearm", "create"} => key' = key)
BY DEF Handlers, Return, Goto, Handler

(* The parts depend on their variables only.                               *)
LEMMA SessionsKept ==
  ASSUME Sessions, UNCHANGED <<state, dek, timer, firing>>
  PROVE  Sessions'
BY DEF Sessions, ActiveSessionsAreTimed

LEMMA OwnershipKept ==
  ASSUME Ownership, UNCHANGED <<state, dek, zeroed, key, keys>>
  PROVE  Ownership'
BY DEF Ownership, KeysAreHeldOrZeroed

(* Activating a session starts its timer.                                  *)
LEMMA Activating ==
  ASSUME Sessions, NEW s \in Sid, NEW k \in Nat \cup {None}, Activate(s, k)
  PROVE  Sessions'
BY DEF Sessions, Activate, ActiveSessionsAreTimed

(* A login hands its key to the session it activates.                      *)
LEMMA HandingOver ==
  ASSUME Handlers, Sessions, Server, Ownership, NEW s \in Sid, NEW r \in Request,
         key[r] # None, Activate(s, key[r]), key' = [key EXCEPT ![r] = None], keys' = keys
  PROVE  Ownership'
<1>1. /\ key[r] \in (1..keys) \ zeroed
      /\ \A t \in Sid : dek'[t] = IF t = s THEN key[r] ELSE dek[t]
      /\ \A t \in Sid : state'[t] = IF t = s THEN "active" ELSE state[t]
      /\ \A q \in Request : key'[q] = IF q = r THEN None ELSE key[q]
      /\ zeroed' = zeroed \cup ({dek[s]} \ {None})
  BY DEF Handlers, Sessions, Ownership, Activate
<1>2. zeroed' \subseteq 1..keys'
  BY <1>1 DEF Ownership
<1>3. \A t \in Sid : dek'[t] # None => dek'[t] \in (1..keys') \ zeroed' /\ state'[t] = "active"
  BY <1>1 DEF Ownership
<1>4. \A q \in Request : key'[q] # None => key'[q] \in (1..keys') \ zeroed'
  BY <1>1 DEF Ownership
<1>5. /\ \A t, u \in Sid : dek'[t] # None /\ dek'[t] = dek'[u] => t = u
      /\ \A p, q \in Request : key'[p] # None /\ key'[p] = key'[q] => p = q
      /\ \A t \in Sid, q \in Request : key'[q] # None => key'[q] # dek'[t]
  BY <1>1 DEF Ownership
<1>6. KeysAreHeldOrZeroed'
  <2> SUFFICES ASSUME NEW k \in 1..keys
               PROVE  \/ k \in zeroed'
                      \/ \E t \in Sid : dek'[t] = k /\ state'[t] = "active"
                      \/ \E q \in Request : key'[q] = k
    BY DEF KeysAreHeldOrZeroed
  <2>1. CASE k \in zeroed
    BY <1>1, <2>1
  <2>2. CASE \E t \in Sid : dek[t] = k /\ state[t] = "active"
    BY <1>1, <2>2
  <2>3. CASE \E q \in Request : key[q] = k
    BY <1>1, <2>3
  <2>. QED
    BY <2>1, <2>2, <2>3 DEF Ownership, KeysAreHeldOrZeroed
<1>. QED
  BY <1>2, <1>3, <1>4, <1>5, <1>6 DEF Ownership

(* Locking a session wipes its key and needs no timer, nor a callback.     *)
LEMMA Locking ==
  ASSUME Sessions, Server, Ownership, NEW s \in Sid, Lock(s),
         \/ firing' = firing
         \/ firing[s] > 0 /\ firing' = [firing EXCEPT ![s] = @ - 1],
         UNCHANGED <<key, keys>>
  PROVE  Sessions' /\ Ownership'
<1>1. CASE state[s] = "active"
  <2>1. Sessions'
    BY <1>1 DEF Sessions, Lock, ActiveSessionsAreTimed
  <2>2. /\ \A t \in Sid : dek'[t] = IF t = s THEN None ELSE dek[t]
        /\ \A t \in Sid : state'[t] = IF t = s THEN "locked" ELSE state[t]
        /\ zeroed' = zeroed \cup ({dek[s]} \ {None})
    BY <1>1 DEF Sessions, Lock
  <2>3. KeysAreHeldOrZeroed'
    BY <2>2, WebAssumption DEF Ownership, KeysAreHeldOrZeroed
  <2>. QED
    BY <2>1, <2>2, <2>3 DEF Ownership
<1>2. CASE state[s] # "active"
  <2>1. UNCHANGED <<state, dek, zeroed, timer>>
    BY <1>2 DEF Lock
  <2>2. Sessions'
    BY <1>2, <2>1 DEF Sessions, ActiveSessionsAreTimed
  <2>. QED
    BY <2>1, <2>2, OwnershipKept
<1>. QED
  BY <1>1, <1>2

-----------------------------------------------------------------------------
(* From here on the tuples of variables stand for their variables.        *)
USE DEF sessionVars, requestVars, serverVars, countVars, historyVars

(* A request that arrives holds no key.                                    *)
LEMMA ArriveStep ==
  ASSUME IInv, NEW r \in Request, NEW h \in {"login", "logout", "read"}, Arrive(r, h)
  PROVE  IInv'
<1>1. Handlers' /\ key' = key
  BY DEF IInv, Handlers, Arrive, Goto, Handler, Server
<1>2. Sessions'
  BY SessionsKept DEF IInv, Arrive
<1>3. Server'
  BY DEF IInv, Server, Arrive
<1>4. Ownership'
  BY <1>1, OwnershipKept DEF IInv, Arrive
<1>. QED
  BY <1>1, <1>2, <1>3, <1>4 DEF IInv

(* The key a login derives is a new one.                                   *)
LEMMA UnlockStep ==
  ASSUME IInv, NEW r \in Request, Unlock(r)
  PROVE  IInv'
<1>1. pc[r] = "login" /\ key[r] = None
  BY DEF IInv, Handlers, Unlock, Goto
<1>2. keys \in Nat /\ keys + 1 \in Nat /\ keys + 1 # None
  BY WebAssumption DEF IInv, Server
<1>3. /\ keys' = keys + 1
      /\ key' = [key EXCEPT ![r] = keys + 1]
      /\ UNCHANGED <<cookie, sid, barred, state, dek, timer, firing, zeroed>>
  BY DEF Unlock
<1>4. Handlers'
  <2>1. CASE cookie[r] \in listed
    <3>1. pc' = [pc EXCEPT ![r] = "rearm"] /\ cookie[r] \in Sid
      BY <2>1 DEF IInv, Server, Unlock, Goto
    <3>. QED
      BY <1>1, <1>2, <1>3, <3>1 DEF IInv, Handlers, Handler
  <2>2. CASE cookie[r] \notin listed
    <3>1. pc' = [pc EXCEPT ![r] = "create"]
      BY <2>2 DEF Unlock, Goto
    <3>. QED
      BY <1>1, <1>2, <1>3, <3>1 DEF IInv, Handlers, Handler
  <2>. QED
    BY <2>1, <2>2
<1>5. Sessions' /\ Server'
  BY <1>2, <1>3, SessionsKept DEF IInv, Server, Unlock
<1>6. \A q \in Request : key'[q] = IF q = r THEN keys + 1 ELSE key[q]
  BY <1>3 DEF IInv, Handlers
<1>7. KeysAreHeldOrZeroed'
  <2> SUFFICES ASSUME NEW k \in 1..(keys + 1)
               PROVE  \/ k \in zeroed
                      \/ \E s \in Sid : dek[s] = k /\ state[s] = "active"
                      \/ \E q \in Request : key'[q] = k
    BY <1>3 DEF KeysAreHeldOrZeroed
  <2>1. CASE k = keys + 1
    BY <2>1, <1>6
  <2>2. CASE k \in 1..keys
    <3>1. ASSUME NEW q \in Request, key[q] = k
          PROVE  key'[q] = k
      BY <3>1, <2>2, <1>1, <1>2, <1>6, WebAssumption
    <3>. QED
      BY <3>1, <2>2 DEF IInv, Ownership, KeysAreHeldOrZeroed
  <2>. QED
    BY <2>1, <2>2, <1>2
<1>8. Ownership'
  BY <1>1, <1>2, <1>3, <1>6, <1>7 DEF IInv, Ownership
<1>. QED
  BY <1>4, <1>5, <1>8 DEF IInv

(* A login that is refused never had a key.                                *)
LEMMA RefuseLoginStep ==
  ASSUME IInv, NEW r \in Request, RefuseLogin(r)
  PROVE  IInv'
<1>1. pc[r] = "login"
  BY DEF RefuseLogin, Return, Goto
<1>2. Handlers' /\ key' = key
  BY <1>1, Returning DEF IInv, RefuseLogin
<1>3. Sessions'
  BY SessionsKept DEF IInv, RefuseLogin
<1>4. Server'
  BY DEF IInv, Server, RefuseLogin
<1>5. Ownership'
  BY <1>2, OwnershipKept DEF IInv, RefuseLogin
<1>. QED
  BY <1>2, <1>3, <1>4, <1>5 DEF IInv

(* A login re-arms the session of its cookie.                              *)
LEMMA RearmStep ==
  ASSUME IInv, NEW r \in Request, Rearm(r)
  PROVE  IInv'
<1>1. cookie[r] \in Sid /\ key[r] # None /\ key[r] \in Nat \cup {None}
  BY DEF IInv, Handlers, Rearm, Return, Goto
<1>2. Handlers' /\ key' = [key EXCEPT ![r] = None]
  BY Returning DEF IInv, Rearm, Return
<1>3. Sessions'
  BY <1>1, Activating DEF IInv, Rearm
<1>4. Server'
  BY DEF IInv, Server, Rearm
<1>5. keys' = keys
  BY DEF Rearm
<1>6. Ownership'
  BY <1>1, <1>2, <1>5, HandingOver DEF IInv, Rearm
<1>. QED
  BY <1>2, <1>3, <1>4, <1>6 DEF IInv

(* A login opens a session.                                                *)
LEMMA CreateStep ==
  ASSUME IInv, NEW r \in Request, NEW s \in Sid, Create(r, s)
  PROVE  IInv'
<1>1. key[r] # None /\ key[r] \in Nat \cup {None}
  BY DEF IInv, Handlers, Create, Goto
<1>2. Handlers' /\ key' = [key EXCEPT ![r] = None]
  BY DEF IInv, Handlers, Create, Goto, Handler
<1>3. Sessions'
  BY <1>1, Activating DEF IInv, Create
<1>4. Server'
  BY DEF IInv, Server, Create
<1>5. keys' = keys
  BY DEF Create
<1>6. Ownership'
  BY <1>1, <1>2, <1>5, HandingOver DEF IInv, Create
<1>. QED
  BY <1>2, <1>3, <1>4, <1>6 DEF IInv

(* A minted session has no key.                                            *)
LEMMA MintStep ==
  ASSUME IInv, NEW r \in Request, NEW s \in Sid, Mint(r, s)
  PROVE  IInv'
<1>1. Handlers' /\ key' = key
  BY DEF IInv, Handlers, Mint, Goto, Handler
<1>2. Sessions'
  BY Activating DEF IInv, Mint
<1>3. Server'
  BY DEF IInv, Server, Mint
<1>4. dek[s] = None /\ state[s] = "unborn"
  BY DEF IInv, Ownership, Mint, Fresh
<1>5. UNCHANGED <<dek, zeroed, keys>>
  BY <1>4 DEF IInv, Sessions, Mint, Activate
<1>6. \A t \in Sid : state'[t] = IF t = s THEN "active" ELSE state[t]
  BY DEF IInv, Sessions, Mint, Activate
<1>7. KeysAreHeldOrZeroed'
  BY <1>1, <1>4, <1>5, <1>6 DEF IInv, Ownership, KeysAreHeldOrZeroed
<1>8. Ownership'
  BY <1>1, <1>4, <1>5, <1>6, <1>7 DEF IInv, Ownership
<1>. QED
  BY <1>1, <1>2, <1>3, <1>8 DEF IInv

(* The login lists its session and answers.                                *)
LEMMA ListStep ==
  ASSUME IInv, NEW r \in Request, List(r)
  PROVE  IInv'
<1>1. pc[r] = "list" /\ sid[r] \in Sid
  BY DEF IInv, Handlers, List, Return, Goto
<1>2. Handlers' /\ key' = key
  BY <1>1, Returning DEF IInv, List
<1>3. Sessions'
  BY SessionsKept DEF IInv, List
<1>4. Server'
  BY <1>1 DEF IInv, Server, List
<1>5. Ownership'
  BY <1>2, OwnershipKept DEF IInv, List
<1>. QED
  BY <1>2, <1>3, <1>4, <1>5 DEF IInv

(* A minted session is listed ...                                          *)
LEMMA MintListStep ==
  ASSUME IInv, NEW r \in Request, MintList(r)
  PROVE  IInv'
<1>1. Handlers' /\ key' = key
  BY DEF IInv, Handlers, MintList, Goto, Handler
<1>2. Sessions'
  BY SessionsKept DEF IInv, MintList
<1>3. Server'
  BY DEF IInv, Server, MintList, Handlers, Goto
<1>4. Ownership'
  BY <1>1, OwnershipKept DEF IInv, MintList
<1>. QED
  BY <1>1, <1>2, <1>3, <1>4 DEF IInv

(* ... and looked up again.                                                *)
LEMMA MintLookupStep ==
  ASSUME IInv, NEW r \in Request, MintLookup(r)
  PROVE  IInv'
<1>1. Handlers' /\ key' = key
  BY Returning DEF IInv, Handlers, MintLookup, Goto, Handler
<1>2. Sessions'
  BY SessionsKept DEF IInv, MintLookup
<1>3. Server'
  BY DEF IInv, Server, MintLookup
<1>4. Ownership'
  BY <1>1, OwnershipKept DEF IInv, MintLookup
<1>. QED
  BY <1>1, <1>2, <1>3, <1>4 DEF IInv

(* A logout takes its session off the list.                                *)
LEMMA DelistStep ==
  ASSUME IInv, NEW r \in Request, Delist(r)
  PROVE  IInv'
<1>1. Handlers' /\ key' = key
  <2>1. CASE cookie[r] \in listed
    BY <2>1 DEF IInv, Handlers, Server, Delist, Goto, Handler
  <2>2. CASE cookie[r] \notin listed
    <3>1. Return(r, "logout") /\ pc[r] = "logout"
      BY <2>2 DEF Delist, Return, Goto
    <3>. QED
      BY <3>1, Returning DEF IInv
  <2>. QED
    BY <2>1, <2>2
<1>2. Sessions'
  BY SessionsKept DEF IInv, Delist
<1>3. Server'
  BY DEF IInv, Server, Delist
<1>4. Ownership'
  BY <1>1, OwnershipKept DEF IInv, Delist
<1>. QED
  BY <1>1, <1>2, <1>3, <1>4 DEF IInv

(* A logout locks the session it took off the list.                        *)
LEMMA LogoutLockStep ==
  ASSUME IInv, NEW r \in Request, LogoutLock(r)
  PROVE  IInv'
<1>1. cookie[r] \in Sid
  BY DEF IInv, Handlers, LogoutLock, Return, Goto
<1>2. Handlers' /\ UNCHANGED <<key, keys>>
  BY Returning DEF IInv, LogoutLock, Return, Goto
<1>3. Sessions' /\ Ownership'
  BY <1>1, <1>2, Locking DEF IInv, LogoutLock
<1>4. Server'
  BY <1>1 DEF IInv, Server, LogoutLock
<1>. QED
  BY <1>1, <1>2, <1>3, <1>4 DEF IInv

(* A read looks its cookie up ...                                          *)
LEMMA ResolveStep ==
  ASSUME IInv, NEW r \in Request, Resolve(r)
  PROVE  IInv'
<1>1. Handlers' /\ key' = key
  <2>1. CASE cookie[r] \in listed
    BY <2>1 DEF IInv, Handlers, Server, Resolve, Goto, Handler
  <2>2. CASE cookie[r] \notin listed /\ Bootstrap
    BY <2>2 DEF IInv, Handlers, Resolve, Goto, Handler
  <2>3. CASE cookie[r] \notin listed /\ ~Bootstrap
    <3>1. Return(r, "read") /\ pc[r] = "read"
      BY <2>3 DEF Resolve, Return, Goto
    <3>. QED
      BY <3>1, Returning DEF IInv
  <2>. QED
    BY <2>1, <2>2, <2>3
<1>2. Sessions'
  BY SessionsKept DEF IInv, Resolve
<1>3. Server'
  BY DEF IInv, Server, Resolve
<1>4. Ownership'
  BY <1>1, OwnershipKept DEF IInv, Resolve
<1>. QED
  BY <1>1, <1>2, <1>3, <1>4 DEF IInv

(* ... asks whether the session is locked ...                              *)
LEMMA CheckStateStep ==
  ASSUME IInv, NEW r \in Request, CheckState(r)
  PROVE  IInv'
<1>1. Handlers' /\ key' = key
  BY Returning DEF IInv, Handlers, CheckState, Goto, Handler
<1>2. Sessions'
  BY SessionsKept DEF IInv, CheckState
<1>3. Server'
  BY DEF IInv, Server, CheckState
<1>4. Ownership'
  BY <1>1, OwnershipKept DEF IInv, CheckState
<1>. QED
  BY <1>1, <1>2, <1>3, <1>4 DEF IInv

(* ... pushes its timer back ...                                           *)
LEMMA TouchStep ==
  ASSUME IInv, NEW r \in Request, Touch(r)
  PROVE  IInv'
<1>1. Handlers' /\ key' = key
  BY DEF IInv, Handlers, Touch, Goto, Handler
<1>2. sid[r] \in Sid
  BY DEF IInv, Handlers, Touch, Goto
<1>3. Sessions'
  BY <1>2 DEF IInv, Sessions, ActiveSessionsAreTimed, Touch
<1>4. Server'
  BY DEF IInv, Server, Touch
<1>5. Ownership'
  BY <1>1, OwnershipKept DEF IInv, Touch
<1>. QED
  BY <1>1, <1>3, <1>4, <1>5 DEF IInv

(* ... takes the notes ...                                                 *)
LEMMA TakeVaultStep ==
  ASSUME IInv, NEW r \in Request, TakeVault(r)
  PROVE  IInv'
<1>1. Handlers' /\ key' = key
  BY Returning DEF IInv, Handlers, TakeVault, Goto, Handler
<1>2. Sessions'
  BY SessionsKept DEF IInv, TakeVault
<1>3. Server'
  BY DEF IInv, Server, TakeVault
<1>4. Ownership'
  BY <1>1, OwnershipKept DEF IInv, TakeVault
<1>. QED
  BY <1>1, <1>2, <1>3, <1>4 DEF IInv

(* ... and answers.                                                        *)
LEMMA ServeStep ==
  ASSUME IInv, NEW r \in Request, Serve(r)
  PROVE  IInv'
<1>1. pc[r] = "serve"
  BY DEF Serve, Return, Goto
<1>2. Handlers' /\ key' = key
  BY <1>1, Returning DEF IInv, Serve
<1>3. Sessions'
  BY SessionsKept DEF IInv, Serve
<1>4. Server'
  BY DEF IInv, Server, Serve
<1>5. Ownership'
  BY <1>2, OwnershipKept DEF IInv, Serve
<1>. QED
  BY <1>2, <1>3, <1>4, <1>5 DEF IInv

(* A timer that fires has started its callback.                            *)
LEMMA FireStep ==
  ASSUME IInv, NEW s \in Sid, Fire(s)
  PROVE  IInv'
<1>1. Handlers' /\ Server' /\ UNCHANGED <<key, keys>>
  BY DEF IInv, Handlers, Server, Fire
<1>2. Sessions'
  BY DEF IInv, Sessions, ActiveSessionsAreTimed, Fire
<1>3. Ownership'
  BY <1>1, OwnershipKept DEF IInv, Fire
<1>. QED
  BY <1>1, <1>2, <1>3 DEF IInv

(* The callback locks its session.                                         *)
LEMMA IdleLockStep ==
  ASSUME IInv, NEW s \in Sid, IdleLock(s)
  PROVE  IInv'
<1>1. Handlers' /\ Server' /\ UNCHANGED <<key, keys>>
  BY DEF IInv, Handlers, Server, IdleLock
<1>2. Sessions' /\ Ownership'
  BY <1>1, Locking DEF IInv, IdleLock
<1>. QED
  BY <1>1, <1>2 DEF IInv

(* The shutdown locks what it took off the list.                           *)
LEMMA ShutdownLockStep ==
  ASSUME IInv, NEW s \in Sid, ShutdownLock(s)
  PROVE  IInv'
<1>1. Handlers' /\ Server' /\ UNCHANGED <<key, keys>>
  BY DEF IInv, Handlers, Server, ShutdownLock
<1>2. Sessions' /\ Ownership'
  BY <1>1, Locking DEF IInv, ShutdownLock
<1>. QED
  BY <1>1, <1>2 DEF IInv

(* The other steps of the shutdown touch neither sessions nor keys.        *)
LEMMA ShutdownStep ==
  ASSUME IInv, Interrupt \/ Collect \/ Exit
  PROVE  IInv'
<1>1. /\ Handlers' /\ Server'
      /\ UNCHANGED <<state, dek, timer, firing, zeroed, key, keys>>
  BY DEF IInv, Handlers, Server, Interrupt, Collect, Exit
<1>. QED
  BY <1>1, SessionsKept, OwnershipKept DEF IInv

-----------------------------------------------------------------------------
(* Every step of the server keeps the invariant.                           *)
LEMMA InvStep == IInv /\ [Next]_vars => IInv'
<1> SUFFICES ASSUME IInv, [Next]_vars
             PROVE  IInv'
  OBVIOUS
<1>1. ASSUME NEW r \in Request, Step(r)
      PROVE  IInv'
  BY <1>1, UnlockStep, RefuseLoginStep, RearmStep, CreateStep, MintStep, ListStep,
     MintListStep, MintLookupStep, DelistStep, LogoutLockStep, ResolveStep,
     CheckStateStep, TouchStep, TakeVaultStep, ServeStep DEF Step
<1>2. ASSUME NEW r \in Request, NEW h \in {"login", "logout", "read"}, Arrive(r, h)
      PROVE  IInv'
  BY <1>2, ArriveStep
<1>3. ASSUME NEW s \in Sid, Fire(s) \/ IdleLock(s) \/ ShutdownLock(s)
      PROVE  IInv'
  BY <1>3, FireStep, IdleLockStep, ShutdownLockStep
<1>4. CASE Interrupt \/ Collect \/ Exit
  BY <1>4, ShutdownStep
<1>5. CASE UNCHANGED vars
  <2>1. Handlers' /\ Server' /\ UNCHANGED <<state, dek, timer, firing, zeroed, key, keys>>
    BY <1>5 DEF IInv, Handlers, Server, vars
  <2>. QED
    BY <2>1, SessionsKept, OwnershipKept DEF IInv
<1>. QED
  BY <1>1, <1>2, <1>3, <1>4, <1>5 DEF Next

LEMMA Invariance == Spec => []IInv
BY Initially, InvStep, PTL DEF Spec

(* The variables keep their types.                                         *)
THEOREM TypeCorrect == Spec => []TypeOK
BY Invariance, Types, PTL

(* However many logins, logouts, expiries and re-logins overlap, a derived *)
(* key is wiped or still held by one login or one active session.          *)
THEOREM NoKeyIsForgotten == Spec => []KeysAreHeldOrZeroed
<1>1. IInv => KeysAreHeldOrZeroed
  BY DEF IInv, Ownership
<1>. QED
  BY <1>1, Invariance, PTL

(* No key is wiped, or given to a second owner, while it is held.          *)
THEOREM NoKeyIsWipedInUse == Spec => []HeldKeysAreIntact
<1>1. IInv => HeldKeysAreIntact
  BY DEF IInv, Ownership, HeldKeysAreIntact
<1>. QED
  BY <1>1, Invariance, PTL

(* An active session is never left without a timer that will lock it.      *)
THEOREM NoSessionEscapesItsTimer == Spec => []ActiveSessionsAreTimed
<1>1. IInv => ActiveSessionsAreTimed
  BY DEF IInv, Sessions
<1>. QED
  BY <1>1, Invariance, PTL

-----------------------------------------------------------------------------
(* Which sessions answer: a session that has been logged out never gets    *)
(* back into the store, for what is about to be listed is new, and what is *)
(* taken off the list stays off.                                           *)

(* Listed, logged-out and about-to-be-listed sessions are kept apart, and  *)
(* a read works on none that was logged out before it came.                *)
Departures ==
  /\ \A s \in listed : s \notin gone /\ state[s] # "unborn"
  /\ \A s \in gone : state[s] # "unborn"
  /\ \A r \in Request :
       /\ pc[r] = "lock" => cookie[r] \notin listed /\ state[cookie[r]] # "unborn"
       /\ pc[r] \in {"list", "mintlist"} =>
            /\ sid[r] \notin listed \cup gone /\ state[sid[r]] # "unborn"
            /\ \A q \in Request :
                 /\ pc[q] = "lock" => cookie[q] # sid[r]
                 /\ pc[q] \in {"list", "mintlist"} /\ sid[q] = sid[r] => q = r
       /\ barred[r] \subseteq gone
       /\ pc[r] \in {"state", "touch", "mintlist", "lookup", "vault"}
            => sid[r] \notin barred[r]

AInv == IInv /\ Departures

(* From here on the tuples of variables stand for their variables.        *)
USE DEF sessionVars, requestVars, serverVars, countVars, historyVars

(* At the start no session is listed or logged out.                        *)
LEMMA NoneDeparted == Init => Departures
BY DEF Init, Departures

(* A read notes which sessions were logged out before it came.             *)
LEMMA ArriveDeparts ==
  ASSUME AInv, NEW r \in Request, NEW h \in {"login", "logout", "read"}, Arrive(r, h)
  PROVE  Departures'
BY DEF AInv, IInv, Departures, Arrive, Goto

(* A login knows its session is listed, or will make one ...               *)
LEMMA UnlockDeparts ==
  ASSUME AInv, NEW r \in Request, Unlock(r)
  PROVE  Departures'
BY DEF AInv, IInv, Departures, Unlock, Goto

(* ... or is refused ...                                                   *)
LEMMA RefuseLoginDeparts ==
  ASSUME AInv, NEW r \in Request, RefuseLogin(r)
  PROVE  Departures'
BY DEF AInv, IInv, Departures, RefuseLogin, Return, Goto

(* ... re-arms it, listed or not ...                                       *)
LEMMA RearmDeparts ==
  ASSUME AInv, NEW r \in Request, Rearm(r)
  PROVE  Departures'
BY DEF AInv, IInv, Departures, Rearm, Activate, Return, Goto

(* ... or makes one with a new id, which no cookie carries.                *)
LEMMA CreateDeparts ==
  ASSUME AInv, NEW r \in Request, NEW s \in Sid, Create(r, s)
  PROVE  Departures'
BY DEF AInv, IInv, Handlers, Sessions, Departures, Create, Activate, Fresh, Goto

(* A session minted for a read is new as well.                             *)
LEMMA MintDeparts ==
  ASSUME AInv, NEW r \in Request, NEW s \in Sid, Mint(r, s)
  PROVE  Departures'
BY DEF AInv, IInv, Handlers, Sessions, Departures, Mint, Activate, Fresh, Goto

(* Nobody can have logged out what is listed only now.                     *)
LEMMA ListDeparts ==
  ASSUME AInv, NEW r \in Request, List(r)
  PROVE  Departures'
BY DEF AInv, IInv, Handlers, Departures, List, Return, Goto

(* The same holds of a minted session.                                     *)
LEMMA MintListDeparts ==
  ASSUME AInv, NEW r \in Request, MintList(r)
  PROVE  Departures'
BY DEF AInv, IInv, Handlers, Departures, MintList, Goto

(* The lookup after it changes nothing.                                    *)
LEMMA MintLookupDeparts ==
  ASSUME AInv, NEW r \in Request, MintLookup(r)
  PROVE  Departures'
BY DEF AInv, IInv, Handlers, Departures, MintLookup, Return, Goto

(* A logout takes a session off the list for good ...                      *)
LEMMA DelistDeparts ==
  ASSUME AInv, NEW r \in Request, Delist(r)
  PROVE  Departures'
BY DEF AInv, IInv, Handlers, Departures, Delist, Return, Goto

(* ... and counts as completed when it has locked it.                      *)
LEMMA LogoutLockDeparts ==
  ASSUME AInv, NEW r \in Request, LogoutLock(r)
  PROVE  Departures'
BY DEF AInv, IInv, Handlers, Sessions, Server, Departures, LogoutLock, Lock, Return,
   Goto

(* A read finds only what is listed, so nothing logged out before it came ...*)
LEMMA ResolveDeparts ==
  ASSUME AInv, NEW r \in Request, Resolve(r)
  PROVE  Departures'
BY DEF AInv, IInv, Handlers, Departures, Resolve, Return, Goto

(* ... keeps to it ...                                                     *)
LEMMA CheckStateDeparts ==
  ASSUME AInv, NEW r \in Request, CheckState(r)
  PROVE  Departures'
BY DEF AInv, IInv, Handlers, Departures, CheckState, Return, Goto

(* ... whatever happens meanwhile ...                                      *)
LEMMA TouchDeparts ==
  ASSUME AInv, NEW r \in Request, Touch(r)
  PROVE  Departures'
BY DEF AInv, IInv, Departures, Touch, Goto

(* ... until it takes the notes ...                                        *)
LEMMA TakeVaultDeparts ==
  ASSUME AInv, NEW r \in Request, TakeVault(r)
  PROVE  Departures'
BY DEF AInv, IInv, Handlers, Departures, TakeVault, Return, Goto

(* ... and has answered.                                                   *)
LEMMA ServeDeparts ==
  ASSUME AInv, NEW r \in Request, Serve(r)
  PROVE  Departures'
BY DEF AInv, IInv, Departures, Serve, Return, Goto

(* Timers ...                                                              *)
LEMMA FireDeparts ==
  ASSUME AInv, NEW s \in Sid, Fire(s)
  PROVE  Departures'
BY DEF AInv, IInv, Departures, Fire

(* ... their callbacks ...                                                 *)
LEMMA IdleLockDeparts ==
  ASSUME AInv, NEW s \in Sid, IdleLock(s)
  PROVE  Departures'
BY DEF AInv, IInv, Handlers, Sessions, Server, Departures, IdleLock, Lock

(* ... and the shutdown's locks do not list anything.                      *)
LEMMA ShutdownLockDeparts ==
  ASSUME AInv, NEW s \in Sid, ShutdownLock(s)
  PROVE  Departures'
BY DEF AInv, IInv, Handlers, Sessions, Server, Departures, ShutdownLock, Lock

(* Nor do its other steps, which empty the list.                           *)
LEMMA ShutdownDeparts ==
  ASSUME AInv, Interrupt \/ Collect \/ Exit
  PROVE  Departures'
BY DEF AInv, IInv, Departures, Interrupt, Collect, Exit

-----------------------------------------------------------------------------
(* Every step keeps logged-out sessions out.                               *)
LEMMA DepartStep == AInv /\ [Next]_vars => Departures'
<1> SUFFICES ASSUME AInv, [Next]_vars
             PROVE  Departures'
  OBVIOUS
<1>1. ASSUME NEW r \in Request, Step(r)
      PROVE  Departures'
  BY <1>1, UnlockDeparts, RefuseLoginDeparts, RearmDeparts, CreateDeparts, MintDeparts,
     ListDeparts, MintListDeparts, MintLookupDeparts, DelistDeparts, LogoutLockDeparts,
     ResolveDeparts, CheckStateDeparts, TouchDeparts, TakeVaultDeparts, ServeDeparts DEF
     Step
<1>2. ASSUME NEW r \in Request, NEW h \in {"login", "logout", "read"}, Arrive(r, h)
      PROVE  Departures'
  BY <1>2, ArriveDeparts
<1>3. ASSUME NEW s \in Sid, Fire(s) \/ IdleLock(s) \/ ShutdownLock(s)
      PROVE  Departures'
  BY <1>3, FireDeparts, IdleLockDeparts, ShutdownLockDeparts
<1>4. CASE Interrupt \/ Collect \/ Exit
  BY <1>4, ShutdownDeparts
<1>5. CASE UNCHANGED vars
  BY <1>5 DEF AInv, Departures, vars
<1>. QED
  BY <1>1, <1>2, <1>3, <1>4, <1>5 DEF Next

(* Only TakeVault makes a handler answer, from an active session.          *)
LEMMA LiveAnswers ==
  ASSUME AInv, [Next]_vars, NEW r \in Request, pc[r] # "serve", pc'[r] = "serve"
  PROVE  state[sid[r]] = "active" /\ sid[r] \notin barred[r]
<1>1. PICK q \in Request : TakeVault(q) /\ state[sid[q]] = "active" /\ Goto(q, "vault", "serve")
  BY DEF AInv, IInv, Handlers, Next, Step, vars, Goto, Return, Arrive, Unlock,
     RefuseLogin, Rearm, Create, Mint, List, MintList, MintLookup, Delist, LogoutLock,
     Resolve, CheckState, Touch, TakeVault, Serve, Fire, IdleLock, ShutdownLock,
     Interrupt, Collect, Exit
<1>2. q = r
  BY <1>1 DEF AInv, IInv, Goto
<1>. QED
  BY <1>1, <1>2 DEF AInv, Departures, Goto

LEMMA AInvariance == Spec => []AInv
<1>1. Init => AInv
  BY Initially, NoneDeparted DEF AInv
<1>2. AInv /\ [Next]_vars => AInv'
  BY InvStep, DepartStep DEF AInv
<1>. QED
  BY <1>1, <1>2, PTL DEF Spec

(* A request answers from a session that is active when it takes the       *)
(* notes, never from one whose logout had completed before it came.        *)
THEOREM AnswersAreLive == Spec => AnswersComeFromLiveSessions
<1>1. AInv /\ [Next]_vars =>
        [\A r \in Request : pc[r] # "serve" /\ pc'[r] = "serve"
          => state[sid[r]] = "active" /\ sid[r] \notin barred[r]]_vars
  BY LiveAnswers
<1>. QED
  BY <1>1, AInvariance, PTL DEF Spec, AnswersComeFromLiveSessions

-----------------------------------------------------------------------------
(* Where a session is until the shutdown has wiped it: on the list, with   *)
(* the handler that is about to list it, with the one that has just taken  *)
(* it off, or logged out.                                                  *)
Known(s) ==
  \/ s \in listed \cup gone
  \/ \E r \in Request : pc[r] \in {"list", "mintlist"} /\ sid[r] = s
  \/ \E r \in Request : pc[r] = "lock" /\ cookie[r] = s

(* While the server serves and drains every session is known.  A shutdown  *)
(* that found the handlers gone has only the listed ones to lock, and the  *)
(* others that are active are logged-out ones that a login re-armed.       *)
Placement ==
  /\ \A r \in Request : cookie[r] # None => state[cookie[r]] # "unborn"
  /\ stage \in {"serving", "draining"} => \A s \in Sid : state[s] # "unborn" => Known(s)
  /\ stage = "drained" =>
       /\ \A r \in Request : pc[r] = "idle"
       /\ \A s \in Sid : state[s] = "active" => s \in toLock \cup gone

PInv == AInv /\ Placement

(* At the start there is no session.                                       *)
LEMMA NothingPlaced == Init => Placement
BY DEF Init, Placement

(* A cookie was issued with its session.                                   *)
LEMMA ArrivePlaces ==
  ASSUME PInv, NEW r \in Request, NEW h \in {"login", "logout", "read"}, Arrive(r, h)
  PROVE  Placement'
BY WebAssumption DEF PInv, AInv, IInv, Handlers, Handler, Sessions, Server, Placement,
  Known, Goto, Arrive

LEMMA UnlockPlaces ==
  ASSUME PInv, NEW r \in Request, Unlock(r)
  PROVE  Placement'
BY WebAssumption DEF PInv, AInv, IInv, Handlers, Handler, Sessions, Server, Placement,
  Known, Goto, Unlock

LEMMA RefuseLoginPlaces ==
  ASSUME PInv, NEW r \in Request, RefuseLogin(r)
  PROVE  Placement'
BY WebAssumption DEF PInv, AInv, IInv, Handlers, Handler, Sessions, Server, Placement,
  Known, Return, Goto, RefuseLogin

(* A session that is re-armed is wherever its cookie's was.                *)
LEMMA RearmPlaces ==
  ASSUME PInv, NEW r \in Request, Rearm(r)
  PROVE  Placement'
<1>1. /\ \A q \in Request : pc'[q] = IF q = r THEN "idle" ELSE pc[q]
      /\ \A q \in Request : cookie'[q] = IF q = r THEN None ELSE cookie[q]
      /\ \A q \in Request : q # r => sid'[q] = sid[q]
      /\ pc[r] = "rearm" /\ cookie[r] # None /\ state[cookie[r]] # "unborn"
  BY WebAssumption DEF PInv, AInv, IInv, Handlers, Placement, Rearm, Return, Goto, Sid
<1>2. /\ \A s \in Sid : state'[s] = IF s = cookie[r] THEN "active" ELSE state[s]
      /\ UNCHANGED <<stage, toLock, listed, gone>>
  BY DEF PInv, AInv, IInv, Sessions, Rearm, Activate
<1>3. \A s \in Sid : Known(s) => Known(s)'
  BY <1>1, <1>2 DEF Known
<1>4. \A q \in Request : cookie'[q] # None => state'[cookie'[q]] # "unborn"
  BY <1>1, <1>2 DEF PInv, AInv, IInv, Handlers, Placement
<1>5. stage # "drained"
  BY <1>1 DEF PInv, Placement
<1>6. stage \in {"serving", "draining"} => \A s \in Sid : state'[s] # "unborn" => Known(s)'
  BY <1>1, <1>2, <1>3 DEF PInv, Placement
<1>. QED
  BY <1>2, <1>4, <1>5, <1>6 DEF Placement

(* A new one is with its maker ...                                         *)
LEMMA CreatePlaces ==
  ASSUME PInv, NEW r \in Request, NEW s \in Sid, Create(r, s)
  PROVE  Placement'
BY WebAssumption DEF PInv, AInv, IInv, Handlers, Handler, Sessions, Server, Placement,
  Known, Activate, Goto, Create

LEMMA MintPlaces ==
  ASSUME PInv, NEW r \in Request, NEW s \in Sid, Mint(r, s)
  PROVE  Placement'
BY WebAssumption DEF PInv, AInv, IInv, Handlers, Handler, Sessions, Server, Placement,
  Known, Activate, Goto, Mint

(* ... until it is listed.                                                 *)
LEMMA ListPlaces ==
  ASSUME PInv, NEW r \in Request, List(r)
  PROVE  Placement'
BY WebAssumption DEF PInv, AInv, IInv, Handlers, Handler, Sessions, Server, Placement,
  Known, Return, Goto, List

LEMMA MintListPlaces ==
  ASSUME PInv, NEW r \in Request, MintList(r)
  PROVE  Placement'
BY WebAssumption DEF PInv, AInv, IInv, Handlers, Handler, Sessions, Server, Placement,
  Known, Goto, MintList

LEMMA MintLookupPlaces ==
  ASSUME PInv, NEW r \in Request, MintLookup(r)
  PROVE  Placement'
BY WebAssumption DEF PInv, AInv, IInv, Handlers, Handler, Sessions, Server, Placement,
  Known, Return, Goto, MintLookup

(* A logout takes a session along, and counts it as gone.                  *)
LEMMA DelistPlaces ==
  ASSUME PInv, NEW r \in Request, Delist(r)
  PROVE  Placement'
BY WebAssumption DEF PInv, AInv, IInv, Handlers, Handler, Sessions, Server, Placement,
  Known, Return, Goto, Delist

LEMMA LogoutLockPlaces ==
  ASSUME PInv, NEW r \in Request, LogoutLock(r)
  PROVE  Placement'
BY WebAssumption DEF PInv, AInv, IInv, Handlers, Handler, Sessions, Server, Placement,
  Known, Lock, Return, Goto, LogoutLock

(* Reads move no session.                                                  *)
LEMMA ResolvePlaces ==
  ASSUME PInv, NEW r \in Request, Resolve(r)
  PROVE  Placement'
BY WebAssumption DEF PInv, AInv, IInv, Handlers, Handler, Sessions, Server, Placement,
  Known, Return, Goto, Resolve

LEMMA CheckStatePlaces ==
  ASSUME PInv, NEW r \in Request, CheckState(r)
  PROVE  Placement'
BY WebAssumption DEF PInv, AInv, IInv, Handlers, Handler, Sessions, Server, Placement,
  Known, Return, Goto, CheckState

LEMMA TouchPlaces ==
  ASSUME PInv, NEW r \in Request, Touch(r)
  PROVE  Placement'
BY WebAssumption DEF PInv, AInv, IInv, Handlers, Handler, Sessions, Server, Placement,
  Known, Goto, Touch

LEMMA TakeVaultPlaces ==
  ASSUME PInv, NEW r \in Request, TakeVault(r)
  PROVE  Placement'
BY WebAssumption DEF PInv, AInv, IInv, Handlers, Handler, Sessions, Server, Placement,
  Known, Return, Goto, TakeVault

LEMMA ServePlaces ==
  ASSUME PInv, NEW r \in Request, Serve(r)
  PROVE  Placement'
BY WebAssumption DEF PInv, AInv, IInv, Handlers, Handler, Sessions, Server, Placement,
  Known, Return, Goto, Serve

(* Timers and locks activate none ...                                      *)
LEMMA FirePlaces ==
  ASSUME PInv, NEW s \in Sid, Fire(s)
  PROVE  Placement'
BY WebAssumption DEF PInv, AInv, IInv, Handlers, Handler, Sessions, Server, Placement,
  Known, Fire

LEMMA IdleLockPlaces ==
  ASSUME PInv, NEW s \in Sid, IdleLock(s)
  PROVE  Placement'
BY WebAssumption DEF PInv, AInv, IInv, Handlers, Handler, Sessions, Server, Placement,
  Known, Lock, IdleLock

LEMMA ShutdownLockPlaces ==
  ASSUME PInv, NEW s \in Sid, ShutdownLock(s)
  PROVE  Placement'
BY WebAssumption DEF PInv, AInv, IInv, Handlers, Handler, Sessions, Server, Placement,
  Known, Lock, ShutdownLock

(* ... and the shutdown takes the whole list, once no handler holds a      *)
(* session.                                                                *)
LEMMA ShutdownPlaces ==
  ASSUME PInv, Interrupt \/ Collect \/ Exit
  PROVE  Placement'
BY DEF PInv, AInv, IInv, Server, Placement, Known, Interrupt, Collect, Exit

LEMMA PlaceStep == PInv /\ [Next]_vars => Placement'
<1> SUFFICES ASSUME PInv, [Next]_vars
             PROVE  Placement'
  OBVIOUS
<1>1. ASSUME NEW r \in Request, Step(r)
      PROVE  Placement'
  BY <1>1, UnlockPlaces, RefuseLoginPlaces, RearmPlaces, CreatePlaces, MintPlaces,
     ListPlaces, MintListPlaces, MintLookupPlaces, DelistPlaces, LogoutLockPlaces,
     ResolvePlaces, CheckStatePlaces, TouchPlaces, TakeVaultPlaces, ServePlaces DEF
     Step
<1>2. ASSUME NEW r \in Request, NEW h \in {"login", "logout", "read"}, Arrive(r, h)
      PROVE  Placement'
  BY <1>2, ArrivePlaces
<1>3. ASSUME NEW s \in Sid, Fire(s) \/ IdleLock(s) \/ ShutdownLock(s)
      PROVE  Placement'
  BY <1>3, FirePlaces, IdleLockPlaces, ShutdownLockPlaces
<1>4. CASE Interrupt \/ Collect \/ Exit
  BY <1>4, ShutdownPlaces
<1>5. CASE UNCHANGED vars
  BY <1>5 DEF PInv, Placement, Known, vars
<1>. QED
  BY <1>1, <1>2, <1>3, <1>4, <1>5 DEF Next

LEMMA PInvariance == Spec => []PInv
<1>1. Init => PInv
  BY Initially, NoneDeparted, NothingPlaced DEF PInv, AInv
<1>2. PInv /\ [Next]_vars => PInv'
  BY InvStep, DepartStep, PlaceStep DEF PInv, AInv
<1>. QED
  BY <1>1, <1>2, PTL DEF Spec

(* The keys that an orderly shutdown leaves unwiped are all held by        *)
(* sessions that were logged out and re-armed.                             *)
THEOREM ShutdownWipes == Spec => []OnlyLogoutsOutliveShutdown
<1>1. PInv => OnlyLogoutsOutliveShutdown
  <2> SUFFICES ASSUME PInv, stage = "drained", toLock = {}, NEW k \in 1..keys
               PROVE  k \in zeroed \/ \E s \in gone : dek[s] = k
    BY DEF OnlyLogoutsOutliveShutdown
  <2>1. \A r \in Request : key[r] # k
    BY WebAssumption DEF PInv, AInv, IInv, Handlers, Placement
  <2>2. \A s \in Sid : state[s] = "active" => s \in gone
    BY DEF PInv, Placement
  <2>. QED
    BY <2>1, <2>2 DEF PInv, AInv, IInv, Ownership, KeysAreHeldOrZeroed
<1>. QED
  BY <1>1, PInvariance, PTL
=============================================================================
