---------------------------- MODULE WebSession ----------------------------
(***************************************************************************)
(* The session store of kpot serve (internal/serve): concurrent login,     *)
(* logout and note requests, the idle timers, whose callbacks run in       *)
(* goroutines of their own, minting from the keychain bootstrap, and the   *)
(* shutdown on SIGINT.  One action per critical section of st.mu or s.mu,  *)
(* so every interleaving the two mutexes allow is here.                    *)
(*                                                                         *)
(* A key is the byte slice vault.Open returned to one login; it is wiped   *)
(* by crypto.Zero.  Cookies are session ids handed out before: an id the   *)
(* server does not list stands for a forgotten or logged-out one.          *)
(***************************************************************************)
EXTENDS Naturals, FiniteSets

CONSTANTS Request,       \* handler goroutines that can run at once
          None,
          Bootstrap,     \* TRUE: the keychain held a key at startup
          Idle,          \* TRUE: the idle timeout is enabled
          MaxRequests,   \* bound: requests that arrive, in all (each opens at
                         \* most one session and derives at most one key)
          MaxMints       \* bound: sessions minted from the bootstrap, in all

ASSUME WebAssumption ==
  /\ Bootstrap \in BOOLEAN /\ Idle \in BOOLEAN
  /\ MaxRequests \in Nat /\ MaxMints \in Nat /\ None \notin Nat

VARIABLES state,     \* Sid -> unborn (not issued yet), active or locked
          dek,       \* Sid -> the key slice the session owns
          timer,     \* Sid -> idleTimer: nil, armed or fired
          firing,    \* Sid -> callbacks of Lock that have started but not run
          listed,    \* the keys of st.sessions
          pc,        \* Request -> the next critical section of its handler
          cookie,    \* Request -> the cookie it carries
          key,       \* Request -> the key a login holds
          sid,       \* Request -> the session a handler works on
          stage,     \* the server: serving, draining, drained, cutoff, exited
          toLock,    \* what sessions.Shutdown has still to lock
          zeroed,    \* keys that have been wiped
          keys,      \* keys derived so far
          arrived,   \* requests that have arrived
          minted,    \* sessions minted from the bootstrap so far
          gone,      \* sessions whose logout has completed (history)
          barred     \* Request -> sessions logged out before it came (history)

sessionVars == <<state, dek, timer, firing, zeroed>>
requestVars == <<pc, cookie, key, sid>>
serverVars == <<stage, toLock, listed>>
countVars == <<keys, arrived, minted>>
historyVars == <<gone, barred>>
vars == <<sessionVars, requestVars, serverVars, countVars, historyVars>>

Sid == 1..MaxRequests   \* newSID is random: which id comes next does not matter
Running == stage # "exited"

-----------------------------------------------------------------------------
Init ==
  /\ state = [s \in Sid |-> "unborn"]
  /\ dek = [s \in Sid |-> None]
  /\ timer = [s \in Sid |-> "nil"]
  /\ firing = [s \in Sid |-> 0]
  /\ listed = {} /\ toLock = {} /\ zeroed = {} /\ gone = {}
  /\ pc = [r \in Request |-> "idle"]
  /\ cookie = [r \in Request |-> None]
  /\ key = [r \in Request |-> None]
  /\ sid = [r \in Request |-> None]
  /\ barred = [r \in Request |-> {}]
  /\ stage = "serving"
  /\ keys = 0 /\ arrived = 0 /\ minted = 0

(* Mutant: the session's previous key is dropped, not wiped.               *)
ActivateDropsKey(s, k) ==
  /\ state' = [state EXCEPT ![s] = "active"]
  /\ dek' = [dek EXCEPT ![s] = k]
  /\ timer' = [timer EXCEPT ![s] = IF Idle THEN "armed" ELSE "nil"]
  /\ UNCHANGED <<zeroed, firing>>

(* Mutant: the timer is stopped after the new one was started.             *)
ActivateStopsLast(s, k) ==
  /\ state' = [state EXCEPT ![s] = "active"]
  /\ dek' = [dek EXCEPT ![s] = k]
  /\ zeroed' = zeroed \cup ({dek[s]} \ {None})
  /\ timer' = [timer EXCEPT ![s] = "nil"]
  /\ UNCHANGED firing

(* webSession.activate, under s.mu: the old key is wiped, the old timer    *)
(* stopped.  A callback that has already started is not.                   *)
Activate(s, k) ==
  /\ state' = [state EXCEPT ![s] = "active"]
  /\ dek' = [dek EXCEPT ![s] = k]
  /\ zeroed' = zeroed \cup ({dek[s]} \ {None})
  /\ timer' = [timer EXCEPT ![s] = IF Idle THEN "armed" ELSE "nil"]
  /\ UNCHANGED firing

(* webSession.Lock, under s.mu; a second call does nothing.                *)
Lock(s) ==
  IF state[s] = "active"
  THEN /\ state' = [state EXCEPT ![s] = "locked"]
       /\ dek' = [dek EXCEPT ![s] = None]
       /\ zeroed' = zeroed \cup ({dek[s]} \ {None})
       /\ timer' = [timer EXCEPT ![s] = "nil"]
  ELSE UNCHANGED <<state, dek, zeroed, timer>>

Goto(r, from, to) == Running /\ pc[r] = from /\ pc' = [pc EXCEPT ![r] = to]

(* The handler returns: its locals are dead.                               *)
Return(r, from) ==
  /\ Goto(r, from, "idle")
  /\ cookie' = [cookie EXCEPT ![r] = None]
  /\ key' = [key EXCEPT ![r] = None]
  /\ sid' = [sid EXCEPT ![r] = None]
  /\ barred' = [barred EXCEPT ![r] = {}]

(* The id newSID returns: one that was never issued.                       *)
Fresh(s) == state[s] = "unborn" /\ \A t \in 1..(s - 1) : state[t] # "unborn"

-----------------------------------------------------------------------------
(* Cookies are ids that have been issued, or none.                         *)
Arrive(r, handler) ==
  /\ Goto(r, "idle", handler)
  /\ stage = "serving" /\ arrived < MaxRequests
  /\ arrived' = arrived + 1
  /\ \E c \in {s \in Sid : state[s] # "unborn"} \cup {None} :
       cookie' = [cookie EXCEPT ![r] = c]
  /\ barred' = [barred EXCEPT ![r] = IF handler = "read" THEN gone ELSE {}]
  /\ UNCHANGED <<key, sid, sessionVars, serverVars, keys, minted, gone>>

(* POST /api/login: the passphrase opens the vault, which touches nothing  *)
(* shared, and sessionStore.Activate looks the cookie up under st.mu ...   *)
Unlock(r) ==
  /\ Goto(r, "login", IF cookie[r] \in listed THEN "rearm" ELSE "create")
  /\ keys' = keys + 1
  /\ key' = [key EXCEPT ![r] = keys + 1]
  /\ UNCHANGED <<cookie, sid, sessionVars, serverVars, arrived, minted, historyVars>>

RefuseLogin(r) ==
  /\ Return(r, "login")
  /\ UNCHANGED <<sessionVars, serverVars, countVars, gone>>

(* ... and re-arms it under s.mu, without asking whether it still is in    *)
(* the map.                                                                *)
Rearm(r) ==
  /\ Return(r, "rearm")
  /\ Activate(cookie[r], key[r])
  /\ UNCHANGED <<serverVars, countVars, gone>>

(* sessionStore.Create: activated first, listed after.                     *)
Create(r, s) ==
  /\ Goto(r, "create", "list")
  /\ Fresh(s)
  /\ Activate(s, key[r])
  /\ sid' = [sid EXCEPT ![r] = s]
  /\ key' = [key EXCEPT ![r] = None]
  /\ UNCHANGED <<cookie, serverVars, countVars, historyVars>>

(* Mutants: the handler wipes the key it handed over, as it does the       *)
(* plaintext; the new session is listed under the cookie that was sent.    *)
ListZeroesKey(r) ==
  /\ Return(r, "list")
  /\ listed' = listed \cup {sid[r]}
  /\ zeroed' = zeroed \cup ({dek[sid[r]]} \ {None})
  /\ UNCHANGED <<stage, toLock, state, dek, timer, firing, countVars, gone>>

ListUnderCookie(r) ==
  /\ Return(r, "list")
  /\ listed' = listed \cup {cookie[r]}
  /\ UNCHANGED <<stage, toLock, sessionVars, countVars, gone>>

List(r) ==
  /\ Return(r, "list")
  /\ listed' = listed \cup {sid[r]}
  /\ UNCHANGED <<stage, toLock, sessionVars, countVars, gone>>

(* POST /api/logout: out of the map under st.mu, then locked under s.mu.   *)
Delist(r) ==
  /\ IF cookie[r] \in listed
     THEN Goto(r, "logout", "lock") /\ UNCHANGED <<cookie, key, sid, barred>>
     ELSE Return(r, "logout")
  /\ listed' = listed \ {cookie[r]}
  /\ UNCHANGED <<stage, toLock, sessionVars, countVars, gone>>

LogoutLock(r) ==
  /\ Return(r, "lock")
  /\ Lock(cookie[r])
  /\ gone' = gone \cup {cookie[r]}
  /\ UNCHANGED <<firing, serverVars, countVars>>

(* GET /api/notes: resolveSession looks the cookie up ...                  *)
Resolve(r) ==
  /\ \/ /\ cookie[r] \in listed
        /\ Goto(r, "read", "state")
        /\ sid' = [sid EXCEPT ![r] = cookie[r]]
        /\ UNCHANGED <<cookie, key, barred>>
     \/ /\ cookie[r] \notin listed /\ Bootstrap
        /\ Goto(r, "read", "mint")
        /\ UNCHANGED <<cookie, key, sid, barred>>
     \/ /\ cookie[r] \notin listed /\ ~Bootstrap
        /\ Return(r, "read")
  /\ UNCHANGED <<sessionVars, serverVars, countVars, gone>>

(* ... answers 401 if it is locked ...                                     *)
CheckState(r) ==
  /\ pc[r] = "state"
  /\ IF state[sid[r]] = "locked"
     THEN Return(r, "state")
     ELSE Goto(r, "state", "touch") /\ UNCHANGED <<cookie, key, sid, barred>>
  /\ UNCHANGED <<sessionVars, serverVars, countVars, gone>>

(* ... and pushes the idle timer back.  Resetting a timer that has fired   *)
(* arms it again, and leaves the started callback to run.                  *)
Touch(r) ==
  /\ Goto(r, "touch", "vault")
  /\ timer' = IF state[sid[r]] = "active" /\ timer[sid[r]] # "nil" /\ Idle
              THEN [timer EXCEPT ![sid[r]] = "armed"] ELSE timer
  /\ UNCHANGED <<cookie, key, sid, state, dek, firing, zeroed, serverVars,
                 countVars, historyVars>>

(* A request without a listed cookie, with a bootstrap: a new session,     *)
(* without a key, on the notes read at startup.                            *)
Mint(r, s) ==
  /\ Goto(r, "mint", "mintlist") /\ minted < MaxMints
  /\ Fresh(s)
  /\ Activate(s, None)
  /\ sid' = [sid EXCEPT ![r] = s]
  /\ minted' = minted + 1
  /\ UNCHANGED <<cookie, key, serverVars, keys, arrived, historyVars>>

MintList(r) ==
  /\ Goto(r, "mintlist", "lookup")
  /\ listed' = listed \cup {sid[r]}
  /\ UNCHANGED <<cookie, key, sid, stage, toLock, sessionVars, countVars, historyVars>>

MintLookup(r) ==
  /\ pc[r] = "lookup"
  /\ IF sid[r] \in listed
     THEN Goto(r, "lookup", "vault") /\ UNCHANGED <<cookie, key, sid, barred>>
     ELSE Return(r, "lookup")
  /\ UNCHANGED <<sessionVars, serverVars, countVars, gone>>

(* Mutant: a session without notes falls back on the bootstrap's.          *)
TakeVaultOrBootstrap(r) ==
  /\ pc[r] = "vault"
  /\ IF state[sid[r]] = "active" \/ Bootstrap
     THEN Goto(r, "vault", "serve") /\ UNCHANGED <<cookie, key, sid, barred>>
     ELSE Return(r, "vault")
  /\ UNCHANGED <<sessionVars, serverVars, countVars, gone>>

(* sess.Vault(), under s.mu; what it returns is used after the unlock.     *)
TakeVault(r) ==
  /\ pc[r] = "vault"
  /\ IF state[sid[r]] = "active"
     THEN Goto(r, "vault", "serve") /\ UNCHANGED <<cookie, key, sid, barred>>
     ELSE Return(r, "vault")
  /\ UNCHANGED <<sessionVars, serverVars, countVars, gone>>

Serve(r) ==
  /\ Return(r, "serve")
  /\ UNCHANGED <<sessionVars, serverVars, countVars, gone>>

-----------------------------------------------------------------------------
(* The idle timer: it fires, and its goroutine calls Lock some time later. *)
Fire(s) ==
  /\ Running /\ timer[s] = "armed"
  /\ timer' = [timer EXCEPT ![s] = "fired"]
  /\ firing' = [firing EXCEPT ![s] = @ + 1]
  /\ UNCHANGED <<state, dek, zeroed, requestVars, serverVars, countVars, historyVars>>

(* Mutant: the callback finds its session through the store.               *)
IdleLockListed(s) ==
  /\ Running /\ firing[s] > 0
  /\ firing' = [firing EXCEPT ![s] = @ - 1]
  /\ IF s \in listed THEN Lock(s) ELSE UNCHANGED <<state, dek, zeroed, timer>>
  /\ UNCHANGED <<requestVars, serverVars, countVars, historyVars>>

IdleLock(s) ==
  /\ Running /\ firing[s] > 0
  /\ firing' = [firing EXCEPT ![s] = @ - 1]
  /\ Lock(s)
  /\ UNCHANGED <<requestVars, serverVars, countVars, historyVars>>

-----------------------------------------------------------------------------
(* SIGINT: no more connections; running handlers get five seconds.         *)
Interrupt ==
  /\ stage = "serving"
  /\ stage' = "draining"
  /\ UNCHANGED <<toLock, listed, sessionVars, requestVars, countVars, historyVars>>

(* Mutant: the sessions are collected without waiting for the handlers.    *)
CollectAtOnce ==
  /\ stage = "draining"
  /\ stage' = "drained"
  /\ toLock' = listed /\ listed' = {}
  /\ UNCHANGED <<sessionVars, requestVars, countVars, historyVars>>

(* sessions.Shutdown, after the handlers returned or the time was up.      *)
Collect ==
  /\ stage = "draining"
  /\ stage' = IF \A r \in Request : pc[r] = "idle" THEN "drained" ELSE "cutoff"
  /\ toLock' = listed /\ listed' = {}
  /\ UNCHANGED <<sessionVars, requestVars, countVars, historyVars>>

ShutdownLock(s) ==
  /\ stage \in {"drained", "cutoff"} /\ s \in toLock
  /\ toLock' = toLock \ {s}
  /\ Lock(s)
  /\ UNCHANGED <<firing, stage, listed, requestVars, countVars, historyVars>>

Exit ==
  /\ stage \in {"drained", "cutoff"} /\ toLock = {}
  /\ stage' = "exited"
  /\ UNCHANGED <<toLock, listed, sessionVars, requestVars, countVars, historyVars>>

Step(r) == \/ Unlock(r) \/ RefuseLogin(r) \/ Rearm(r)
           \/ (\E s \in Sid : Create(r, s) \/ Mint(r, s)) \/ List(r) \/ MintList(r) \/ MintLookup(r)
           \/ Delist(r) \/ LogoutLock(r)
           \/ Resolve(r) \/ CheckState(r) \/ Touch(r) \/ TakeVault(r) \/ Serve(r)

Next == \/ \E r \in Request : Step(r) \/ \E h \in {"login", "logout", "read"} : Arrive(r, h)
        \/ \E s \in Sid : Fire(s) \/ IdleLock(s) \/ ShutdownLock(s)
        \/ Interrupt \/ Collect \/ Exit

(* Handlers and timer goroutines are scheduled by the Go runtime; users    *)
(* need not send anything, and SIGINT need not come.                       *)
Fairness == /\ \A r \in Request : WF_vars(Step(r))
            /\ \A s \in Sid : WF_vars(Fire(s)) /\ WF_vars(IdleLock(s))

Spec == Init /\ [][Next]_vars
FairSpec == Spec /\ Fairness

-----------------------------------------------------------------------------
Handler == {"idle", "login", "rearm", "create", "list", "logout", "lock",
            "read", "state", "touch", "mint", "mintlist", "lookup", "vault", "serve"}

(* Type invariant.                                                         *)
TypeOK ==
  /\ state \in [Sid -> {"unborn", "active", "locked"}]
  /\ dek \in [Sid -> Nat \cup {None}]
  /\ timer \in [Sid -> {"nil", "armed", "fired"}]
  /\ firing \in [Sid -> Nat]
  /\ listed \subseteq Sid /\ toLock \subseteq Sid /\ gone \subseteq Sid
  /\ pc \in [Request -> Handler]
  /\ cookie \in [Request -> Sid \cup {None}]
  /\ key \in [Request -> Nat \cup {None}]
  /\ sid \in [Request -> Sid \cup {None}]
  /\ barred \in [Request -> SUBSET Sid]
  /\ stage \in {"serving", "draining", "drained", "cutoff", "exited"}
  /\ zeroed \subseteq Nat
  /\ keys \in Nat /\ arrived \in Nat /\ minted \in Nat

(* No key is forgotten: whatever logins, logouts, expiries and re-logins   *)
(* through the same cookie do at once, a derived key is wiped, or still in *)
(* the hands of one login or of one active session.                        *)
KeysAreHeldOrZeroed ==
  \A k \in 1..keys :
    \/ k \in zeroed
    \/ \E s \in Sid : dek[s] = k /\ state[s] = "active"
    \/ \E r \in Request : key[r] = k

(* A key has one owner, and nobody wipes it under that owner's hands.      *)
HeldKeysAreIntact ==
  /\ \A s, t \in Sid : dek[s] # None => dek[s] \notin zeroed /\ (dek[s] = dek[t] => s = t)
  /\ \A s \in Sid, r \in Request :
       key[r] # None => key[r] \notin zeroed /\ key[r] # dek[s]

(* However expiry, logout and re-login fall between a request's lookup,    *)
(* its state check and its use of the notes, it answers from a session     *)
(* that is active when it takes the notes, and never from one whose logout *)
(* had completed before the request came.                                  *)
AnswersComeFromLiveSessions ==
  [][\A r \in Request :
       pc[r] # "serve" /\ pc'[r] = "serve"
       => state[sid[r]] = "active" /\ sid[r] \notin barred[r]]_vars

(* Every active session of a running server has an idle timer that will    *)
(* lock it: it is armed, or its callback has started.                      *)
ActiveSessionsAreTimed ==
  \A s \in Sid : (Idle /\ state[s] = "active") => timer[s] = "armed" \/ firing[s] > 0

(* Once requests stop coming, every session ends locked, the ones that a   *)
(* login re-armed after a logout had removed them included.                *)
IdleSessionsLock ==
  <>[](stage = "exited" \/ \A s \in Sid : state[s] # "active")

(* A shutdown that waited for the handlers wipes every key, the ones that  *)
(* logins took to sessions not listed yet included, but for those of       *)
(* sessions that a login re-armed while their logout was under way         *)
(* (session.go:178): these alone the store no longer knows.                *)
OnlyLogoutsOutliveShutdown ==
  stage = "drained" /\ toLock = {} =>
    \A k \in 1..keys : k \in zeroed \/ \E s \in gone : dek[s] = k

(* Claimed, and not so: once SIGINT has let the handlers return and locked *)
(* the sessions, all keys are wiped (docs/serve.md).                       *)
KeysAreZeroedAtExit ==
  stage = "drained" /\ toLock = {} => 1..keys \subseteq zeroed

(* Claimed, and not so: a request with a logged-out cookie is asked to     *)
(* log in (the comment on Destroy); no session is minted for it.           *)
LoggedOutMustLogin == \A r \in Request : pc[r] = "mint" => cookie[r] \notin gone
=============================================================================
