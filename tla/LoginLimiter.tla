--------------------------- MODULE LoginLimiter ---------------------------
(***************************************************************************)
(* The throttle in front of POST /api/login (internal/serve): one address, *)
(* several handlers between allow() and recordFailure() at once, which is  *)
(* as long as the key derivation takes.  Other addresses have an entry of  *)
(* their own and are independent.  Time is counted in steps; the program's *)
(* values are Window 60 s, Thresh 3, Cooloff 30 s.                         *)
(***************************************************************************)
EXTENDS Naturals, Sequences, FiniteSets

CONSTANTS Handler,     \* login requests handled at once
          Window, Thresh, Cooloff,
          MaxTime      \* bound: the clock

ASSUME LimiterAssumption ==
  /\ Window \in Nat \ {0} /\ Thresh \in Nat \ {0} /\ Cooloff \in Nat \ {0}
  /\ Cooloff <= Window
  /\ MaxTime \in Nat \ {0} /\ IsFiniteSet(Handler)

Time == 1..MaxTime

VARIABLES now,
          failures,      \* rlState.failures, oldest first
          lockedUntil,   \* rlState.lockedUntil, 0: none
          trying,        \* handlers that allow() let through
          failed         \* when logins failed since the last success (history)

limiter == <<failures, lockedUntil>>
vars == <<now, limiter, trying, failed>>

Init ==
  /\ now = 1
  /\ failures = <<>> /\ lockedUntil = 0
  /\ trying = {}
  /\ failed = <<>>

Locked == now < lockedUntil

(* handleLogin asks allow() first; a refused request is answered 429.      *)
Allow(h) ==
  /\ h \notin trying /\ ~Locked
  /\ trying' = trying \cup {h}
  /\ UNCHANGED <<now, limiter, failed>>

(* A body that is no login request returns without a record.               *)
Malformed(h) ==
  /\ h \in trying
  /\ trying' = trying \ {h}
  /\ UNCHANGED <<now, limiter, failed>>

(* The failures still inside the window: the last ones, as the clock is    *)
(* monotonic and failures is in order.                                     *)
Kept == LET old == {i \in DOMAIN failures : failures[i] + Window <= now}
        IN  SubSeq(failures, Cardinality(old) + 1, Len(failures))

(* Mutant: the threshold has to be exceeded.                               *)
RecordFailureLate(h) ==
  /\ h \in trying
  /\ trying' = trying \ {h}
  /\ LET counted == Append(Kept, now) IN
       IF Len(counted) > Thresh
       THEN failures' = <<>> /\ lockedUntil' = now + Cooloff
       ELSE failures' = counted /\ UNCHANGED lockedUntil
  /\ failed' = Append(failed, now)
  /\ UNCHANGED now

(* vault.Open failed, or its payload is corrupt.                           *)
RecordFailure(h) ==
  /\ h \in trying
  /\ trying' = trying \ {h}
  /\ LET counted == Append(Kept, now) IN
       IF Len(counted) >= Thresh
       THEN failures' = <<>> /\ lockedUntil' = now + Cooloff
       ELSE failures' = counted /\ UNCHANGED lockedUntil
  /\ failed' = Append(failed, now)
  /\ UNCHANGED now

(* Mutant: success keeps the failures counted so far.                      *)
RecordSuccessKeeps(h) ==
  /\ h \in trying
  /\ trying' = trying \ {h}
  /\ lockedUntil' = 0 /\ failed' = <<>>
  /\ UNCHANGED <<now, failures>>

(* The entry is deleted, a lockout that others tripped included.           *)
RecordSuccess(h) ==
  /\ h \in trying
  /\ trying' = trying \ {h}
  /\ failures' = <<>> /\ lockedUntil' = 0
  /\ failed' = <<>>
  /\ UNCHANGED now

Tick ==
  /\ now < MaxTime
  /\ now' = now + 1
  /\ UNCHANGED <<limiter, trying, failed>>

Next == \/ Tick
        \/ \E h \in Handler :
             Allow(h) \/ Malformed(h) \/ RecordFailure(h) \/ RecordSuccess(h)

Spec == Init /\ [][Next]_vars

-----------------------------------------------------------------------------
(* Type invariant; the counted failures are in order and below Thresh.     *)
TypeOK ==
  /\ now \in Time
  /\ lockedUntil \in Nat
  /\ trying \subseteq Handler
  /\ failed \in Seq(1..now)
  /\ failures \in Seq(1..now) /\ Len(failures) < Thresh
  /\ \A i, j \in DOMAIN failures : i <= j => failures[i] <= failures[j]

(* Guessing is throttled: between two successes, no Cooloff sees more than *)
(* Thresh failed logins, and one more for each other handler, which may    *)
(* have been past allow() when the lockout began.                          *)
GuessingIsThrottled ==
  \A i, j \in DOMAIN failed :
    j - i >= Thresh + Cardinality(Handler) - 1 => failed[j] - failed[i] >= Cooloff

(* A lockout is earned: it began with a failure, and Thresh logins failed  *)
(* within the Window that ended then, all after the last success, so       *)
(* mistyping below the threshold, or before a success, never locks anyone  *)
(* out.                                                                    *)
LockoutIsEarned ==
  Locked => \E i, j \in DOMAIN failed :
              /\ j - i = Thresh - 1
              /\ failed[j] = lockedUntil - Cooloff
              /\ failed[i] + Window > failed[j]
=============================================================================
