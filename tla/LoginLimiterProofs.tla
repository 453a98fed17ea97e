-------------------------- MODULE LoginLimiterProofs --------------------------
(***************************************************************************)
(* Proofs about LoginLimiter, for any number of handlers, any threshold    *)
(* and any times with Cooloff <= Window.                                   *)
(*                                                                         *)
(* The invariant: the failures counted are the last ones of the history,   *)
(* and each failure of the last Cooloff either is still counted, with all  *)
(* that came after it, or a lockout has begun since, in which only the     *)
(* handlers that are still trying can add to them.                         *)
(***************************************************************************)
EXTENDS LoginLimiter, FiniteSetTheorems, WellFoundedInduction, TLAPS

-----------------------------------------------------------------------------
(* Sequences and numbers.                                                  *)

(* A nonempty set of naturals has a least element.                         *)
LEMMA Least ==
  ASSUME NEW T, T \subseteq Nat, T # {}
  PROVE  \E x \in T : \A y \in T : x <= y
<1>1. IsWellFoundedOn(OpToRel(<, Nat), Nat)
  BY NatLessThanWellFounded
<1>2. PICK x \in T : \A y \in T : ~ (<<y, x>> \in OpToRel(<, Nat))
  BY <1>1, WFMin, Zenon
<1>3. ASSUME NEW y \in T PROVE x <= y
  <2>1. <<y, x>> \notin OpToRel(<, Nat)
    BY <1>2
  <2>2. QED
    BY <2>1 DEF OpToRel
<1>4. QED
  BY <1>3

Ordered(s) == \A i, j \in DOMAIN s : i <= j => s[i] <= s[j]

(* What is left of an ordered sequence without its entries up to bound is  *)
(* its end: the entries past a position n, all later than bound.           *)
LEMMA OldOnesComeFirst ==
  ASSUME NEW s \in Seq(Nat), Ordered(s), NEW bound \in Int
  PROVE  LET old == {i \in DOMAIN s : s[i] <= bound}
         IN  /\ Cardinality(old) \in 0..Len(s)
             /\ old = 1..Cardinality(old)
<1> DEFINE old == {i \in DOMAIN s : s[i] <= bound}
           T == {k \in Nat \ {0} : k = Len(s) + 1 \/ (k \in DOMAIN s /\ s[k] > bound)}
<1>1. PICK k \in T : \A y \in T : k <= y
  <2>1. T \subseteq Nat /\ Len(s) + 1 \in T
    OBVIOUS
  <2>2. QED
    BY <2>1, Least, Zenon
<1>2. k \in 1..(Len(s) + 1)
  BY <1>1
<1>3. old = 1..(k - 1)
  <2>1. ASSUME NEW i \in old PROVE i \in 1..(k - 1)
    <3>1. SUFFICES ASSUME k <= i PROVE FALSE
      BY <1>2
    <3>2. k \in DOMAIN s /\ s[k] > bound
      BY <1>1, <1>2, <3>1
    <3>3. QED
      BY <3>1, <3>2 DEF Ordered
  <2>2. ASSUME NEW i \in 1..(k - 1) PROVE i \in old
    <3>1. i \in DOMAIN s /\ i \notin T
      BY <1>1, <1>2
    <3>2. QED
      BY <3>1
  <2>3. QED
    BY <2>1, <2>2
<1>4. Cardinality(1..(k - 1)) = k - 1
  <2>1. 1 \in Int /\ k - 1 \in Int
    BY <1>2
  <2>2. Cardinality(1..(k - 1)) = IF 1 > k - 1 THEN 0 ELSE k - 1 - 1 + 1
    BY <2>1, FS_Interval, Zenon
  <2>3. QED
    BY <1>2, <2>2
<1>5. Cardinality(old) = k - 1
  BY <1>3, <1>4, Zenon
<1> HIDE DEF old
<1>6. Cardinality(old) \in 0..Len(s) /\ old = 1..Cardinality(old)
  BY <1>2, <1>3, <1>5
<1>7. QED
  BY <1>6 DEF old

(* c is the end of f.                                                      *)
IsEnd(c, f) ==
  /\ Len(c) <= Len(f)
  /\ \A i \in DOMAIN c : c[i] = f[Len(f) - Len(c) + i]

(* The clock is monotonic: what it says now goes to the end.               *)
LEMMA AppendOrdered ==
  ASSUME NEW t \in Nat, NEW f \in Seq(1..t), Ordered(f)
  PROVE  Ordered(Append(f, t))
<1> DEFINE h == Append(f, t)
<1>1. /\ Len(f) \in Nat /\ DOMAIN f = 1..Len(f) /\ DOMAIN h = 1..(Len(f) + 1)
      /\ \A i \in 1..Len(f) : h[i] = f[i] /\ f[i] \in Int /\ f[i] <= t
      /\ h[Len(f) + 1] = t
  OBVIOUS
<1> HIDE DEF h
<1>2. SUFFICES ASSUME NEW i \in DOMAIN h, NEW j \in DOMAIN h, i <= j
               PROVE  h[i] <= h[j]
  BY DEF Ordered, h
<1>3. i \in 1..(Len(f) + 1) /\ j \in 1..(Len(f) + 1)
  BY <1>1
<1>4. CASE j = Len(f) + 1
  BY <1>1, <1>3, <1>4
<1>5. CASE j \in 1..Len(f)
  <2>1. i \in 1..Len(f)
    BY <1>1, <1>2, <1>3, <1>5
  <2>2. f[i] <= f[j]
    BY <1>1, <1>2, <1>5, <2>1 DEF Ordered
  <2>3. QED
    BY <1>1, <1>5, <2>1, <2>2
<1>6. QED
  BY <1>1, <1>3, <1>4, <1>5

(* An end of an ordered sequence is ordered.                               *)
LEMMA EndOrdered ==
  ASSUME NEW f \in Seq(Nat), NEW c \in Seq(Nat), Ordered(f), IsEnd(c, f)
  PROVE  Ordered(c)
<1>1. SUFFICES ASSUME NEW i \in DOMAIN c, NEW j \in DOMAIN c, i <= j
               PROVE  c[i] <= c[j]
  BY DEF Ordered
<1>2. /\ Len(f) - Len(c) + i \in DOMAIN f /\ Len(f) - Len(c) + j \in DOMAIN f
      /\ Len(f) - Len(c) + i <= Len(f) - Len(c) + j
  BY <1>1 DEF IsEnd
<1>3. f[Len(f) - Len(c) + i] <= f[Len(f) - Len(c) + j]
  BY <1>2 DEF Ordered
<1>4. QED
  BY <1>3 DEF IsEnd

LEMMA Shift ==
  ASSUME NEW a \in Nat, NEW b \in Nat, a <= b,
         NEW n \in Nat, NEW i \in Nat, i >= 1, i <= a - n
  PROVE  n + i \in 1..a /\ b - a + (n + i) \in 1..b
OBVIOUS

LEMMA ShiftBack ==
  ASSUME NEW a \in Nat, NEW b \in Nat, a <= b, NEW i \in 1..b, b - i + 1 <= a
  PROVE  i - (b - a) \in 1..a
OBVIOUS

(* c without its first n, and one more, is the end of f and that one.      *)
LEMMA EndAppended ==
  ASSUME NEW t \in Nat, NEW f \in Seq(1..t), NEW c \in Seq(1..t), NEW k \in Seq(1..t),
         IsEnd(c, f),
         NEW n \in 0..Len(c), Len(k) = Len(c) - n,
         \A i \in 1..Len(k) : k[i] = c[n + i]
  PROVE  IsEnd(Append(k, t), Append(f, t))
<1> DEFINE d == Append(k, t)
           h == Append(f, t)
<1>1. /\ Len(d) = Len(c) - n + 1 /\ Len(h) = Len(f) + 1
      /\ Len(f) \in Nat /\ Len(c) \in Nat /\ Len(c) <= Len(f)
      /\ DOMAIN c = 1..Len(c) /\ DOMAIN d = 1..(Len(c) - n + 1)
      /\ \A i \in 1..(Len(c) - n) : d[i] = k[i]
      /\ \A i \in 1..Len(f) : h[i] = f[i]
      /\ d[Len(c) - n + 1] = t /\ h[Len(f) + 1] = t
  BY DEF IsEnd
<1> HIDE DEF d, h
<1>2. ASSUME NEW i \in DOMAIN d PROVE d[i] = h[Len(h) - Len(d) + i]
  <2>1. i \in 1..(Len(c) - n + 1)
    BY <1>1
  <2>2. CASE i = Len(c) - n + 1
    BY <1>1, <2>2
  <2>3. CASE i \in 1..(Len(c) - n)
    <3> DEFINE p == n + i
               q == Len(f) - Len(c) + p
    <3>1. i \in Nat /\ n \in Nat /\ i >= 1 /\ i <= Len(c) - n
      BY <1>1, <2>3
    <3>2. p \in 1..Len(c) /\ q \in 1..Len(f)
      BY <1>1, <3>1, Shift
    <3>3. Len(h) - Len(d) + i = q
      BY <1>1, <3>1
    <3>4. p \in DOMAIN c
      BY <1>1, <3>2
    <3>5. k[i] = c[p] /\ d[i] = k[i]
      BY <1>1, <2>3
    <3>6. c[p] = f[q]
      BY <3>4 DEF IsEnd
    <3>7. h[q] = f[q]
      BY <1>1, <3>2
    <3> HIDE DEF p, q
    <3>8. QED
      BY <3>3, <3>5, <3>6, <3>7
  <2>4. QED
    BY <1>1, <2>1, <2>2, <2>3
<1>3. Len(d) <= Len(h)
  BY <1>1
<1>4. QED
  BY <1>2, <1>3 DEF IsEnd, d, h

(* A late entry of f that is in its end c stays there.                     *)
LEMMA LateOnesStay ==
  ASSUME NEW t \in Nat, NEW win \in Nat,
         NEW f \in Seq(1..t), NEW c \in Seq(1..t), IsEnd(c, f),
         NEW n \in 0..Len(c), \A i \in DOMAIN c : c[i] + win > t => i > n,
         NEW i \in DOMAIN f, f[i] + win > t, Len(f) - i + 1 <= Len(c)
  PROVE  Len(f) - i + 1 <= Len(c) - n
<1> DEFINE p == i - (Len(f) - Len(c))
<1>1. /\ Len(f) \in Nat /\ Len(c) \in Nat /\ i \in 1..Len(f) /\ Len(c) <= Len(f)
      /\ DOMAIN c = 1..Len(c)
  BY DEF IsEnd
<1>2. p \in 1..Len(c)
  BY <1>1, ShiftBack
<1>3. Len(f) - Len(c) + p = i
  BY <1>1
<1>4. p \in DOMAIN c
  BY <1>1, <1>2
<1>5. c[p] = f[i]
  BY <1>3, <1>4 DEF IsEnd
<1>6. p > n
  BY <1>4, <1>5
<1>7. QED
  BY <1>1, <1>6

-----------------------------------------------------------------------------
(* The invariant.                                                          *)

(* The history is in order, and its end is what the limiter counts.        *)
CountedIsTheEnd == Ordered(failed) /\ IsEnd(failures, failed)

(* From the i-th failure of the history on.                                *)
Since(i) == Len(failed) - i + 1

StillCounted(i) == Since(i) <= Len(failures)

LockedSince(i) ==
  /\ failed[i] + Cooloff <= lockedUntil
  /\ Since(i) + Cardinality(trying) <= Thresh + Cardinality(Handler) - 1

LateOnesAreFew ==
  \A i \in DOMAIN failed :
    failed[i] + Cooloff > now => StillCounted(i) \/ LockedSince(i)

Earned ==
  lockedUntil # 0 =>
    \E i, j \in DOMAIN failed :
      /\ j - i = Thresh - 1
      /\ failed[j] = lockedUntil - Cooloff
      /\ failed[i] + Window > failed[j]

IInv ==
  /\ TypeOK /\ CountedIsTheEnd /\ LateOnesAreFew
  /\ Earned /\ GuessingIsThrottled

-----------------------------------------------------------------------------
(* Steps.                                                                  *)

(* The counted failures after a filter: an end of those before it, with    *)
(* every failure of the last Window.                                       *)
LEMMA KeptIsTheEnd ==
  ASSUME TypeOK
  PROVE  \E n \in 0..Len(failures) :
           /\ Kept \in Seq(1..now)
           /\ Len(Kept) = Len(failures) - n
           /\ \A i \in 1..Len(Kept) : Kept[i] = failures[n + i] /\ Kept[i] + Window > now
           /\ \A i \in DOMAIN failures : failures[i] + Window > now => i > n
<1> USE LimiterAssumption DEF TypeOK, Time
<1> DEFINE old == {i \in DOMAIN failures : failures[i] + Window <= now}
           n == Cardinality(old)
<1>1. old = {i \in DOMAIN failures : failures[i] <= now - Window}
  OBVIOUS
<1>2. n \in 0..Len(failures) /\ old = 1..n
  <2>1. failures \in Seq(Nat) /\ Ordered(failures) /\ now - Window \in Int
    BY DEF Ordered
  <2>2. QED
    BY <1>1, <2>1, OldOnesComeFirst
<1>3. Kept = SubSeq(failures, n + 1, Len(failures))
  BY DEF Kept
<1>0. \A i \in DOMAIN failures : i \in old <=> ~ (failures[i] + Window > now)
  OBVIOUS
<1> HIDE DEF n, old
<1>4. /\ Kept \in Seq(1..now) /\ Len(Kept) = Len(failures) - n
      /\ \A i \in 1..Len(Kept) : Kept[i] = failures[n + i]
  BY <1>2, <1>3
<1>5. ASSUME NEW i \in 1..Len(Kept) PROVE Kept[i] + Window > now
  <2>1. n + i \in DOMAIN failures /\ n + i \notin old
    BY <1>2, <1>4
  <2>2. QED
    BY <1>0, <1>4, <2>1
<1>6. ASSUME NEW i \in DOMAIN failures, failures[i] + Window > now PROVE i > n
  <2>1. i \notin 1..n
    BY <1>0, <1>2, <1>6
  <2>2. i \in Nat \ {0} /\ n \in Nat
    BY <1>2
  <2>3. QED
    BY <2>1, <2>2
<1>7. QED
  BY <1>2, <1>4, <1>5, <1>6

LEMMA Initially == Init => IInv
BY LimiterAssumption
   DEF Init, IInv, TypeOK, Time, CountedIsTheEnd, IsEnd, Ordered, LateOnesAreFew, Earned,
       GuessingIsThrottled

(* A handler that is let through: nobody is locked out, so that every late *)
(* failure is still counted.                                               *)
LEMMA AllowKeeps ==
  ASSUME IInv, NEW h \in Handler, Allow(h)
  PROVE  IInv'
<1> USE LimiterAssumption DEF IInv, TypeOK, Time, Allow, limiter
<1>1. TypeOK' /\ CountedIsTheEnd' /\ Earned' /\ GuessingIsThrottled'
  BY DEF CountedIsTheEnd, IsEnd, Ordered, Earned, GuessingIsThrottled
<1>2. ASSUME NEW i \in DOMAIN failed, failed[i] + Cooloff > now
      PROVE  StillCounted(i)
  BY <1>2 DEF LateOnesAreFew, LockedSince, Locked
<1>3. LateOnesAreFew'
  BY <1>2 DEF LateOnesAreFew, StillCounted, Since
<1>4. QED
  BY <1>1, <1>3

(* A handler that is done can only make the lockout's account smaller.     *)
LEMMA OneLessTrying ==
  ASSUME TypeOK, NEW h \in trying
  PROVE  /\ Cardinality(trying) \in Nat /\ Cardinality(Handler) \in Nat
         /\ Cardinality(trying \ {h}) = Cardinality(trying) - 1
         /\ Cardinality(trying) <= Cardinality(Handler)
         /\ Cardinality(trying) > 0
<1>1. IsFiniteSet(Handler) /\ trying \subseteq Handler
  BY LimiterAssumption DEF TypeOK
<1>2. IsFiniteSet(trying) /\ Cardinality(trying) <= Cardinality(Handler)
  BY <1>1, FS_Subset
<1>3. Cardinality(trying) \in Nat /\ Cardinality(Handler) \in Nat
  BY <1>1, <1>2, FS_CardinalityType
<1>4. Cardinality(trying \ {h}) = Cardinality(trying) - 1
  BY <1>2, FS_RemoveElement
<1>5. IsFiniteSet(trying \ {h})
  BY <1>2, FS_RemoveElement
<1>6. Cardinality(trying \ {h}) \in Nat
  BY <1>5, FS_CardinalityType
<1>7. QED
  BY <1>2, <1>3, <1>4, <1>6

LEMMA MalformedKeeps ==
  ASSUME IInv, NEW h \in Handler, Malformed(h)
  PROVE  IInv'
<1> USE LimiterAssumption DEF IInv, TypeOK, Time, Malformed, limiter
<1>1. TypeOK' /\ CountedIsTheEnd' /\ Earned' /\ GuessingIsThrottled'
  BY DEF CountedIsTheEnd, IsEnd, Ordered, Earned, GuessingIsThrottled
<1>2. /\ Cardinality(trying) \in Nat /\ Cardinality(Handler) \in Nat
      /\ Cardinality(trying') = Cardinality(trying) - 1
  BY OneLessTrying
<1>3. LateOnesAreFew'
  BY <1>2 DEF LateOnesAreFew, StillCounted, LockedSince, Since
<1>4. QED
  BY <1>1, <1>3

LEMMA SuccessKeeps ==
  ASSUME IInv, NEW h \in Handler, RecordSuccess(h)
  PROVE  IInv'
BY LimiterAssumption
   DEF IInv, RecordSuccess, TypeOK, Time, CountedIsTheEnd, IsEnd, Ordered, LateOnesAreFew,
       Earned, GuessingIsThrottled

LEMMA TickKeeps == ASSUME IInv, Tick PROVE IInv'
<1> USE LimiterAssumption DEF IInv, TypeOK, Time, Tick, limiter
<1>1. TypeOK' /\ CountedIsTheEnd' /\ Earned' /\ GuessingIsThrottled'
  BY DEF CountedIsTheEnd, IsEnd, Ordered, Earned, GuessingIsThrottled
<1>2. LateOnesAreFew'
  BY DEF LateOnesAreFew, StillCounted, LockedSince, Since
<1>3. QED
  BY <1>1, <1>2

LEMMA TimesAreNumbers ==
  ASSUME NEW t \in Nat, NEW s \in Seq(1..t)
  PROVE  s \in Seq(Nat)
OBVIOUS

(* One entry at the end.                                                   *)
LEMMA AppendOne ==
  ASSUME NEW S, NEW s \in Seq(S), NEW e \in S
  PROVE  /\ Append(s, e) \in Seq(S) /\ Len(Append(s, e)) = Len(s) + 1
         /\ \A i \in DOMAIN s : Append(s, e)[i] = s[i]
         /\ Append(s, e)[Len(s) + 1] = e
         /\ DOMAIN s = 1..Len(s) /\ Len(s) \in Nat
         /\ DOMAIN Append(s, e) = 1..(Len(s) + 1)
OBVIOUS

(* What a failed login counts: an end of the new history, of one Window,   *)
(* with each failure of the window that was counted before.                *)
Counts(counted, history) ==
  /\ counted \in Seq(1..now) /\ history \in Seq(1..now)
  /\ Len(history) = Len(failed) + 1
  /\ \A i \in 1..Len(failed) : history[i] = failed[i]
  /\ history[Len(failed) + 1] = now
  /\ Ordered(history) /\ IsEnd(counted, history) /\ Ordered(counted)
  /\ Len(counted) \in 1..Thresh
  /\ \A i \in DOMAIN counted : counted[i] + Window > now
  /\ \A i \in DOMAIN failed :
       failed[i] + Window > now /\ StillCounted(i) => Since(i) + 1 <= Len(counted)

LEMMA CountedAfterFailure ==
  ASSUME IInv
  PROVE  Counts(Append(Kept, now), Append(failed, now))
<1> DEFINE counted == Append(Kept, now)
           history == Append(failed, now)
<1>1. /\ now \in Nat /\ now \in 1..now /\ Window \in Nat /\ Thresh \in Nat
      /\ failed \in Seq(1..now) /\ failures \in Seq(1..now)
      /\ Len(failures) \in Nat /\ Len(failures) < Thresh
      /\ Ordered(failed) /\ IsEnd(failures, failed)
  BY LimiterAssumption DEF IInv, TypeOK, Time, CountedIsTheEnd
<1>2. PICK n \in 0..Len(failures) :
           /\ Kept \in Seq(1..now)
           /\ Len(Kept) = Len(failures) - n
           /\ \A i \in 1..Len(Kept) : Kept[i] = failures[n + i] /\ Kept[i] + Window > now
           /\ \A i \in DOMAIN failures : failures[i] + Window > now => i > n
  BY KeptIsTheEnd DEF IInv
<1>3. /\ history \in Seq(1..now) /\ Len(history) = Len(failed) + 1
      /\ \A i \in 1..Len(failed) : history[i] = failed[i]
      /\ history[Len(failed) + 1] = now
  BY <1>1
<1>4. /\ counted \in Seq(1..now) /\ Len(counted) = Len(Kept) + 1
      /\ DOMAIN counted = 1..(Len(Kept) + 1) /\ Len(Kept) \in Nat
      /\ \A i \in 1..Len(Kept) : counted[i] = Kept[i]
      /\ counted[Len(Kept) + 1] = now
  <2>1. Kept \in Seq(1..now)
    BY <1>2
  <2>2. QED
    BY <1>1, <2>1, AppendOne
<1>5. Ordered(history)
  BY <1>1, AppendOrdered
<1>6. IsEnd(counted, history)
  BY <1>1, <1>2, EndAppended
<1> HIDE DEF counted, history
<1>7. Ordered(counted)
  <2>1. counted \in Seq(Nat) /\ history \in Seq(Nat)
    BY <1>1, <1>3, <1>4, TimesAreNumbers
  <2>2. QED
    BY <1>5, <1>6, <2>1, EndOrdered
<1>8. Len(counted) \in 1..Thresh
  BY <1>1, <1>2, <1>4
<1>9. ASSUME NEW i \in DOMAIN counted PROVE counted[i] + Window > now
  <2>1. CASE i = Len(Kept) + 1
    BY <1>1, <1>4, <2>1, LimiterAssumption
  <2>2. CASE i \in 1..Len(Kept)
    BY <1>2, <1>4, <2>2
  <2>3. QED
    BY <1>4, <2>1, <2>2
<1>10. ASSUME NEW i \in DOMAIN failed, failed[i] + Window > now, StillCounted(i)
       PROVE  Since(i) + 1 <= Len(counted)
  <2>1. Len(failed) - i + 1 <= Len(failures)
    BY <1>10 DEF StillCounted, Since
  <2>2. Len(failed) - i + 1 <= Len(failures) - n
    BY <1>1, <1>2, <1>10, <2>1, LateOnesStay
  <2>3. Len(failed) \in Nat /\ i \in Nat /\ n \in Nat
    BY <1>1
  <2>4. QED
    BY <1>1, <1>2, <1>4, <2>2, <2>3 DEF Since
<1>11. Counts(counted, history)
  BY <1>3, <1>4, <1>5, <1>6, <1>7, <1>8, <1>9, <1>10 DEF Counts
<1>12. QED
  BY <1>11 DEF counted, history

(* One more failure: since is how many there were from one on, locked how  *)
(* long the lockout lasts, busy how many handlers are trying.              *)
LEMMA OneMoreFailure ==
  ASSUME NEW t \in Nat, NEW x \in 1..t, x + Cooloff > t,
         NEW since \in Nat, NEW busy \in Nat, NEW all \in Nat, busy >= 1, busy <= all,
         NEW counted \in 1..Thresh, NEW locked \in Nat,
         \/ since + 1 <= counted
         \/ x + Cooloff <= locked /\ since + busy <= Thresh + all - 1
  PROVE  /\ counted < Thresh =>
              \/ since + 1 <= counted
              \/ /\ x + Cooloff <= locked
                 /\ since + 1 + (busy - 1) <= Thresh + all - 1
         /\ /\ x + Cooloff <= t + Cooloff
            /\ counted >= Thresh => since + 1 + (busy - 1) <= Thresh + all - 1
BY LimiterAssumption

LEMMA FailureKeeps ==
  ASSUME IInv, NEW h \in Handler, RecordFailure(h)
  PROVE  IInv'
<1> DEFINE counted == Append(Kept, now)
           locks == Len(counted) >= Thresh
<1>1. /\ h \in trying /\ trying' = trying \ {h} /\ now' = now
      /\ failures' = IF locks THEN <<>> ELSE counted
      /\ lockedUntil' = IF locks THEN now + Cooloff ELSE lockedUntil
      /\ failed' = Append(failed, now)
  BY DEF RecordFailure
<1>2. Counts(counted, failed')
  BY <1>1, CountedAfterFailure, Zenon
<1> HIDE DEF counted
<1>3. /\ now \in Nat /\ Window \in Nat /\ Cooloff \in Nat /\ Thresh \in Nat
      /\ Thresh > 0 /\ Cooloff > 0 /\ Cooloff <= Window /\ lockedUntil \in Nat
      /\ Len(failed) \in Nat /\ DOMAIN failed = 1..Len(failed)
      /\ \A i \in 1..Len(failed) : failed[i] \in 1..now
      /\ now \in Time /\ trying \subseteq Handler
  BY LimiterAssumption DEF IInv, TypeOK, Time
<1>4. /\ Cardinality(trying) \in Nat /\ Cardinality(Handler) \in Nat
      /\ Cardinality(trying') = Cardinality(trying) - 1
      /\ Cardinality(trying) <= Cardinality(Handler)
      /\ Cardinality(trying) >= 1
  <2>1. TypeOK
    BY DEF IInv
  <2>2. QED
    BY <1>1, <2>1, OneLessTrying
<1>5. /\ counted \in Seq(1..now) /\ failed' \in Seq(1..now)
      /\ Len(failed') = Len(failed) + 1
      /\ \A i \in 1..Len(failed) : failed'[i] = failed[i]
      /\ failed'[Len(failed) + 1] = now
      /\ Ordered(failed') /\ IsEnd(counted, failed') /\ Ordered(counted)
      /\ Len(counted) \in 1..Thresh
      /\ \A i \in DOMAIN counted : counted[i] + Window > now
  BY <1>2 DEF Counts
<1>6. \A i \in DOMAIN failed :
         failed[i] + Window > now /\ StillCounted(i) => Since(i) + 1 <= Len(counted)
  BY <1>2 DEF Counts
<1>7. /\ DOMAIN failed' = 1..(Len(failed) + 1)
      /\ DOMAIN counted = 1..Len(counted)
      /\ \A i \in 1..(Len(failed) + 1) : failed'[i] \in 1..now
  BY <1>3, <1>5
<1>8. /\ ~ locks => Len(counted) < Thresh
      /\ locks => Len(counted) = Thresh
  BY <1>3, <1>5
<1> HIDE DEF locks
<1>9. TypeOK'
  <2>1. failures' \in Seq(1..now) /\ Len(failures') < Thresh /\ Ordered(failures')
    <3>1. CASE locks
      BY <1>1, <1>3, <3>1 DEF Ordered
    <3>2. CASE ~ locks
      BY <1>1, <1>5, <1>8, <3>2
    <3>3. QED
      BY <3>1, <3>2
  <2>2. lockedUntil' \in Nat
    BY <1>1, <1>3
  <2>3. trying' \subseteq Handler
    BY <1>1, <1>3
  <2>4. QED
    BY <1>1, <1>3, <1>5, <2>1, <2>2, <2>3 DEF TypeOK, Ordered
<1>10. CountedIsTheEnd'
  <2>1. IsEnd(failures', failed')
    <3>1. CASE locks
      BY <1>1, <1>3, <1>5, <3>1 DEF IsEnd
    <3>2. CASE ~ locks
      BY <1>1, <1>5, <3>2
    <3>3. QED
      BY <3>1, <3>2
  <2>2. QED
    BY <1>5, <2>1 DEF CountedIsTheEnd
<1>11. ASSUME NEW i \in 1..(Len(failed) + 1), failed'[i] + Cooloff > now
       PROVE  StillCounted(i)' \/ LockedSince(i)'
  <2> DEFINE since == Len(failed) - i + 1
             x == failed'[i]
  <2>1. x \in 1..now /\ since \in Nat /\ i \in Nat
    BY <1>3, <1>7
  <2>2. Len(failed') - i + 1 = since + 1
    BY <1>3, <1>5, <2>1
  <2>3. \/ since + 1 <= Len(counted)
        \/ /\ x + Cooloff <= lockedUntil
           /\ since + Cardinality(trying) <= Thresh + Cardinality(Handler) - 1
    <3>1. CASE i = Len(failed) + 1
      BY <1>3, <1>5, <3>1
    <3>2. CASE i \in 1..Len(failed)
      <4>1. failed[i] = x /\ x + Window > now
        BY <1>3, <1>5, <1>11, <2>1, <3>2
      <4>2. StillCounted(i) \/ LockedSince(i)
        BY <1>3, <1>11, <3>2, <4>1 DEF IInv, LateOnesAreFew
      <4>3. CASE StillCounted(i)
        BY <1>3, <1>6, <3>2, <4>1, <4>3 DEF Since
      <4>4. CASE LockedSince(i)
        BY <4>1, <4>4 DEF LockedSince, Since
      <4>5. QED
        BY <4>2, <4>3, <4>4
    <3>3. QED
      BY <1>3, <3>1, <3>2
  <2> HIDE DEF since, x
  <2>4. x + Cooloff > now
    BY <1>11 DEF x
  <2>5. /\ Len(counted) < Thresh =>
             \/ since + 1 <= Len(counted)
             \/ /\ x + Cooloff <= lockedUntil
                /\ since + 1 + (Cardinality(trying) - 1) <= Thresh + Cardinality(Handler) - 1
        /\ /\ x + Cooloff <= now + Cooloff
           /\ Len(counted) >= Thresh =>
                since + 1 + (Cardinality(trying) - 1) <= Thresh + Cardinality(Handler) - 1
    <3>1. now \in Nat /\ lockedUntil \in Nat /\ Len(counted) \in 1..Thresh
      BY <1>3, <1>5
    <3>2. QED
      BY <1>4, <2>1, <2>3, <2>4, <3>1, OneMoreFailure
  <2>6. CASE locks
    <3>1. x + Cooloff <= lockedUntil'
      BY <1>1, <2>5, <2>6
    <3>2. since + 1 + Cardinality(trying') <= Thresh + Cardinality(Handler) - 1
      BY <1>3, <1>4, <1>8, <2>5, <2>6
    <3>3. QED
      BY <2>2, <3>1, <3>2 DEF LockedSince, Since, x
  <2>7. CASE ~ locks
    <3>1. failures' = counted /\ lockedUntil' = lockedUntil
      BY <1>1, <2>7
    <3>2. CASE since + 1 <= Len(counted)
      BY <2>2, <3>1, <3>2 DEF StillCounted, Since
    <3>3. CASE /\ x + Cooloff <= lockedUntil
               /\ since + 1 + (Cardinality(trying) - 1) <= Thresh + Cardinality(Handler) - 1
      BY <1>4, <2>2, <3>1, <3>3 DEF LockedSince, Since, x
    <3>4. QED
      BY <1>8, <2>5, <2>7, <3>2, <3>3
  <2>8. QED
    BY <2>6, <2>7
<1>12. LateOnesAreFew'
  BY <1>1, <1>7, <1>11 DEF LateOnesAreFew
<1>13. Earned'
  <2>1. CASE locks
    <3> DEFINE L == Len(failed) + 1
               i == L - Thresh + 1
    <3>1. counted[1] = failed'[L - Thresh + 1]
      <4>1. 1 \in DOMAIN counted
        BY <1>7, <1>5
      <4>2. counted[1] = failed'[Len(failed') - Len(counted) + 1]
        BY <1>5, <4>1 DEF IsEnd
      <4>3. QED
        BY <1>5, <1>8, <2>1, <4>2
    <3>2. counted[1] + Window > now
      BY <1>5, <1>7
    <3>3. Thresh <= L /\ L \in Nat
      BY <1>3, <1>5, <1>8, <2>1 DEF IsEnd
    <3>4. i \in 1..L /\ L - i = Thresh - 1
      BY <1>3, <3>3
    <3>5. failed'[L] = now /\ lockedUntil' - Cooloff = now
      BY <1>1, <1>3, <1>5, <2>1
    <3>6. /\ i \in DOMAIN failed' /\ L \in DOMAIN failed' /\ L - i = Thresh - 1
          /\ failed'[L] = lockedUntil' - Cooloff
          /\ failed'[i] + Window > failed'[L]
      BY <1>7, <3>1, <3>2, <3>3, <3>4, <3>5
    <3> HIDE DEF i, L
    <3>7. QED
      BY <3>6 DEF Earned
  <2>2. CASE ~ locks
    <3>1. \A i \in DOMAIN failed : i \in DOMAIN failed' /\ failed'[i] = failed[i]
      BY <1>3, <1>5, <1>7
    <3>2. lockedUntil' = lockedUntil
      BY <1>1, <2>2
    <3>3. QED
      BY <3>1, <3>2 DEF IInv, Earned
  <2>3. QED
    BY <2>1, <2>2
<1>14. GuessingIsThrottled'
  <2>1. SUFFICES ASSUME NEW i \in DOMAIN failed', NEW j \in DOMAIN failed',
                        j - i >= Thresh + Cardinality(Handler) - 1
                 PROVE  failed'[j] - failed'[i] >= Cooloff
    BY DEF GuessingIsThrottled
  <2>2. i \in 1..(Len(failed) + 1) /\ j \in 1..(Len(failed) + 1) /\ i <= j
    BY <1>3, <1>4, <1>7, <2>1
  <2>3. CASE j \in 1..Len(failed)
    <3>1. i \in 1..Len(failed)
      BY <1>3, <2>2, <2>3
    <3>2. failed[j] - failed[i] >= Cooloff
      BY <1>3, <2>1, <2>3, <3>1 DEF IInv, GuessingIsThrottled
    <3>3. QED
      BY <1>5, <2>3, <3>1, <3>2
  <2>4. CASE j = Len(failed) + 1
    <3>1. failed'[j] = now /\ failed'[i] \in 1..now
      BY <1>5, <1>7, <2>2, <2>4
    <3>2. SUFFICES ASSUME failed'[i] + Cooloff > now PROVE FALSE
      BY <1>3, <3>1
    <3>3. Len(failed') - i + 1 >= Thresh + Cardinality(Handler)
      BY <1>3, <1>4, <1>5, <2>1, <2>2, <2>4
    <3>4. Len(failed') \in Nat /\ i \in Nat
      BY <1>3, <1>5, <2>2
    <3>5. Len(failures') < Thresh /\ Len(failures') \in Nat /\ Cardinality(trying') \in Nat
      <4>1. CASE locks
        BY <1>1, <1>3, <1>4, <4>1
      <4>2. CASE ~ locks
        BY <1>1, <1>4, <1>5, <1>8, <4>2
      <4>3. QED
        BY <4>1, <4>2
    <3> DEFINE since == Len(failed') - i + 1
    <3>6. since \in Int /\ Thresh \in Nat /\ Cardinality(Handler) \in Nat
      BY <1>3, <1>4, <3>4
    <3>7. (StillCounted(i)' => since <= Len(failures'))
          /\ (LockedSince(i)' =>
                since + Cardinality(trying') <= Thresh + Cardinality(Handler) - 1)
      BY DEF StillCounted, LockedSince, Since
    <3> HIDE DEF since
    <3>8. ~ StillCounted(i)' /\ ~ LockedSince(i)'
      BY <3>3, <3>5, <3>6, <3>7 DEF since
    <3>9. QED
      BY <1>11, <2>2, <3>2, <3>8
  <2>5. QED
    BY <1>3, <2>2, <2>3, <2>4
<1>15. QED
  BY <1>9, <1>10, <1>12, <1>13, <1>14 DEF IInv

LEMMA InvStep == ASSUME IInv, [Next]_vars PROVE IInv'
<1>1. CASE Next
  BY <1>1, AllowKeeps, MalformedKeeps, FailureKeeps, SuccessKeeps, TickKeeps DEF Next
<1>2. CASE UNCHANGED vars
  BY <1>2 DEF vars, limiter, IInv, TypeOK, CountedIsTheEnd, IsEnd, Ordered, LateOnesAreFew,
     StillCounted, LockedSince, Since, Earned, GuessingIsThrottled
<1>3. QED
  BY <1>1, <1>2

LEMMA Invariance == Spec => []IInv
<1>1. Init => IInv
  BY Initially
<1>2. IInv /\ [Next]_vars => IInv'
  BY InvStep
<1>3. QED
  BY <1>1, <1>2, PTL DEF Spec

-----------------------------------------------------------------------------
(* Theorems.                                                               *)

(* LoginLimiter is type correct, and fewer than Thresh failures, in order, *)
(* are ever counted.                                                       *)
THEOREM TypeCorrect == Spec => []TypeOK
<1>1. IInv => TypeOK
  BY DEF IInv
<1>2. QED
  BY <1>1, Invariance, PTL

(* Whatever the handlers do at once, no Cooloff sees more failed logins    *)
(* than the threshold and one for each other handler.                      *)
THEOREM Throttled == Spec => []GuessingIsThrottled
<1>1. IInv => GuessingIsThrottled
  BY DEF IInv
<1>2. QED
  BY <1>1, Invariance, PTL

(* No lockout is undeserved.                                               *)
THEOREM LockoutsAreDeserved == Spec => []LockoutIsEarned
<1>1. IInv => LockoutIsEarned
  BY LimiterAssumption DEF IInv, TypeOK, Time, Earned, LockoutIsEarned, Locked
<1>2. QED
  BY <1>1, Invariance, PTL
=============================================================================
