-------------------------- MODULE ReplSessionProofs --------------------------
(* Proofs about ReplSession, for any names, texts, notes and bounds.          *)
EXTENDS ReplSession, OrderProofs

-----------------------------------------------------------------------------
(* Maps. *)

LEMMA RestrictIs ==
  ASSUME NEW f, NEW S
  PROVE  /\ DOMAIN Restrict(f, S) = S
         /\ \A z \in S : Restrict(f, S)[z] = f[z]
BY DEF Restrict

-----------------------------------------------------------------------------
(* Names in the file. *)

LEMMA SubSeqEntry ==
  ASSUME NEW s \in Seq(Nat), NEW j \in Nat \ {0}, NEW k \in Nat, k <= Len(s),
         NEW i \in 1..(k - j + 1)
  PROVE  SubSeq(s, j, k)[i] = s[j + i - 1]
OBVIOUS

LEMMA SameSubSeq ==
  ASSUME NEW s \in Seq(Nat), NEW t \in Seq(Nat), Len(s) = Len(t),
         NEW j \in Nat \ {0}, NEW k \in Nat, k <= Len(s), \A i \in j..k : s[i] = t[i]
  PROVE  SubSeq(s, j, k) = SubSeq(t, j, k)
<1> DEFINE n == IF j <= k THEN k - j + 1 ELSE 0
<1>1. /\ SubSeq(s, j, k) \in Seq(Nat) /\ Len(SubSeq(s, j, k)) = n
      /\ SubSeq(t, j, k) \in Seq(Nat) /\ Len(SubSeq(t, j, k)) = n
  OBVIOUS
<1>2. ASSUME NEW i \in 1..n PROVE SubSeq(s, j, k)[i] = SubSeq(t, j, k)[i]
  <2>1. j + i - 1 \in j..k /\ i \in 1..(k - j + 1)
    OBVIOUS
  <2>2. SubSeq(s, j, k)[i] = s[j + i - 1] /\ SubSeq(t, j, k)[i] = t[j + i - 1]
    BY <2>1, SubSeqEntry
  <2>3. QED
    BY <2>1, <2>2
<1>3. QED
  BY <1>1, <1>2

LEMMA EncodedIs ==
  ASSUME NEW name \in Name
  PROVE  LET e == Encoded(name)
         IN /\ e \in Name /\ Len(e) = Len(name) /\ DOMAIN e = DOMAIN name
            /\ \A k \in DOMAIN name :
                 e[k] = IF InRune(name, k, Runes) THEN name[k] ELSE Replacement
<1> DEFINE n == Len(name)
           e == Encoded(name)
<1>1. n \in Nat /\ DOMAIN name = 1..n /\ \A k \in 1..n : name[k] \in Nat
  BY DEF Name
<1>2. Replacement \in Nat
  BY BytesAssumption
<1>3. e = [k \in 1..n |-> IF InRune(name, k, Runes) THEN name[k] ELSE Replacement]
  BY <1>1 DEF Encoded
<1> HIDE DEF n, e
<1>4. e \in [1..n -> Nat]
  BY <1>1, <1>2, <1>3
<1>5. e \in Seq(Nat) /\ Len(e) = n /\ DOMAIN e = 1..n
  BY <1>1, <1>4
<1>6. QED
  BY <1>1, <1>3, <1>5 DEF Name, n, e

(* A byte that belongs to a rune still does when the others are replaced.     *)
LEMMA RunesStay ==
  ASSUME NEW name \in Name, NEW i \in DOMAIN name, NEW R \in SUBSET Runes, InRune(name, i, R)
  PROVE  InRune(Encoded(name), i, R)
<1> DEFINE e == Encoded(name)
<1>1. PICK r \in R, j \in 1..i : i < j + Len(r) /\ RuneAt(name, j, r)
  BY DEF InRune
<1>2. /\ e \in Name /\ Len(e) = Len(name) /\ DOMAIN e = DOMAIN name
      /\ \A k \in DOMAIN name : InRune(name, k, Runes) => e[k] = name[k]
  BY EncodedIs
<1>3. r \in Name /\ Len(r) \in Nat /\ j \in Nat /\ j >= 1 /\ Len(name) \in Nat
  BY RunesAssumption DEF Name
<1>4. j + Len(r) - 1 <= Len(name) /\ SubSeq(name, j, j + Len(r) - 1) = r
  BY <1>1 DEF RuneAt
<1>5. ASSUME NEW k \in j..(j + Len(r) - 1) PROVE e[k] = name[k]
  <2>1. k \in DOMAIN name /\ j \in 1..k /\ k < j + Len(r)
    BY <1>3, <1>4 DEF Name
  <2>2. InRune(name, k, Runes)
    BY <1>1, <2>1 DEF InRune
  <2>3. QED
    BY <1>2, <2>1, <2>2
<1> HIDE DEF e
<1>6. SubSeq(e, j, j + Len(r) - 1) = SubSeq(name, j, j + Len(r) - 1)
  <2>1. e \in Seq(Nat) /\ name \in Seq(Nat) /\ j + Len(r) - 1 \in Nat
    BY <1>2, <1>3 DEF Name
  <2>2. QED
    BY <1>2, <1>3, <1>4, <1>5, <2>1, SameSubSeq
<1>7. RuneAt(e, j, r)
  BY <1>2, <1>4, <1>6 DEF RuneAt
<1>8. QED
  BY <1>1, <1>7 DEF InRune, e

(* JSON spells a name once.                                                   *)
LEMMA EncodedOnce ==
  ASSUME NEW name \in Name
  PROVE  Encoded(name) \in Name /\ Encoded(Encoded(name)) = Encoded(name)
<1> DEFINE e == Encoded(name)
<1>1. /\ e \in Name /\ DOMAIN e = DOMAIN name
      /\ \A i \in DOMAIN name : ~ InRune(name, i, Runes) => e[i] = Replacement
  BY EncodedIs
<1>2. ASSUME NEW i \in DOMAIN e
      PROVE  (IF InRune(e, i, Runes) THEN e[i] ELSE Replacement) = e[i]
  BY <1>1, RunesStay
<1> HIDE DEF e
<1>3. Encoded(e) = [i \in DOMAIN e |-> e[i]]
  BY <1>2 DEF Encoded
<1>4. e = [i \in DOMAIN e |-> e[i]]
  BY <1>1 DEF Name
<1>5. QED
  BY <1>1, <1>3, <1>4 DEF e

-----------------------------------------------------------------------------
(* Bytes and runes of a name. *)

LEMMA SameEntries ==
  ASSUME NEW s \in Seq(Nat), NEW t \in Seq(Nat), Len(s) = Len(t)
  PROVE  s = t <=> \A k \in 1..Len(t) : s[k] = t[k]
OBVIOUS

LEMMA PrefixIs ==
  ASSUME NEW s \in Seq(Nat), NEW t \in Seq(Nat), Len(s) <= Len(t),
         \A k \in 1..Len(s) : s[k] = t[k]
  PROVE  SubSeq(t, 1, Len(s)) = s
OBVIOUS

LEMMA RuneAtIs ==
  ASSUME NEW name \in Name, NEW r \in Name, NEW j \in Nat \ {0}
  PROVE  RuneAt(name, j, r) <=>
           /\ j + Len(r) - 1 <= Len(name)
           /\ \A k \in 1..Len(r) : name[j + k - 1] = r[k]
<1> DEFINE l == j + Len(r) - 1
<1>1. l \in Nat /\ Len(r) \in Nat /\ Len(name) \in Nat
  BY DEF Name
<1>2. SUFFICES ASSUME l <= Len(name)
               PROVE  SubSeq(name, j, l) = r <=> \A k \in 1..Len(r) : name[j + k - 1] = r[k]
  BY DEF RuneAt
<1> DEFINE s == SubSeq(name, j, l)
<1>3. /\ SubSeq(name, j, l) \in Seq(Nat) /\ Len(SubSeq(name, j, l)) = Len(r)
      /\ name \in Seq(Nat) /\ r \in Seq(Nat)
  BY <1>2 DEF Name
<1>4. ASSUME NEW k \in 1..Len(r) PROVE SubSeq(name, j, l)[k] = name[j + k - 1]
  <2>1. k \in 1..(l - j + 1)
    BY <1>1
  <2>2. QED
    BY <1>1, <1>2, <1>3, <2>1, SubSeqEntry
<1> HIDE DEF l, s
<1>5. s = r <=> \A k \in 1..Len(r) : s[k] = r[k]
  BY <1>3, SameEntries DEF s
<1>6. QED
  BY <1>4, <1>5 DEF s

(* Two runes that share a byte of a name are one.                             *)
LEMMA RunesAreApart ==
  ASSUME NEW name \in Name, NEW r \in Runes, NEW s \in Runes,
         NEW i \in DOMAIN name, NEW j \in 1..i, NEW k \in 1..i,
         RuneAt(name, j, r), i < j + Len(r), RuneAt(name, k, s), i < k + Len(s)
  PROVE  j = k /\ r = s
<1>1. /\ r \in Name /\ s \in Name /\ Len(r) \in Nat /\ Len(s) \in Nat
      /\ i \in Nat /\ j \in Nat \ {0} /\ k \in Nat \ {0}
  BY RunesAssumption DEF Name
<1>2. /\ \A x \in 1..Len(r) : name[j + x - 1] = r[x]
      /\ \A x \in 1..Len(s) : name[k + x - 1] = s[x]
  BY <1>1, RuneAtIs
<1>3. ~ (j < k)
  <2> SUFFICES ASSUME j < k PROVE FALSE
    OBVIOUS
  <2>1. k - j + 1 \in 2..Len(r) /\ j + (k - j + 1) - 1 = k /\ 1 \in 1..Len(s) /\ k + 1 - 1 = k
    BY <1>1
  <2>2. r[k - j + 1] = s[1]
    BY <1>1, <1>2, <2>1
  <2>3. QED
    BY <2>1, <2>2, DecodingAssumption
<1>4. ~ (k < j)
  <2> SUFFICES ASSUME k < j PROVE FALSE
    OBVIOUS
  <2>1. j - k + 1 \in 2..Len(s) /\ k + (j - k + 1) - 1 = j /\ 1 \in 1..Len(r) /\ j + 1 - 1 = j
    BY <1>1
  <2>2. s[j - k + 1] = r[1]
    BY <1>1, <1>2, <2>1
  <2>3. QED
    BY <2>1, <2>2, DecodingAssumption
<1>5. j = k
  BY <1>1, <1>3, <1>4
<1>6. ASSUME NEW u \in Runes, NEW v \in Runes, Len(u) <= Len(v), u \in Name, v \in Name,
             \A x \in 1..Len(u) : u[x] = v[x]
      PROVE  u = v
  <2>1. SubSeq(v, 1, Len(u)) = u
    BY <1>6, PrefixIs DEF Name
  <2>2. QED
    BY <1>6, <2>1, DecodingAssumption
<1>7. ASSUME NEW x \in Int, 1 <= x, x <= Len(r), x <= Len(s) PROVE r[x] = s[x]
  BY <1>1, <1>2, <1>5, <1>7
<1>8. CASE Len(r) <= Len(s)
  BY <1>1, <1>5, <1>6, <1>7, <1>8
<1>9. CASE Len(s) <= Len(r)
  BY <1>1, <1>5, <1>6, <1>7, <1>9
<1>10. QED
  BY <1>1, <1>8, <1>9

-----------------------------------------------------------------------------
(* What stays true of a name, whatever imports and saves make of it: it is    *)
(* in lower case, has slashes where a name may have them, and its bytes are   *)
(* of runes a name may have, but for those of a rune that was cut.            *)

Lowered(n) == \A i \in DOMAIN n : n[i] \notin DOMAIN Lower

Framed(n) ==
  /\ n # <<>> /\ n[1] # Slash /\ n[Len(n)] # Slash
  /\ \A i \in 1..(Len(n) - 1) : ~ (n[i] = Slash /\ n[i + 1] = Slash)

Decoded(n) ==
  \A i \in DOMAIN n :
    InRune(n, i, NameRunes) \/ n[i] = Replacement \/ ~ InRune(n, i, Runes)

Proper(n) == Lowered(n) /\ Framed(n) /\ Decoded(n)

Sound(n) == Proper(n) /\ (Len(n) <= MaxNoteNameLen \/ Canonical(n))

LEMMA LowerIsName == ASSUME NEW name \in Name PROVE LowerCase(name) \in Name
BY BytesAssumption DEF LowerCase, Name

LEMMA LowerCaseIs ==
  ASSUME NEW n \in Name
  PROVE  /\ Lowered(LowerCase(n)) /\ LowerCase(LowerCase(n)) = LowerCase(n)
         /\ Lowered(n) <=> LowerCase(n) = n
<1>1. ASSUME NEW m \in Name
      PROVE  Lowered(m) <=> LowerCase(m) = m
  <2>1. m = [i \in DOMAIN m |-> m[i]]
    BY DEF Name
  <2>2. ASSUME Lowered(m) PROVE LowerCase(m) = m
    BY <2>1, <2>2 DEF LowerCase, Lowered
  <2>3. ASSUME LowerCase(m) = m, NEW i \in DOMAIN m PROVE m[i] \notin DOMAIN Lower
    BY <2>3, BytesAssumption DEF LowerCase
  <2>4. QED
    BY <2>2, <2>3 DEF Lowered
<1>2. Lowered(LowerCase(n))
  BY BytesAssumption DEF LowerCase, Lowered
<1>3. LowerCase(n) \in Name
  BY LowerIsName
<1>4. QED
  BY <1>1, <1>2, <1>3

LEMMA CanonicalIsSound ==
  ASSUME NEW n \in Name, Canonical(n)
  PROVE  Sound(n)
<1>1. Lowered(n)
  BY LowerCaseIs DEF Canonical
<1>2. Framed(n)
  BY DEF Canonical, Acceptable, Framed
<1>3. Decoded(n)
  BY DEF Canonical, Acceptable, Decoded
<1>4. QED
  BY <1>1, <1>2, <1>3 DEF Sound, Proper

(* A name has no more runes than bytes.                                       *)
LEMMA RunesFit == ASSUME NEW n \in Name PROVE RuneCount(n) \in Nat /\ RuneCount(n) <= Len(n)
<1> DEFINE starts == {j \in DOMAIN n : \E r \in Runes : RuneAt(n, j, r)}
           strays == {i \in DOMAIN n : ~ InRune(n, i, Runes)}
<1>1. DOMAIN n = 1..Len(n) /\ Len(n) \in Nat
  BY DEF Name
<1>2. IsFiniteSet(DOMAIN n) /\ Cardinality(DOMAIN n) = Len(n)
  <2>1. /\ IsFiniteSet(1..Len(n))
        /\ Cardinality(1..Len(n)) = IF 1 > Len(n) THEN 0 ELSE Len(n) - 1 + 1
    BY <1>1, FS_Interval
  <2>2. QED
    BY <1>1, <2>1
<1>3. ASSUME NEW j \in starts PROVE j \notin strays
  <2>1. PICK r \in Runes : RuneAt(n, j, r)
    OBVIOUS
  <2>2. r \in Seq(Nat) /\ r # <<>>
    BY RunesAssumption DEF Name
  <2>3. Len(r) \in Nat /\ Len(r) # 0
    BY <2>2
  <2>4. j \in 1..j /\ j < j + Len(r)
    BY <1>1, <2>3
  <2>5. QED
    BY <2>1, <2>4 DEF InRune
<1>4. starts \in SUBSET DOMAIN n /\ strays \in SUBSET DOMAIN n
  OBVIOUS
<1> HIDE DEF starts, strays
<1>5. starts \cap strays = {} /\ starts \cup strays \in SUBSET DOMAIN n
  BY <1>3, <1>4
<1>6. IsFiniteSet(starts) /\ IsFiniteSet(strays)
  BY <1>2, <1>4, FS_Subset
<1>7. Cardinality(starts \cup strays) = Cardinality(starts) + Cardinality(strays) - Cardinality({})
  BY <1>5, <1>6, FS_Union
<1>8. Cardinality(starts \cup strays) <= Len(n)
  BY <1>2, <1>5, FS_Subset
<1>9. Cardinality(starts) \in Nat /\ Cardinality(strays) \in Nat /\ Cardinality({}) = 0
  BY <1>6, FS_CardinalityType, FS_EmptySet
<1>10. /\ Cardinality(starts) + Cardinality(strays) \in Nat
       /\ Cardinality(starts) + Cardinality(strays) <= Len(n)
  BY <1>7, <1>8, <1>9
<1>11. QED
  BY <1>10 DEF RuneCount, starts, strays

LEMMA SoundIsFound ==
  ASSUME NEW n \in Name, Sound(n)
  PROVE  Canonical(n) \/ CutInRune(n)
<1> SUFFICES ASSUME ~ Canonical(n), ~ CutInRune(n) PROVE FALSE
  OBVIOUS
<1>1. LowerCase(n) = n
  BY LowerCaseIs DEF Sound, Proper
<1>2. \A i \in DOMAIN n : InRune(n, i, NameRunes)
  BY DEF Sound, Proper, Decoded, CutInRune
<1>3. RuneCount(n) <= MaxNoteNameLen
  BY RunesFit, SuffixAssumption DEF Sound, Name
<1>4. Acceptable(n)
  BY <1>2, <1>3 DEF Sound, Proper, Framed, Acceptable
<1>5. QED
  BY <1>1, <1>4 DEF Canonical

LEMMA ByteIsRune ==
  ASSUME NEW n \in Name, NEW i \in DOMAIN n
  PROVE  RuneAt(n, i, <<n[i]>>) /\ i \in 1..i /\ i < i + Len(<<n[i]>>)
<1>1. i \in Nat \ {0} /\ i <= Len(n) /\ Len(n) \in Nat /\ n \in Seq(Nat)
  BY DEF Name
<1>2. n[i] \in Nat
  BY DEF Name
<1> DEFINE r == <<n[i]>>
<1>3. r \in Name /\ Len(r) = 1 /\ r[1] = n[i]
  BY <1>2 DEF Name
<1> HIDE DEF r
<1>4. i + Len(r) - 1 <= Len(n) /\ \A k \in 1..Len(r) : n[i + k - 1] = r[k]
  BY <1>1, <1>3
<1>5. RuneAt(n, i, r)
  BY <1>1, <1>3, <1>4, RuneAtIs
<1>6. QED
  BY <1>1, <1>3, <1>5 DEF r

(* What mergeNotes puts after a name: bytes that are runes on their own.      *)
PlainTail(t) ==
  /\ t \in Name /\ t # <<>>
  /\ \A k \in DOMAIN t : <<t[k]>> \in NameRunes /\ t[k] \notin DOMAIN Lower \cup {Slash}

LEMMA JoinedIs ==
  ASSUME NEW n \in Name, NEW m \in 1..Len(n), NEW t \in Name
  PROVE  LET c == SubSeq(n, 1, m) \o t
         IN /\ c \in Name /\ Len(c) = m + Len(t)
            /\ \A i \in 1..m : c[i] = n[i]
            /\ \A k \in 1..Len(t) : c[m + k] = t[k]
BY DEF Name

(* A name is cut and a tail put after it: a rune that is cut leaves bytes of  *)
(* no rune, and the tail makes none with them.                                *)
LEMMA JoinedIsProper ==
  ASSUME NEW n \in Name, Proper(n), NEW m \in 1..Len(n), NEW t, PlainTail(t)
  PROVE  Proper(SubSeq(n, 1, m) \o t)
<1> DEFINE c == SubSeq(n, 1, m) \o t
<1>1. /\ c \in Name /\ Len(c) = m + Len(t) /\ t \in Name
      /\ \A i \in 1..m : c[i] = n[i]
      /\ \A k \in 1..Len(t) : c[m + k] = t[k]
  BY JoinedIs DEF PlainTail
<1>2. /\ m \in Nat \ {0} /\ m <= Len(n) /\ Len(n) \in Nat /\ Len(t) \in Nat \ {0}
      /\ DOMAIN n = 1..Len(n) /\ DOMAIN t = 1..Len(t)
  BY DEF Name, PlainTail
<1>3. DOMAIN c = 1..Len(c)
  BY <1>1 DEF Name
<1> HIDE DEF c
<1>4. ASSUME NEW i \in DOMAIN c
      PROVE  \/ i \in 1..m /\ i \in DOMAIN n /\ c[i] = n[i]
             \/ i - m \in DOMAIN t /\ c[i] = t[i - m] /\ i > m
  <2>1. i \in Nat /\ 1 <= i /\ i <= m + Len(t)
    BY <1>1, <1>2, <1>3
  <2>2. CASE i <= m
    BY <1>1, <1>2, <2>1, <2>2
  <2>3. CASE i > m
    <3>1. i - m \in 1..Len(t) /\ m + (i - m) = i
      BY <1>2, <2>1, <2>3
    <3>2. QED
      BY <1>1, <1>2, <2>3, <3>1
  <2>4. QED
    BY <1>2, <2>1, <2>2, <2>3
<1>5. Lowered(c)
  BY <1>4 DEF Lowered, Proper, PlainTail
<1>6. Framed(c)
  <2>1. c[1] # Slash /\ c # <<>>
    <3>1. 1 \in 1..m /\ Len(c) # 0
      BY <1>1, <1>2
    <3>2. c[1] = n[1] /\ c # <<>>
      BY <1>1, <3>1 DEF Name
    <3>3. QED
      BY <3>2 DEF Proper, Framed
  <2>2. c[Len(c)] # Slash
    <3>1. Len(t) \in 1..Len(t) /\ Len(c) = m + Len(t)
      BY <1>1, <1>2
    <3>2. c[Len(c)] = t[Len(t)] /\ Len(t) \in DOMAIN t
      BY <1>1, <1>2, <3>1
    <3>3. QED
      BY <3>2 DEF PlainTail
  <2>3. ASSUME NEW i \in 1..(Len(c) - 1) PROVE ~ (c[i] = Slash /\ c[i + 1] = Slash)
    <3>1. i \in Nat /\ i + 1 \in DOMAIN c /\ i \in DOMAIN c
      BY <1>1, <1>2, <1>3
    <3>2. CASE i + 1 > m
      <4>1. ~ (i + 1 \in 1..m)
        BY <1>2, <3>2
      <4>2. c[i + 1] # Slash
        BY <1>4, <3>1, <4>1 DEF PlainTail
      <4>3. QED
        BY <4>2
    <3>3. CASE i + 1 <= m
      <4>1. i \in 1..m /\ i + 1 \in 1..m /\ i \in 1..(Len(n) - 1)
        BY <1>2, <3>1, <3>3
      <4>2. QED
        BY <1>1, <4>1 DEF Proper, Framed
    <3>4. QED
      BY <1>2, <3>1, <3>2, <3>3
  <2>4. QED
    BY <2>1, <2>2, <2>3 DEF Framed
<1>7. ASSUME NEW i \in 1..m, NEW s \in Runes, NEW j \in 1..i, RuneAt(c, j, s), i < j + Len(s)
      PROVE  RuneAt(n, j, s) /\ j + Len(s) - 1 <= m
  <2>1. s \in Name /\ Len(s) \in Nat /\ j \in Nat \ {0} /\ i \in Nat
    BY <1>2, RunesAssumption DEF Name
  <2>2. \A k \in 1..Len(s) : c[j + k - 1] = s[k]
    BY <1>1, <1>7, <2>1, RuneAtIs
  <2>3. j + Len(s) - 1 <= m
    <3> SUFFICES ASSUME j + Len(s) - 1 > m PROVE FALSE
      BY <1>2, <2>1
    <3>1. /\ m + 2 - j \in 2..Len(s) /\ j + (m + 2 - j) - 1 = m + 1
          /\ m + 2 - j \in 1..Len(s)
      BY <1>2, <2>1
    <3>2. c[m + 1] = t[1] /\ 1 \in DOMAIN t
      BY <1>1, <1>2
    <3>3. s[m + 2 - j] = t[1]
      BY <2>2, <3>1, <3>2
    <3>4. <<t[1]>> \in Runes /\ <<t[1]>>[1] = t[1]
      BY <3>2, RunesAssumption DEF PlainTail
    <3>5. QED
      BY <3>1, <3>3, <3>4, DecodingAssumption
  <2>4. ASSUME NEW k \in 1..Len(s) PROVE n[j + k - 1] = s[k]
    <3>1. j + k - 1 \in 1..m
      BY <1>2, <2>1, <2>3
    <3>2. QED
      BY <1>1, <2>2, <3>1
  <2>5. j + Len(s) - 1 <= Len(n)
    BY <1>2, <2>1, <2>3
  <2>6. QED
    BY <2>1, <2>3, <2>4, <2>5, RuneAtIs
<1>8. ASSUME NEW r \in Runes, NEW j \in 1..m, RuneAt(n, j, r), j + Len(r) - 1 <= m
      PROVE  RuneAt(c, j, r)
  <2>1. r \in Name /\ Len(r) \in Nat /\ j \in Nat \ {0}
    BY <1>2, RunesAssumption DEF Name
  <2>2. \A k \in 1..Len(r) : n[j + k - 1] = r[k]
    BY <1>8, <2>1, RuneAtIs
  <2>3. ASSUME NEW k \in 1..Len(r) PROVE c[j + k - 1] = r[k]
    <3>1. j + k - 1 \in 1..m
      BY <1>2, <1>8, <2>1
    <3>2. QED
      BY <1>1, <2>2, <3>1
  <2>4. j + Len(r) - 1 <= Len(c)
    BY <1>1, <1>2, <1>8, <2>1
  <2>5. QED
    BY <1>1, <2>1, <2>3, <2>4, RuneAtIs
<1>9. Decoded(c)
  <2> SUFFICES ASSUME NEW i \in DOMAIN c
               PROVE  \/ InRune(c, i, NameRunes) \/ c[i] = Replacement
                      \/ ~ InRune(c, i, Runes)
    BY DEF Decoded
  <2>1. CASE i > m /\ i - m \in DOMAIN t /\ c[i] = t[i - m]
    <3>1. <<c[i]>> \in NameRunes
      BY <2>1 DEF PlainTail
    <3>2. QED
      BY <1>1, <3>1, ByteIsRune DEF InRune
  <2>2. CASE i \in 1..m /\ i \in DOMAIN n /\ c[i] = n[i]
    <3>1. InRune(c, i, Runes) => InRune(n, i, Runes)
      BY <1>7, <2>2 DEF InRune
    <3>2. ASSUME InRune(n, i, NameRunes), InRune(c, i, Runes)
          PROVE  InRune(c, i, NameRunes)
      <4>1. PICK r \in NameRunes, j \in 1..i : i < j + Len(r) /\ RuneAt(n, j, r)
        BY <3>2 DEF InRune
      <4>2. PICK s \in Runes, k \in 1..i : i < k + Len(s) /\ RuneAt(c, k, s)
        BY <3>2 DEF InRune
      <4>3. RuneAt(n, k, s) /\ k + Len(s) - 1 <= m
        BY <1>7, <2>2, <4>2
      <4>4. j = k /\ r = s
        BY <2>2, <4>1, <4>2, <4>3, RunesAreApart, RunesAssumption
      <4>5. RuneAt(c, j, r)
        BY <4>2, <4>4
      <4>6. QED
        BY <4>1, <4>5 DEF InRune
    <3>3. QED
      BY <2>2, <3>1, <3>2 DEF Proper, Decoded
  <2>3. QED
    BY <1>4, <2>1, <2>2
<1>10. QED
  BY <1>5, <1>6, <1>9 DEF Proper, c

LEMMA CutIs ==
  ASSUME NEW n \in Name, n # <<>>, NEW room \in Nat \ {0}
  PROVE  \E m \in 1..Len(n) : m <= room /\ Cut(n, room) = SubSeq(n, 1, m)
<1>1. Len(n) \in Nat /\ Len(n) # 0
  BY DEF Name
<1>2. CASE Len(n) <= room
  BY <1>1, <1>2 DEF Cut
<1>3. CASE ~ (Len(n) <= room)
  BY <1>1, <1>3 DEF Cut
<1>4. QED
  BY <1>2, <1>3

LEMMA SuffixIsPlain == PlainTail(ConflictSuffix)
BY SuffixAssumption DEF PlainTail

(* The name of the i-th attempt is sound, and short enough.                   *)
LEMMA CandidatesAreSound ==
  ASSUME NEW n \in Name, Proper(n), NEW i \in 1..(MaxTexts + 1)
  PROVE  LET c == Candidate(n, i)
         IN c \in Name /\ Proper(c) /\ Len(c) <= MaxNoteNameLen
<1> DEFINE base == truncatedConflictBase(n)
           room == MaxNoteNameLen - Len(ConflictSuffix)
<1>1. /\ MaxNoteNameLen \in Nat /\ Len(ConflictSuffix) \in Nat \ {0}
      /\ room \in Nat \ {0} /\ MaxNoteNameLen - 2 \in Nat \ {0}
      /\ ConflictSuffix \in Name
  BY SuffixAssumption DEF Name
<1>2. base \in Name /\ Proper(base) /\ Len(base) <= MaxNoteNameLen
  <2>1. PICK m \in 1..Len(n) : m <= room /\ Cut(n, room) = SubSeq(n, 1, m)
    BY <1>1, CutIs DEF Proper, Framed
  <2>2. base = SubSeq(n, 1, m) \o ConflictSuffix
    BY <2>1 DEF truncatedConflictBase
  <2>3. PlainTail(ConflictSuffix)
    BY <1>1, SuffixIsPlain
  <2>4. Proper(base)
    BY <2>2, <2>3, JoinedIsProper
  <2>5. base \in Name /\ Len(base) = m + Len(ConflictSuffix)
    BY <1>1, <2>2, JoinedIs
  <2>6. QED
    BY <1>1, <2>1, <2>4, <2>5
<1> HIDE DEF base, room
<1>3. CASE i = 1
  BY <1>2, <1>3 DEF Candidate, base
<1>4. CASE i # 1
  <2> DEFINE tail == <<Dash, i>>
  <2>1. i \in 2..(MaxTexts + 1) /\ i \in Nat /\ Dash \in Nat
    BY <1>4, BoundsAssumption, BytesAssumption
  <2>2. /\ tail \in Name /\ Len(tail) = 2 /\ tail # <<>> /\ DOMAIN tail = 1..2
        /\ tail[1] = Dash /\ tail[2] = i
    BY <2>1 DEF Name
  <2>3. /\ <<Dash>> \in NameRunes /\ Dash \notin DOMAIN Lower \cup {Slash}
        /\ <<i>> \in NameRunes /\ i \notin DOMAIN Lower \cup {Slash}
    BY <2>1, RunesAssumption, BytesAssumption, TailsAssumption
  <2> HIDE DEF tail
  <2>4. PlainTail(tail)
    BY <2>2, <2>3 DEF PlainTail
  <2>5. PICK m \in 1..Len(base) :
          m <= MaxNoteNameLen - 2 /\ Cut(base, MaxNoteNameLen - 2) = SubSeq(base, 1, m)
    BY <1>1, <1>2, CutIs DEF Proper, Framed
  <2>6. Candidate(n, i) = SubSeq(base, 1, m) \o tail
    BY <1>4, <2>2, <2>5 DEF Candidate, base, tail
  <2>7. Proper(SubSeq(base, 1, m) \o tail)
    BY <1>2, <2>4, JoinedIsProper
  <2>8. SubSeq(base, 1, m) \o tail \in Name /\ Len(SubSeq(base, 1, m) \o tail) = m + 2
    <3>1. /\ SubSeq(base, 1, m) \o tail \in Name
          /\ Len(SubSeq(base, 1, m) \o tail) = m + Len(tail)
      BY <1>2, <2>2, JoinedIs, Zenon
    <3>2. QED
      BY <2>2, <3>1
  <2>9. m + 2 <= MaxNoteNameLen
    BY <1>1, <1>2, <2>5 DEF Name
  <2>10. QED
    BY <2>6, <2>7, <2>8, <2>9
<1>5. QED
  BY <1>3, <1>4

(* What a save makes of a name.                                               *)
LEMMA EncodedIsSound ==
  ASSUME NEW n \in Name, Sound(n)
  PROVE  /\ Sound(Encoded(n))
         /\ Canonical(n) => Encoded(n) = n
<1> DEFINE e == Encoded(n)
<1>1. /\ e \in Name /\ DOMAIN e = DOMAIN n /\ Len(e) = Len(n)
      /\ \A i \in DOMAIN n : e[i] = IF InRune(n, i, Runes) THEN n[i] ELSE Replacement
  BY BytesAssumption DEF Encoded, Name
<1>2. DOMAIN n = 1..Len(n) /\ Len(n) \in Nat
  BY DEF Name
<1> HIDE DEF e
<1>3. ASSUME Canonical(n) PROVE e = n
  <2>1. \A i \in DOMAIN n : InRune(n, i, Runes)
    BY <1>3, RunesAssumption DEF Canonical, Acceptable, InRune
  <2>2. n \in Seq(Nat) /\ e \in Seq(Nat)
    BY <1>1 DEF Name
  <2>3. QED
    BY <1>1, <2>1, <2>2
<1>4. Lowered(e)
  BY <1>1, BytesAssumption DEF Lowered, Sound, Proper
<1>5. ASSUME NEW i \in DOMAIN n PROVE e[i] = Slash => n[i] = Slash
  BY <1>1, BytesAssumption
<1>6. Framed(e)
  <2>1. n # <<>> /\ n[1] # Slash /\ n[Len(n)] # Slash
    BY DEF Sound, Proper, Framed
  <2>2. e # <<>> /\ 1 \in DOMAIN n /\ Len(n) \in DOMAIN n
    BY <1>1, <1>2, <2>1 DEF Name
  <2>3. ASSUME NEW i \in 1..(Len(e) - 1) PROVE ~ (e[i] = Slash /\ e[i + 1] = Slash)
    <3>1. i \in DOMAIN n /\ i + 1 \in DOMAIN n /\ i \in 1..(Len(n) - 1)
      BY <1>1, <1>2
    <3>2. QED
      BY <1>5, <3>1 DEF Sound, Proper, Framed
  <2>4. QED
    BY <1>1, <1>5, <2>1, <2>2, <2>3 DEF Framed
<1>7. Decoded(e)
  <2> SUFFICES ASSUME NEW i \in DOMAIN n, InRune(n, i, NameRunes)
               PROVE  InRune(e, i, NameRunes)
    BY <1>1 DEF Sound, Proper, Decoded
  <2>1. QED
    BY RunesStay, RunesAssumption DEF e
<1>8. QED
  BY <1>1, <1>3, <1>4, <1>6, <1>7 DEF Sound, Proper, e

-----------------------------------------------------------------------------
(* Imports. *)

(* Whatever the order in which the notes src are visited, each lands on a     *)
(* name of its own, and on none of dst.                                       *)
LEMMA TargetsAreApart ==
  ASSUME NEW dst, NEW src, NEW target \in MergeTargets(dst, src)
  PROVE  /\ target = [n \in DOMAIN src |-> target[n]]
         /\ \A n \in DOMAIN src : target[n] \notin DOMAIN dst
         /\ \A n, m \in DOMAIN src : target[n] = target[m] => n = m
<1> DEFINE taken(turn, n) ==
      DOMAIN dst \cup {target[m] : m \in {o \in DOMAIN src : turn[o] < turn[n]}}
<1>1. PICK turn \in [DOMAIN src -> 1..Cardinality(DOMAIN src)] :
        /\ IsInjective(turn)
        /\ \A n \in DOMAIN src : Lands(n, taken(turn, n), target[n])
  BY DEF MergeTargets
<1>2. target = [n \in DOMAIN src |-> target[n]]
  BY DEF MergeTargets
<1>3. \A n \in DOMAIN src : target[n] \notin taken(turn, n)
  BY <1>1 DEF Lands
<1>4. ASSUME NEW n \in DOMAIN src, NEW m \in DOMAIN src, turn[n] < turn[m]
      PROVE  target[n] # target[m]
  BY <1>3, <1>4
<1>5. ASSUME NEW n \in DOMAIN src, NEW m \in DOMAIN src, target[n] = target[m]
      PROVE  n = m
  <2>1. turn[n] \in Int /\ turn[m] \in Int
    BY <1>1
  <2>2. turn[n] = turn[m]
    BY <1>4, <1>5, <2>1
  <2>3. QED
    BY <1>1, <2>2 DEF IsInjective
<1>6. QED
  BY <1>2, <1>3, <1>5

LEMMA MergedHas ==
  ASSUME NEW dst, NEW src, NEW target \in MergeTargets(dst, src)
  PROVE  DOMAIN Merged(dst, src, target) = DOMAIN dst \cup Range(target)
<1>1. DOMAIN target = DOMAIN src
  BY TargetsAreApart
<1>2. QED
  BY <1>1 DEF Merged, Range

LEMMA MergedKeepsOwn ==
  ASSUME NEW dst, NEW src, NEW target \in MergeTargets(dst, src), NEW n \in DOMAIN dst
  PROVE  Merged(dst, src, target)[n] = dst[n]
BY DEF Merged

LEMMA MergedBrings ==
  ASSUME NEW dst, NEW src, NEW target \in MergeTargets(dst, src), NEW n \in DOMAIN src
  PROVE  Merged(dst, src, target)[target[n]] = src[n]
<1>1. Merged(dst, src, target)[target[n]]
        = src[CHOOSE m \in DOMAIN src : target[m] = target[n]]
  BY TargetsAreApart DEF Merged
<1>2. (CHOOSE m \in DOMAIN src : target[m] = target[n]) = n
  BY TargetsAreApart
<1>3. QED
  BY <1>1, <1>2

-----------------------------------------------------------------------------
(* The invariant: maps hold what they should, and what the file holds is as   *)
(* JSON spells it, so that opening it again and saving changes nothing.       *)

IsMap(f) == f = [x \in DOMAIN f |-> f[x]]

AreNotes(f) ==
  /\ IsMap(f) /\ IsFiniteSet(DOMAIN f)
  /\ DOMAIN f \subseteq Name /\ \A n \in DOMAIN f : f[n] \in Bodies

AreTrashed(f) ==
  /\ IsMap(f) /\ IsFiniteSet(DOMAIN f)
  /\ DOMAIN f \subseteq TrashKey /\ \A k \in DOMAIN f : f[k] \in TrashedNote

Typing ==
  /\ AreNotes(notes) /\ AreTrashed(trash)
  /\ AreNotes(disk.notes) /\ AreTrashed(disk.trash)
  /\ AreNotes(file.notes) /\ AreTrashed(file.trash)
  /\ disk = [notes |-> disk.notes, trash |-> disk.trash,
             recent |-> disk.recent, template |-> disk.template]

SpelledOnDisk == \A n \in DOMAIN disk.notes : Encoded(n) = n

IInv == Typing /\ SpelledOnDisk /\ SavedUnlessWarned

-----------------------------------------------------------------------------
(* What the operations do to the types. *)

LEMMA EmptyMap == AreNotes(<<>>) /\ AreTrashed(<<>>) /\ DOMAIN <<>> = {}
BY FS_EmptySet DEF AreNotes, AreTrashed, IsMap

LEMMA ImageSize ==
  ASSUME NEW f, IsFiniteSet(DOMAIN f)
  PROVE  IsFiniteSet(Range(f)) /\ Cardinality(Range(f)) <= Cardinality(DOMAIN f)
<1> DEFINE g == [x \in DOMAIN f |-> f[x]]
<1>1. g \in Surjection(DOMAIN f, Range(f))
  BY DEF Surjection, Range
<1>2. QED
  BY <1>1, FS_Surjection

LEMMA WithKeeps ==
  ASSUME NEW f, NEW x, NEW y
  PROVE  /\ AreNotes(f) /\ x \in Name /\ y \in Bodies => AreNotes(With(f, x, y))
         /\ AreTrashed(f) /\ x \in TrashKey /\ y \in TrashedNote => AreTrashed(With(f, x, y))
<1> DEFINE g == With(f, x, y)
<1>1. IsMap(g) /\ DOMAIN g = DOMAIN f \cup {x}
  BY DEF With, IsMap
<1>2. \A z \in DOMAIN g : g[z] = y \/ (z \in DOMAIN f /\ g[z] = f[z])
  BY DEF With
<1>0. IsFiniteSet(DOMAIN f) => IsFiniteSet(DOMAIN g)
  BY <1>1, FS_AddElement
<1> HIDE DEF g
<1>3. AreNotes(f) /\ x \in Name /\ y \in Bodies => AreNotes(g)
  BY <1>0, <1>1, <1>2 DEF AreNotes
<1>4. AreTrashed(f) /\ x \in TrashKey /\ y \in TrashedNote => AreTrashed(g)
  BY <1>0, <1>1, <1>2 DEF AreTrashed
<1>5. QED
  BY <1>3, <1>4 DEF g

LEMMA RestrictKeeps ==
  ASSUME NEW f, NEW S \in SUBSET DOMAIN f
  PROVE  /\ AreNotes(f) => AreNotes(Restrict(f, S))
         /\ AreTrashed(f) => AreTrashed(Restrict(f, S))
<1>1. IsMap(Restrict(f, S))
  BY DEF Restrict, IsMap
<1>2. IsFiniteSet(DOMAIN f) => IsFiniteSet(S)
  BY FS_Subset
<1>3. QED
  BY <1>1, <1>2, RestrictIs DEF AreNotes, AreTrashed

LEMMA SpelledIs ==
  ASSUME NEW f, AreNotes(f)
  PROVE  /\ AreNotes(Spelled(f))
         /\ \A m \in DOMAIN Spelled(f) : Encoded(m) = m
         /\ \A m \in DOMAIN Spelled(f) : \E n \in DOMAIN f : Spelled(f)[m] = f[n]
         /\ (\A n, m \in DOMAIN f : Encoded(n) = Encoded(m) => n = m) =>
              \A n \in DOMAIN f : /\ Encoded(n) \in DOMAIN Spelled(f)
                                  /\ Spelled(f)[Encoded(n)] = f[n]
         /\ (\A n \in DOMAIN f : Encoded(n) = n) => Spelled(f) = f
<1> DEFINE g == Spelled(f)
<1>1. /\ IsMap(g) /\ DOMAIN g = {Encoded(n) : n \in DOMAIN f}
      /\ \A m \in DOMAIN g : g[m] = f[CHOOSE n \in DOMAIN f : Encoded(n) = m]
  BY DEF Spelled, IsMap
<1>2. \A m \in DOMAIN g : \E n \in DOMAIN f : Encoded(n) = m /\ g[m] = f[n]
  BY <1>1
<1>0. IsFiniteSet(DOMAIN g)
  <2> DEFINE h == [n \in DOMAIN f |-> Encoded(n)]
  <2>1. IsFiniteSet(DOMAIN h) /\ DOMAIN g = Range(h)
    BY <1>1 DEF AreNotes, Range
  <2> HIDE DEF h
  <2>2. QED
    BY <2>1, ImageSize
<1> HIDE DEF g
<1>3. AreNotes(g)
  BY <1>0, <1>1, <1>2, EncodedOnce DEF AreNotes
<1>4. \A m \in DOMAIN g : Encoded(m) = m
  BY <1>1, EncodedOnce DEF AreNotes
<1>5. ASSUME \A n, m \in DOMAIN f : Encoded(n) = Encoded(m) => n = m,
             NEW n \in DOMAIN f
      PROVE  Encoded(n) \in DOMAIN g /\ g[Encoded(n)] = f[n]
  BY <1>1, <1>2, <1>5
<1>6. ASSUME \A n \in DOMAIN f : Encoded(n) = n
      PROVE  g = f
  <2>1. DOMAIN g = DOMAIN f /\ \A n \in DOMAIN f : g[n] = f[n]
    BY <1>1, <1>2, <1>6
  <2>2. QED
    BY <1>1, <2>1 DEF AreNotes, IsMap
<1>7. QED
  BY <1>2, <1>3, <1>4, <1>5, <1>6 DEF g

LEMMA ToJSONIs ==
  ASSUME NEW n, NEW t, NEW r, NEW m
  PROVE  ToJSON([notes |-> n, trash |-> t, recent |-> r, template |-> m])
           = [notes |-> Spelled(n), trash |-> t, recent |-> r, template |-> m]
BY DEF ToJSON

(* The names tried for a note are names.                                      *)
LEMMA CandidatesAreNames ==
  ASSUME NEW name \in Name, NEW i \in Nat
  PROVE  Candidate(name, i) \in Name
<1>1. \A s \in Name, room \in Int : Cut(s, room) \in Name
  BY DEF Cut, Name
<1>2. truncatedConflictBase(name) \in Name
  <2>1. Cut(name, MaxNoteNameLen - Len(ConflictSuffix)) \in Name
    BY <1>1, SuffixAssumption DEF Name
  <2>2. QED
    BY <2>1, SuffixAssumption DEF truncatedConflictBase, Name
<1>3. <<Dash, i>> \in Name /\ Len(<<Dash, i>>) = 2
  BY BytesAssumption DEF Name
<1>4. Cut(truncatedConflictBase(name), MaxNoteNameLen - 2) \in Name
  BY <1>1, <1>2, SuffixAssumption
<1>5. QED
  BY <1>2, <1>3, <1>4 DEF Candidate, Name

LEMMA MergedKeeps ==
  ASSUME NEW dst, NEW src, AreNotes(dst), AreNotes(src),
         NEW target \in MergeTargets(dst, src)
  PROVE  AreNotes(Merged(dst, src, target))
<1> DEFINE all == Merged(dst, src, target)
           k == Cardinality(DOMAIN dst) + Cardinality(DOMAIN src)
<1>1. ASSUME NEW n \in DOMAIN src PROVE target[n] \in Name
  <2>1. k \in Nat
    BY FS_CardinalityType DEF AreNotes
  <2> HIDE DEF k
  <2>2. PICK name \in DOMAIN src : target[n] \in Places(name, k)
    BY DEF MergeTargets, k
  <2>3. QED
    BY <2>1, <2>2, CandidatesAreNames DEF Places, AreNotes
<1>0. IsMap(all)
  BY DEF Merged, IsMap
<1>2. DOMAIN all = DOMAIN dst \cup Range(target)
  BY MergedHas
<1>7. ASSUME NEW n \in DOMAIN dst PROVE all[n] = dst[n]
  BY MergedKeepsOwn
<1>8. ASSUME NEW n \in DOMAIN src PROVE all[target[n]] = src[n]
  BY MergedBrings
<1> HIDE DEF all
<1>5. DOMAIN target = DOMAIN src
  BY TargetsAreApart
<1>3. IsFiniteSet(DOMAIN all)
  <2>1. IsFiniteSet(Range(target)) /\ IsFiniteSet(DOMAIN dst)
    BY <1>5, ImageSize DEF AreNotes
  <2>2. IsFiniteSet(DOMAIN dst \cup Range(target))
    BY <2>1, FS_Union, Zenon
  <2>3. QED
    BY <1>2, <2>2
<1>4. AreNotes(all)
  BY <1>0, <1>1, <1>2, <1>3, <1>5, <1>7, <1>8 DEF AreNotes, Range
<1>6. QED
  BY <1>4 DEF all

-----------------------------------------------------------------------------
(* Steps: every command saves what it has made of the maps, or leaves them,   *)
(* or is the end of the session.                                              *)

Saves == persist /\ file' = file /\ AreNotes(notes') /\ AreTrashed(trash')

Reads == UNCHANGED <<payload, disk, warned>> /\ AreNotes(file'.notes) /\ AreTrashed(file'.trash)

LEMMA PutSaves ==
  ASSUME Typing, NEW name, NEW body \in Bodies, LowerCase(name) \in Name,
         Put(name, body), UNCHANGED trash
  PROVE  AreNotes(notes') /\ AreTrashed(trash')
BY WithKeeps DEF Typing, Put

LEMMA NoteSaves == ASSUME Typing, note PROVE Saves
<1>1. PICK raw \in Typed, body \in Bodies :
        /\ Put(LowerCase(raw), body)
        /\ UNCHANGED <<trash, file>>
        /\ persist
  BY DEF note
<1>2. LowerCase(LowerCase(raw)) \in Name
  BY LowerIsName, TypedAssumption
<1>3. QED
  BY <1>1, <1>2, PutSaves DEF Saves

LEMMA RmSaves == ASSUME Typing, rm PROVE Saves
<1>1. PICK name, second, key :
        /\ Found(name) /\ second \in Seconds /\ FreshTrashKey(LowerCase(name), second, key)
        /\ TrashNote(LowerCase(name), key)
        /\ UNCHANGED file /\ persist
  BY DEF rm
<1> DEFINE canon == LowerCase(name)
<1>2. canon \in DOMAIN notes /\ canon \in Name /\ notes[canon] \in Bodies
  BY <1>1 DEF Found, Typing, AreNotes
<1>3. [original |-> canon, body |-> notes[canon]] \in TrashedNote
  BY <1>2 DEF TrashedNote
<1>4. key \in TrashKey
  <2>1. Cardinality(DOMAIN trash) \in Nat
    BY FS_CardinalityType DEF Typing, AreTrashed
  <2>2. QED
    BY <1>1, <1>2, <2>1 DEF FreshTrashKey, TrashKey
<1>5. AreNotes(notes') /\ AreTrashed(trash')
  BY <1>1, <1>3, <1>4, WithKeeps, RestrictKeeps DEF TrashNote, Typing
<1>6. QED
  BY <1>1, <1>5 DEF Saves

LEMMA TrashSaves == ASSUME Typing, restore \/ purge \/ purgeAll PROVE Saves
<1>1. CASE restore
  <2>1. PICK key \in DOMAIN trash : Restore(key) /\ UNCHANGED file /\ persist
    BY <1>1 DEF restore
  <2>2. trash[key].original \in Name /\ trash[key].body \in Bodies
    BY DEF Typing, AreTrashed, TrashedNote
  <2>3. QED
    BY <2>1, <2>2, WithKeeps, RestrictKeeps DEF Restore, Typing, Saves
<1>2. CASE purge
  BY <1>2, RestrictKeeps DEF purge, Typing, Saves
<1>3. CASE purgeAll
  BY <1>3, EmptyMap DEF purgeAll, Typing, Saves
<1>4. QED
  BY <1>1, <1>2, <1>3

LEMMA ContextSaves ==
  ASSUME Typing, cd \/ show \/ cp \/ set \/ unset \/ templateEdit \/ templateReset
  PROVE  Saves
<1>1. CASE cd \/ show \/ cp \/ templateEdit \/ templateReset
  BY <1>1 DEF cd, show, cp, visit, templateEdit, templateReset, Typing, Saves
<1>2. CASE rewrite
  <2>1. PICK body \in Bodies :
          /\ Found(currentNote) /\ Put(currentNote, body)
          /\ UNCHANGED <<trash, file>> /\ persist
    BY <1>2 DEF rewrite
  <2>2. LowerCase(currentNote) \in Name
    BY <2>1 DEF Found, Typing, AreNotes
  <2>3. QED
    BY <2>1, <2>2, PutSaves DEF Saves
<1>3. QED
  BY <1>1, <1>2 DEF set, unset

LEMMA ImportSaves == ASSUME Typing, importMerge \/ importReplace \/ importBundle PROVE Saves
<1>1. CASE importReplace
  BY <1>1 DEF importReplace, Typing, Saves
<1>2. CASE importMerge \/ importBundle
  <2>1. mergeNotes /\ UNCHANGED <<trash, file>> /\ persist
    BY <1>2 DEF importMerge, importBundle
  <2>2. AreNotes(notes')
    BY <2>1, MergedKeeps DEF mergeNotes, Typing
  <2>3. QED
    BY <2>1, <2>2 DEF Typing, Saves
<1>3. QED
  BY <1>1, <1>2

LEMMA OthersRead ==
  ASSUME Typing, find \/ recents \/ cdRoot \/ vanished \/ export \/ bundle
  PROVE  Reads
<1>1. CASE find \/ recents \/ cdRoot \/ vanished
  BY <1>1 DEF find, recents, cdRoot, vanished, Typing, Reads
<1>2. CASE export
  BY <1>2, SpelledIs DEF export, Typing, Reads
<1>3. CASE bundle
  <2>1. PICK chosen \in SUBSET DOMAIN notes :
          /\ file' = [kind |-> "bundle", notes |-> Restrict(notes, chosen), trash |-> <<>>,
                      recent |-> <<>>, template |-> NoText]
          /\ UNCHANGED <<payload, disk, warned>>
    BY <1>3 DEF bundle
  <2>2. QED
    BY <2>1, RestrictKeeps, EmptyMap DEF Typing, Reads
<1>4. QED
  BY <1>1, <1>2, <1>3

LEMMA StepIs == ASSUME Typing, Next PROVE Saves \/ Reads \/ reopen
BY NoteSaves, RmSaves, TrashSaves, ContextSaves, ImportSaves, OthersRead DEF Next

-----------------------------------------------------------------------------
(* The invariant is one. *)

LEMMA Initially == Init => IInv
<1> SUFFICES ASSUME Init PROVE IInv
  OBVIOUS
<1>1. AreNotes(file.notes) /\ AreTrashed(file.trash)
  BY SourcesAssumption DEF Init, IsExport, IsFile, IsNotes, IsTrash, AreNotes, AreTrashed, IsMap
<1>2. /\ disk = [notes |-> <<>>, trash |-> <<>>, recent |-> <<>>, template |-> NoText]
      /\ notes = <<>> /\ trash = <<>> /\ recent = <<>> /\ template = NoText
  BY DEF Init, Payload
<1>3. Spelled(<<>>) = <<>>
  BY EmptyMap, SpelledIs
<1>4. disk = ToJSON(Payload)
  BY <1>2, <1>3, ToJSONIs DEF Payload
<1>5. QED
  BY <1>1, <1>2, <1>4, EmptyMap DEF IInv, Typing, SpelledOnDisk, SavedUnlessWarned

LEMMA SavesKeeps == ASSUME IInv, Saves PROVE IInv'
<1>1. CASE disk' = disk /\ warned' = TRUE
  BY <1>1 DEF IInv, Typing, SpelledOnDisk, SavedUnlessWarned, Saves
<1>2. CASE disk' = ToJSON(Payload')
  <2>1. disk' = [notes |-> Spelled(notes'), trash |-> trash',
                 recent |-> recent', template |-> template']
    BY <1>2, ToJSONIs DEF Payload
  <2>2. AreNotes(Spelled(notes')) /\ \A m \in DOMAIN Spelled(notes') : Encoded(m) = m
    BY SpelledIs DEF Saves
  <2>3. QED
    BY <1>2, <2>1, <2>2 DEF IInv, Typing, SpelledOnDisk, SavedUnlessWarned, Saves
<1>3. QED
  BY <1>1, <1>2 DEF Saves, persist

LEMMA ReadsKeeps == ASSUME IInv, Reads PROVE IInv'
BY DEF IInv, Typing, SpelledOnDisk, SavedUnlessWarned, Reads, payload, Payload

LEMMA ReopenKeeps == ASSUME IInv, reopen PROVE IInv'
<1>1. Typing' /\ SpelledOnDisk'
  BY DEF IInv, Typing, SpelledOnDisk, reopen
<1>2. Spelled(disk.notes) = disk.notes
  BY SpelledIs DEF IInv, Typing, SpelledOnDisk
<1>3. Payload' = [notes |-> disk.notes, trash |-> disk.trash,
                  recent |-> disk.recent, template |-> disk.template]
  BY DEF reopen, Payload
<1>4. disk' = ToJSON(Payload')
  BY <1>2, <1>3, ToJSONIs DEF IInv, Typing, reopen
<1>5. QED
  BY <1>1, <1>4 DEF IInv, SavedUnlessWarned

LEMMA InvStep == ASSUME IInv, [Next]_vars PROVE IInv'
<1>1. CASE Next
  BY <1>1, StepIs, SavesKeeps, ReadsKeeps, ReopenKeeps DEF IInv
<1>2. CASE UNCHANGED vars
  BY <1>2 DEF vars, payload, IInv, Typing, SpelledOnDisk, SavedUnlessWarned, Payload
<1>3. QED
  BY <1>1, <1>2

LEMMA Invariance == Spec => []IInv
<1>1. Init => IInv
  BY Initially
<1>2. IInv /\ [Next]_vars => IInv'
  BY InvStep
<1>3. QED
  BY <1>1, <1>2, PTL DEF Spec

-----------------------------------------------------------------------------
(* Lists of names. *)

LEMMA LiveIs ==
  ASSUME NEW r \in Seq(Name), IsInjective(r), NEW f
  PROVE  LET l == Live(r, f)
         IN /\ l \in Seq(Name) /\ IsInjective(l) /\ Len(l) <= Len(r)
            /\ \A i \in DOMAIN l : l[i] \in DOMAIN f /\ \E j \in DOMAIN r : l[i] = r[j]
<1> DEFINE kept == {i \in DOMAIN r : r[i] \in DOMAIN f}
           k == Cardinality(kept)
           l == Live(r, f)
<1>1. DOMAIN r = 1..Len(r) /\ Len(r) \in Nat
  OBVIOUS
<1>2. IsFiniteSet(1..Len(r)) /\ Cardinality(1..Len(r)) = Len(r)
  BY <1>1, FS_Interval
<1>3. kept \in SUBSET 1..Len(r) /\ kept \in SUBSET Nat
  BY <1>1
<1>4. /\ l = [n \in 1..k |-> r[Nth(kept, n)]]
      /\ \A i \in kept : r[i] \in DOMAIN f /\ i \in DOMAIN r
  BY DEF Live
<1> HIDE DEF kept, l
<1>5. IsFiniteSet(kept) /\ k <= Len(r) /\ k \in Nat
  BY <1>2, <1>3, FS_Subset, FS_CardinalityType
<1>6. \A n \in 1..k : Nth(kept, n) \in kept /\ Rank(kept, Nth(kept, n)) = n
  BY <1>3, <1>5, NthIs
<1> HIDE DEF k
<1>7. \A n \in 1..k : l[n] \in Name /\ l[n] \in DOMAIN f /\ \E j \in DOMAIN r : l[n] = r[j]
  BY <1>4, <1>6
<1>8. l \in Seq(Name) /\ Len(l) = k /\ DOMAIN l = 1..k
  BY <1>4, <1>5, <1>7
<1>9. ASSUME NEW m \in 1..k, NEW n \in 1..k, l[m] = l[n] PROVE m = n
  <2>1. Nth(kept, m) \in DOMAIN r /\ Nth(kept, n) \in DOMAIN r
    BY <1>4, <1>6
  <2>2. Nth(kept, m) = Nth(kept, n)
    BY <1>4, <1>9, <2>1 DEF IsInjective
  <2>3. QED
    BY <1>6, <2>2
<1>10. IsInjective(l)
  BY <1>8, <1>9 DEF IsInjective
<1>11. QED
  BY <1>5, <1>7, <1>8, <1>10 DEF l

LEMMA WithoutOne ==
  ASSUME NEW s \in Seq(Name), NEW k \in 1..Len(s)
  PROVE  LET t == SubSeq(s, 1, k - 1) \o SubSeq(s, k + 1, Len(s))
         IN /\ t \in Seq(Name) /\ Len(t) = Len(s) - 1
            /\ \A i \in 1..Len(t) : t[i] = IF i < k THEN s[i] ELSE s[i + 1]
<1> DEFINE a == SubSeq(s, 1, k - 1)
           b == SubSeq(s, k + 1, Len(s))
<1>1. Len(s) \in Nat /\ k \in Nat /\ 1 <= k /\ k <= Len(s)
  OBVIOUS
<1>2. a \in Seq(Name) /\ Len(a) = k - 1 /\ \A i \in 1..(k - 1) : a[i] = s[i]
  BY <1>1
<1>3. b \in Seq(Name) /\ Len(b) = Len(s) - k /\ \A i \in 1..(Len(s) - k) : b[i] = s[k + i]
  <2>1. b \in Seq(Name) /\ Len(b) = Len(s) - k
    BY <1>1
  <2>2. ASSUME NEW i \in 1..(Len(s) - k) PROVE b[i] = s[k + i]
    BY <1>1
  <2>3. QED
    BY <2>1, <2>2
<1> HIDE DEF a, b
<1>4. a \o b \in Seq(Name) /\ Len(a \o b) = Len(s) - 1
  <2>1. a \in Seq(Name) /\ b \in Seq(Name)
    BY <1>2, <1>3
  <2>2. a \o b \in Seq(Name) /\ Len(a \o b) = Len(a) + Len(b)
    BY <2>1
  <2>3. QED
    BY <1>1, <1>2, <1>3, <2>2
<1>5. ASSUME NEW i \in 1..(Len(s) - 1)
      PROVE  (a \o b)[i] = IF i < k THEN s[i] ELSE s[i + 1]
  <2>1. i \in Nat /\ 1 <= i /\ i <= Len(s) - 1
    BY <1>1
  <2>2. CASE i < k
    BY <1>1, <1>2, <1>3, <2>1, <2>2
  <2>3. CASE ~ (i < k)
    <3>1. /\ i - (k - 1) \in 1..(Len(s) - k) /\ k + (i - (k - 1)) = i + 1
          /\ i > Len(a) /\ i <= Len(a) + Len(b) /\ i - Len(a) = i - (k - 1)
      BY <1>1, <1>2, <1>3, <2>1, <2>3
    <3>2. (a \o b)[i] = b[i - Len(a)]
      BY <1>2, <1>3, <2>1, <3>1
    <3>3. QED
      BY <1>3, <2>3, <3>1, <3>2
  <2>4. QED
    BY <2>2, <2>3
<1>6. QED
  BY <1>4, <1>5 DEF a, b

LEMMA FirstIs ==
  ASSUME NEW s \in Seq(Name), NEW k \in 1..Len(s), \A i \in 1..(k - 1) : s[i] # s[k]
  PROVE  RemoveFirst(s, s[k]) = SubSeq(s, 1, k - 1) \o SubSeq(s, k + 1, Len(s))
<1>1. RemoveFirst(s, s[k]) = RemoveAt(s, SelectInSeq(s, LAMBDA v : v = s[k]))
  BY DEF RemoveFirst
<1>2. SelectInSeq(s, LAMBDA v : v = s[k]) = k
  BY DEF SelectInSeq, Min
<1>3. QED
  BY <1>1, <1>2 DEF RemoveAt

LEMMA RemovedIs ==
  ASSUME NEW s \in Seq(Name), IsInjective(s), NEW e
  PROVE  LET t == RemoveFirst(s, e)
         IN /\ t \in Seq(Name) /\ IsInjective(t)
            /\ \A i \in DOMAIN t : t[i] # e /\ \E j \in DOMAIN s : t[i] = s[j]
<1> DEFINE t == RemoveFirst(s, e)
<1>1. DOMAIN s = 1..Len(s) /\ Len(s) \in Nat
  OBVIOUS
<1>2. CASE \A i \in 1..Len(s) : s[i] # e
  <2>1. t = s
    BY <1>2 DEF RemoveFirst
  <2>2. QED
    BY <1>1, <1>2, <2>1
<1>3. ASSUME NEW k \in 1..Len(s), s[k] = e
      PROVE  /\ t \in Seq(Name) /\ IsInjective(t)
             /\ \A i \in DOMAIN t : t[i] # e /\ \E j \in DOMAIN s : t[i] = s[j]
  <2>1. \A i \in DOMAIN s : s[i] = e => i = k
    BY <1>1, <1>3 DEF IsInjective
  <2>2. \A i \in 1..(k - 1) : s[i] # e
    BY <1>1, <2>1
  <2>3. t = SubSeq(s, 1, k - 1) \o SubSeq(s, k + 1, Len(s))
    <3>1. RemoveFirst(s, s[k]) = SubSeq(s, 1, k - 1) \o SubSeq(s, k + 1, Len(s))
      BY <1>3, <2>2, FirstIs
    <3>2. QED
      BY <1>3, <3>1
  <2> HIDE DEF t
  <2>4. /\ t \in Seq(Name) /\ Len(t) = Len(s) - 1
        /\ \A i \in 1..Len(t) : t[i] = IF i < k THEN s[i] ELSE s[i + 1]
    BY <2>3, WithoutOne
  <2> DEFINE from(i) == IF i < k THEN i ELSE i + 1
  <2>5. DOMAIN t = 1..Len(t)
    BY <2>4
  <2>6. ASSUME NEW i \in DOMAIN t
        PROVE  from(i) \in DOMAIN s /\ t[i] = s[from(i)] /\ from(i) # k
    <3>1. i \in 1..Len(t) /\ i \in 1..(Len(s) - 1)
      BY <2>4, <2>5
    <3>2. t[i] = s[from(i)]
      BY <2>4, <3>1
    <3>3. from(i) \in 1..Len(s) /\ from(i) # k
      BY <1>1, <3>1
    <3>4. QED
      BY <1>1, <3>2, <3>3
  <2>7. ASSUME NEW i \in DOMAIN t, NEW j \in DOMAIN t, from(i) = from(j) PROVE i = j
    <3>1. i \in Nat /\ j \in Nat
      BY <2>5
    <3>2. QED
      BY <2>7, <3>1
  <2> HIDE DEF from
  <2>8. IsInjective(t)
    BY <2>6, <2>7 DEF IsInjective
  <2>9. \A i \in DOMAIN t : t[i] # e /\ \E j \in DOMAIN s : t[i] = s[j]
    BY <2>1, <2>6
  <2>10. QED
    BY <2>4, <2>8, <2>9
<1>4. QED
  BY <1>2, <1>3

(* A name is put before a list without it, and the list is cut.               *)
LEMMA InFront ==
  ASSUME NEW e \in Name, NEW s \in Seq(Name), IsInjective(s), \A i \in DOMAIN s : s[i] # e,
         NEW n \in Nat
  PROVE  LET l == <<e>> \o s
             t == SubSeq(l, 1, IF Len(l) <= n THEN Len(l) ELSE n)
         IN /\ t \in Seq(Name) /\ IsInjective(t) /\ Len(t) <= n
            /\ \A i \in DOMAIN t : t[i] = e \/ \E j \in DOMAIN s : t[i] = s[j]
<1> DEFINE l == <<e>> \o s
           m == IF Len(l) <= n THEN Len(l) ELSE n
           t == SubSeq(l, 1, m)
<1>1. DOMAIN s = 1..Len(s) /\ Len(s) \in Nat
  OBVIOUS
<1>2. /\ l \in Seq(Name) /\ Len(l) = Len(s) + 1 /\ l[1] = e
      /\ \A i \in 1..Len(s) : l[i + 1] = s[i]
  BY <1>1
<1> HIDE DEF l
<1>3. m \in Nat /\ m <= n /\ m <= Len(s) + 1 /\ m <= Len(l)
  BY <1>1, <1>2
<1> HIDE DEF m
<1>4. t \in Seq(Name) /\ Len(t) = m /\ DOMAIN t = 1..m /\ \A i \in 1..m : t[i] = l[i]
  BY <1>2, <1>3
<1> HIDE DEF t
<1>5. ASSUME NEW i \in 1..m
      PROVE  \/ i = 1 /\ t[i] = e
             \/ i - 1 \in DOMAIN s /\ t[i] = s[i - 1]
  <2>1. i \in Nat /\ i <= Len(s) + 1 /\ i >= 1
    BY <1>1, <1>3
  <2>2. CASE i = 1
    <3>1. 1 \in 1..m
      BY <2>2
    <3>2. t[1] = l[1]
      BY <1>4, <3>1
    <3>3. t[i] = e
      BY <1>2, <2>2, <3>2
    <3>4. QED
      BY <2>2, <3>3
  <2>3. CASE i # 1
    <3>1. i - 1 \in 1..Len(s) /\ i - 1 + 1 = i
      BY <1>1, <2>1, <2>3
    <3>2. QED
      BY <1>1, <1>2, <1>4, <3>1
  <2>4. QED
    BY <2>2, <2>3
<1>6. ASSUME NEW i \in 1..m, NEW j \in 1..m, t[i] = t[j] PROVE i = j
  <2>1. i \in Nat /\ j \in Nat
    BY <1>3
  <2>2. i - 1 \in DOMAIN s /\ j - 1 \in DOMAIN s /\ s[i - 1] = s[j - 1] => i - 1 = j - 1
    BY DEF IsInjective
  <2>3. QED
    BY <1>5, <1>6, <2>1, <2>2
<1>7. IsInjective(t)
  BY <1>4, <1>6 DEF IsInjective
<1>8. \A i \in DOMAIN t : t[i] = e \/ \E j \in DOMAIN s : t[i] = s[j]
  BY <1>4, <1>5
<1>9. QED
  BY <1>3, <1>4, <1>7, <1>8 DEF t, m, l

-----------------------------------------------------------------------------
(* A second invariant: the names in use are sound, those that a command has   *)
(* normalised are canonical, and the recent list agrees with the notes, in    *)
(* memory, in the vault file and in the file for an import.                   *)

IsRecent(r, n) ==
  /\ r \in Seq(Name) /\ IsInjective(r) /\ Len(r) <= RecentMax
  /\ \A i \in DOMAIN r : r[i] \in DOMAIN n /\ Canonical(r[i])

Healthy(n, t, r, m) ==
  /\ AreNotes(n) /\ \A x \in DOMAIN n : Sound(x)
  /\ AreTrashed(t) /\ \A k \in DOMAIN t : Canonical(t[k].original)
  /\ IsRecent(r, n)
  /\ m \in Bodies \cup {NoText}

Named ==
  /\ currentNote \in Name /\ Lowered(currentNote)
  /\ lastSelection \in Seq(Name) /\ \A i \in DOMAIN lastSelection : Lowered(lastSelection[i])

InMemory == Healthy(notes, trash, recent, template)

InVault ==
  /\ Healthy(disk.notes, disk.trash, disk.recent, disk.template)
  /\ disk = [notes |-> disk.notes, trash |-> disk.trash,
             recent |-> disk.recent, template |-> disk.template]
  /\ warned \in BOOLEAN /\ saves \in 0..MaxSaves

InFile ==
  /\ Healthy(file.notes, file.trash, file.recent, file.template)
  /\ file = [kind |-> file.kind, notes |-> file.notes, trash |-> file.trash,
             recent |-> file.recent, template |-> file.template]
  /\ file.kind \in {"json", "bundle"}

SInv == InMemory /\ Named /\ InVault /\ InFile

-----------------------------------------------------------------------------
(* What the operations do to the names. *)

LEMMA EmptyIsHealthy ==
  ASSUME NEW m \in Bodies \cup {NoText}
  PROVE  Healthy(<<>>, <<>>, <<>>, m)
<1>1. <<>> \in Seq(Name) /\ Len(<<>>) = 0 /\ IsInjective(<<>>) /\ RecentMax \in Nat
  BY EmptyMap, BoundsAssumption DEF IsInjective
<1>2. QED
  BY <1>1, EmptyMap DEF Healthy, IsRecent

LEMMA SpelledIsHealthy ==
  ASSUME NEW n, NEW t, NEW r, NEW m, Healthy(n, t, r, m)
  PROVE  Healthy(Spelled(n), t, r, m)
<1>1. AreNotes(n) /\ AreNotes(Spelled(n)) /\ \A x \in DOMAIN n : x \in Name /\ Sound(x)
  BY SpelledIs DEF Healthy, AreNotes
<1>2. \A x : x \in DOMAIN Spelled(n) <=> \E y \in DOMAIN n : x = Encoded(y)
  BY DEF Spelled
<1>3. \A x \in DOMAIN Spelled(n) : Sound(x)
  BY <1>1, <1>2, EncodedIsSound
<1>4. \A x \in DOMAIN n : Canonical(x) => Encoded(x) = x
  BY <1>1, EncodedIsSound
<1>5. IsRecent(r, Spelled(n))
  BY <1>2, <1>4 DEF Healthy, IsRecent
<1>6. QED
  BY <1>1, <1>3, <1>5 DEF Healthy

LEMMA MoreIsHealthy ==
  ASSUME NEW n, NEW t, NEW r, NEW m, Healthy(n, t, r, m),
         NEW o, AreNotes(o), DOMAIN n \subseteq DOMAIN o, \A x \in DOMAIN o : Sound(x)
  PROVE  Healthy(o, t, r, m)
BY DEF Healthy, IsRecent

LEMMA PutIsHealthy ==
  ASSUME NEW n, NEW t, NEW r, NEW m, Healthy(n, t, r, m),
         NEW x \in Name, Canonical(x), NEW y \in Bodies
  PROVE  Healthy(With(n, x, y), t, r, m)
<1>1. AreNotes(With(n, x, y)) /\ DOMAIN With(n, x, y) = DOMAIN n \cup {x}
  BY WithKeeps DEF Healthy, With
<1>2. \A z \in DOMAIN With(n, x, y) : Sound(z)
  BY <1>1, CanonicalIsSound DEF Healthy
<1>3. QED
  BY <1>1, <1>2, MoreIsHealthy

LEMMA LessTrashIsHealthy ==
  ASSUME NEW n, NEW t, NEW r, NEW m, Healthy(n, t, r, m), NEW S \in SUBSET DOMAIN t
  PROVE  Healthy(n, Restrict(t, S), r, m)
BY RestrictIs, RestrictKeeps DEF Healthy

LEMMA RemovalIsHealthy ==
  ASSUME NEW n, NEW t, NEW r, NEW m, Healthy(n, t, r, m),
         NEW x \in DOMAIN n, Canonical(x), NEW k \in TrashKey
  PROVE  LET left == Restrict(n, DOMAIN n \ {x})
         IN Healthy(left, With(t, k, [original |-> x, body |-> n[x]]), Live(r, left), m)
<1> DEFINE left == Restrict(n, DOMAIN n \ {x})
           bin == With(t, k, [original |-> x, body |-> n[x]])
           list == Live(r, left)
<1>1. x \in Name /\ n[x] \in Bodies
  BY DEF Healthy, AreNotes
<1>2. AreNotes(left) /\ \A y \in DOMAIN left : Sound(y)
  BY RestrictIs, RestrictKeeps DEF Healthy
<1>3. [original |-> x, body |-> n[x]] \in TrashedNote
  BY <1>1 DEF TrashedNote
<1>4. AreTrashed(bin)
  BY <1>3, WithKeeps DEF Healthy
<1>5. \A z \in DOMAIN bin : Canonical(bin[z].original)
  BY DEF Healthy, With
<1>6. r \in Seq(Name) /\ IsInjective(r) /\ Len(r) <= RecentMax /\ RecentMax \in Nat
  BY BoundsAssumption DEF Healthy, IsRecent
<1> HIDE DEF left, bin
<1>7. /\ list \in Seq(Name) /\ IsInjective(list) /\ Len(list) <= Len(r)
      /\ \A i \in DOMAIN list : list[i] \in DOMAIN left /\ \E j \in DOMAIN r : list[i] = r[j]
  BY <1>6, LiveIs
<1> HIDE DEF list
<1>8. Len(list) <= RecentMax
  BY <1>6, <1>7
<1>9. IsRecent(list, left)
  BY <1>7, <1>8 DEF Healthy, IsRecent
<1>10. Healthy(left, bin, list, m)
  BY <1>2, <1>4, <1>5, <1>9 DEF Healthy
<1>11. QED
  BY <1>10 DEF left, bin, list

LEMMA TrackIsHealthy ==
  ASSUME NEW n, NEW t, NEW r, NEW m, Healthy(n, t, r, m), NEW x \in DOMAIN n, Canonical(x)
  PROVE  LET list == <<x>> \o RemoveFirst(r, x)
         IN Healthy(n, t, SubSeq(list, 1, IF Len(list) <= RecentMax THEN Len(list) ELSE RecentMax), m)
<1> DEFINE rest == RemoveFirst(r, x)
           list == <<x>> \o rest
           cut == SubSeq(list, 1, IF Len(list) <= RecentMax THEN Len(list) ELSE RecentMax)
<1>1. x \in Name /\ RecentMax \in Nat
  BY BoundsAssumption DEF Healthy, AreNotes
<1>2. r \in Seq(Name) /\ IsInjective(r)
  BY DEF Healthy, IsRecent
<1>3. /\ rest \in Seq(Name) /\ IsInjective(rest)
      /\ \A i \in DOMAIN rest : rest[i] # x /\ \E j \in DOMAIN r : rest[i] = r[j]
  BY <1>2, RemovedIs
<1> HIDE DEF rest
<1>4. /\ cut \in Seq(Name) /\ IsInjective(cut) /\ Len(cut) <= RecentMax
      /\ \A i \in DOMAIN cut : cut[i] = x \/ \E j \in DOMAIN rest : cut[i] = rest[j]
  BY <1>1, <1>3, InFront, Zenon
<1> HIDE DEF cut
<1>5. \A i \in DOMAIN cut : cut[i] \in DOMAIN n /\ Canonical(cut[i])
  BY <1>3, <1>4 DEF Healthy, IsRecent
<1>6. Healthy(n, t, cut, m)
  BY <1>4, <1>5 DEF Healthy, IsRecent
<1>7. QED
  BY <1>6 DEF cut, list, rest

LEMMA UnionSize ==
  ASSUME NEW A, NEW B, IsFiniteSet(A), IsFiniteSet(B)
  PROVE  IsFiniteSet(A \cup B) /\ Cardinality(A \cup B) <= Cardinality(A) + Cardinality(B)
<1>1. IsFiniteSet(A \cap B) /\ IsFiniteSet(A \cup B)
  BY FS_Subset, FS_Union, Zenon
<1>2. Cardinality(A \cup B) = Cardinality(A) + Cardinality(B) - Cardinality(A \cap B)
  BY FS_Union, Zenon
<1>3. Cardinality(A \cap B) \in Nat /\ Cardinality(A) \in Nat /\ Cardinality(B) \in Nat
  BY <1>1, FS_CardinalityType
<1>4. QED
  BY <1>1, <1>2, <1>3

(* The names that an import tries for a note are sound.                       *)
LEMMA TargetsAreSound ==
  ASSUME NEW dst, NEW src, AreNotes(dst), AreNotes(src), \A n \in DOMAIN src : Sound(n),
         Cardinality(DOMAIN dst) + Cardinality(DOMAIN src) <= MaxTexts,
         NEW target \in MergeTargets(dst, src), NEW n \in DOMAIN src
  PROVE  Sound(target[n])
<1> DEFINE taken(turn) ==
      DOMAIN dst \cup {target[m] : m \in {o \in DOMAIN src : turn[o] < turn[n]}}
<1>1. PICK turn \in [DOMAIN src -> 1..Cardinality(DOMAIN src)] : Lands(n, taken(turn), target[n])
  BY DEF MergeTargets
<1> DEFINE T == taken(turn)
<1>2. Lands(n, T, target[n]) /\ n \in Name /\ Sound(n)
  BY <1>1 DEF AreNotes
<1>3. T \in SUBSET (DOMAIN dst \cup Range(target))
  BY TargetsAreApart DEF Range
<1> HIDE DEF taken, T
<1>4. DOMAIN target = DOMAIN src /\ IsFiniteSet(DOMAIN dst) /\ IsFiniteSet(DOMAIN src)
  BY TargetsAreApart DEF AreNotes
<1>5. IsFiniteSet(Range(target)) /\ Cardinality(Range(target)) <= Cardinality(DOMAIN src)
  BY <1>4, ImageSize
<1>6. /\ IsFiniteSet(DOMAIN dst \cup Range(target))
      /\ Cardinality(DOMAIN dst \cup Range(target)) <= Cardinality(DOMAIN dst) + Cardinality(Range(target))
  BY <1>4, <1>5, UnionSize
<1>7. IsFiniteSet(T) /\ Cardinality(T) <= Cardinality(DOMAIN dst \cup Range(target))
  BY <1>3, <1>6, FS_Subset
<1>8. Cardinality(T) \in Nat /\ Cardinality(T) <= MaxTexts /\ MaxTexts \in Nat
  <2>1. /\ Cardinality(DOMAIN dst \cup Range(target)) \in Nat /\ Cardinality(T) \in Nat
        /\ Cardinality(DOMAIN dst) \in Nat /\ Cardinality(DOMAIN src) \in Nat
        /\ Cardinality(Range(target)) \in Nat
    BY <1>4, <1>5, <1>6, <1>7, FS_CardinalityType
  <2>2. MaxTexts \in Nat
    BY BoundsAssumption
  <2>3. QED
    BY <1>5, <1>6, <1>7, <2>1, <2>2
<1>9. CASE target[n] = n
  BY <1>2, <1>9
<1>10. ASSUME NEW i \in 1..(Cardinality(T) + 1), target[n] = Candidate(n, i)
       PROVE  Sound(target[n])
  <2>1. i \in 1..(MaxTexts + 1)
    BY <1>8
  <2>2. Proper(Candidate(n, i)) /\ Len(Candidate(n, i)) <= MaxNoteNameLen
    BY <1>2, <2>1, CandidatesAreSound DEF Sound
  <2>3. QED
    BY <1>10, <2>2 DEF Sound
<1>11. QED
  BY <1>2, <1>9, <1>10 DEF Lands

LEMMA MergedIsHealthy ==
  ASSUME NEW n, NEW t, NEW r, NEW m, Healthy(n, t, r, m),
         NEW src, AreNotes(src), \A x \in DOMAIN src : Sound(x),
         Cardinality(DOMAIN n) + Cardinality(DOMAIN src) <= MaxTexts,
         NEW target \in MergeTargets(n, src)
  PROVE  Healthy(Merged(n, src, target), t, r, m)
<1> DEFINE all == Merged(n, src, target)
<1>1. DOMAIN all = DOMAIN n \cup Range(target)
  BY MergedHas
<1>2. AreNotes(n) /\ \A x \in DOMAIN n : Sound(x)
  BY DEF Healthy
<1>3. AreNotes(all)
  BY <1>2, MergedKeeps
<1> HIDE DEF all
<1>4. DOMAIN target = DOMAIN src /\ \A x \in DOMAIN src : Sound(target[x])
  BY <1>2, TargetsAreApart, TargetsAreSound
<1>5. \A x \in DOMAIN all : Sound(x)
  BY <1>1, <1>2, <1>4 DEF Range
<1>6. Healthy(all, t, r, m)
  BY <1>1, <1>3, <1>5, MoreIsHealthy
<1>7. QED
  BY <1>6 DEF all

-----------------------------------------------------------------------------
(* The names that a command is given. *)

LEMMA FoundIs ==
  ASSUME NEW name \in Name, Found(name)
  PROVE  /\ LowerCase(name) \in DOMAIN notes /\ Canonical(LowerCase(name))
         /\ Lowered(name) => LowerCase(name) = name
BY LowerCaseIs DEF Found, Canonical

LEMMA ResolvedIs ==
  ASSUME Named, NEW name \in Resolved
  PROVE  name \in Name /\ LowerCase(name) = name
<1>1. ASSUME NEW raw \in Typed PROVE LowerCase(raw) \in Name /\ Lowered(LowerCase(raw))
  BY TypedAssumption, LowerIsName, LowerCaseIs
<1>2. ASSUME NEW i \in DOMAIN lastSelection
      PROVE  lastSelection[i] \in Name /\ Lowered(lastSelection[i])
  BY DEF Named
<1>3. name \in Name /\ Lowered(name)
  BY <1>1, <1>2 DEF Resolved
<1>4. QED
  BY <1>3, LowerCaseIs

-----------------------------------------------------------------------------
(* Steps that save, and steps that do not. *)

Stored == InMemory' /\ Named' /\ persist /\ file' = file

Shown == InMemory' /\ Named' /\ UNCHANGED <<disk, warned, saves>> /\ InFile'

LEMMA SameNames == ASSUME Named, UNCHANGED <<currentNote, lastSelection>> PROVE Named'
BY DEF Named

LEMMA SameFile == ASSUME InFile, UNCHANGED file PROVE InFile'
BY DEF InFile

LEMMA SoundTyping == ASSUME SInv PROVE Typing
BY DEF SInv, InMemory, InVault, InFile, Healthy, Typing

LEMMA NoteStores == ASSUME SInv, note PROVE Stored
<1>1. PICK raw \in Typed, body \in Bodies :
        /\ Acceptable(LowerCase(raw)) /\ Put(LowerCase(raw), body)
        /\ UNCHANGED <<trash, recent, template, currentNote, lastSelection, file>>
        /\ persist
  BY DEF note
<1> DEFINE x == LowerCase(raw)
<1>2. x \in Name /\ LowerCase(x) = x
  BY TypedAssumption, LowerIsName, LowerCaseIs
<1>3. Canonical(x) /\ notes' = With(notes, x, body)
  BY <1>1, <1>2 DEF Canonical, Put
<1> HIDE DEF x
<1>4. InMemory'
  BY <1>1, <1>2, <1>3, PutIsHealthy DEF SInv, InMemory
<1>5. QED
  BY <1>1, <1>4, SameNames DEF SInv, Stored

LEMMA RmStores == ASSUME SInv, rm PROVE Stored
<1>0. PICK name \in Resolved, second \in Seconds :
        /\ Found(name)
        /\ \E key : FreshTrashKey(LowerCase(name), second, key) /\ TrashNote(LowerCase(name), key)
        /\ currentNote' = IF currentNote = name THEN <<>> ELSE currentNote
        /\ UNCHANGED <<template, lastSelection, file>>
        /\ persist
  BY DEF rm
<1>1. PICK key :
        /\ Found(name) /\ FreshTrashKey(LowerCase(name), second, key)
        /\ TrashNote(LowerCase(name), key)
        /\ currentNote' = IF currentNote = name THEN <<>> ELSE currentNote
        /\ UNCHANGED <<template, lastSelection, file>>
        /\ persist
  BY <1>0
<1>2. name \in Name /\ LowerCase(name) = name
  BY ResolvedIs DEF SInv
<1>3. name \in DOMAIN notes /\ Canonical(name)
  BY <1>1, <1>2, FoundIs
<1>4. key \in TrashKey
  <2>1. Cardinality(DOMAIN trash) \in Nat
    BY FS_CardinalityType DEF SInv, InMemory, Healthy, AreTrashed
  <2>2. QED
    BY <1>1, <1>2, <2>1 DEF FreshTrashKey, TrashKey
<1>5. /\ notes' = Restrict(notes, DOMAIN notes \ {name})
      /\ trash' = With(trash, key, [original |-> name, body |-> notes[name]])
      /\ recent' = Live(recent, notes') /\ template' = template
  BY <1>1, <1>2 DEF TrashNote
<1>6. InMemory'
  BY <1>3, <1>4, <1>5, RemovalIsHealthy DEF SInv, InMemory
<1>7. Named'
  BY <1>1 DEF SInv, Named, Lowered, Name
<1>8. QED
  BY <1>1, <1>6, <1>7 DEF Stored

LEMMA TrashStores == ASSUME SInv, restore \/ purge \/ purgeAll PROVE Stored
<1>1. CASE restore
  <2>1. PICK key \in DOMAIN trash :
          /\ Restore(key)
          /\ UNCHANGED <<recent, template, currentNote, lastSelection, file>>
          /\ persist
    BY <1>1 DEF restore
  <2> DEFINE x == trash[key].original
             more == With(notes, x, trash[key].body)
  <2>2. x \in Name /\ Canonical(x) /\ trash[key].body \in Bodies
    BY DEF SInv, InMemory, Healthy, AreTrashed, TrashedNote
  <2>3. Healthy(more, trash, recent, template)
    BY <2>2, PutIsHealthy DEF SInv, InMemory
  <2>4. Healthy(more, Restrict(trash, DOMAIN trash \ {key}), recent, template)
    BY <2>3, LessTrashIsHealthy
  <2>5. InMemory'
    BY <2>1, <2>4 DEF Restore, InMemory
  <2>6. QED
    BY <2>1, <2>5, SameNames DEF SInv, Stored
<1>2. CASE purge
  <2>1. PICK key \in DOMAIN trash :
          /\ trash' = Restrict(trash, DOMAIN trash \ {key})
          /\ UNCHANGED <<notes, recent, template, currentNote, lastSelection, file>>
          /\ persist
    BY <1>2 DEF purge
  <2>2. InMemory'
    BY <2>1, LessTrashIsHealthy DEF SInv, InMemory
  <2>3. QED
    BY <2>1, <2>2, SameNames DEF SInv, Stored
<1>3. CASE purgeAll
  <2>1. InMemory'
    BY <1>3, EmptyMap DEF purgeAll, SInv, InMemory, Healthy
  <2>2. QED
    BY <1>3, <2>1, SameNames DEF purgeAll, SInv, Stored
<1>4. QED
  BY <1>1, <1>2, <1>3

LEMMA VisitStores ==
  ASSUME SInv, NEW name \in Resolved, Found(name), TrackRecent(name),
         UNCHANGED <<notes, trash, template>>
  PROVE  InMemory' /\ name \in Name /\ Lowered(name)
<1>1. name \in Name /\ LowerCase(name) = name
  BY ResolvedIs DEF SInv
<1>2. name \in DOMAIN notes /\ Canonical(name)
  BY <1>1, FoundIs
<1> DEFINE list == <<name>> \o RemoveFirst(recent, name)
<1>3. recent' = SubSeq(list, 1, IF Len(list) <= RecentMax THEN Len(list) ELSE RecentMax)
  BY <1>1 DEF TrackRecent
<1>4. InMemory'
  BY <1>2, <1>3, TrackIsHealthy DEF SInv, InMemory
<1>5. QED
  BY <1>1, <1>4, LowerCaseIs

LEMMA ContextStores ==
  ASSUME SInv, cd \/ show \/ cp \/ set \/ unset \/ templateEdit \/ templateReset
  PROVE  Stored
<1>1. CASE cd
  <2>1. PICK name \in Resolved :
          /\ Found(name) /\ currentNote' = name /\ TrackRecent(name)
          /\ UNCHANGED <<notes, trash, template, lastSelection, file>>
          /\ persist
    BY <1>1 DEF cd
  <2>2. InMemory' /\ name \in Name /\ Lowered(name)
    BY <2>1, VisitStores
  <2>3. Named'
    BY <2>1, <2>2 DEF SInv, Named
  <2>4. QED
    BY <2>1, <2>2, <2>3 DEF Stored
<1>2. CASE visit
  <2>1. PICK name \in Resolved :
          /\ Found(name) /\ TrackRecent(name)
          /\ UNCHANGED <<notes, trash, template, currentNote, lastSelection, file>>
          /\ persist
    BY <1>2 DEF visit
  <2>2. InMemory'
    BY <2>1, VisitStores
  <2>3. QED
    BY <2>1, <2>2, SameNames DEF SInv, Stored
<1>3. CASE rewrite
  <2>1. PICK body \in Bodies :
          /\ Found(currentNote) /\ Put(currentNote, body)
          /\ UNCHANGED <<trash, recent, template, currentNote, lastSelection, file>>
          /\ persist
    BY <1>3 DEF rewrite
  <2> DEFINE x == LowerCase(currentNote)
  <2>2. x \in Name /\ Canonical(x)
    BY <2>1, FoundIs, LowerIsName DEF SInv, Named
  <2>3. InMemory'
    BY <2>1, <2>2, PutIsHealthy DEF SInv, InMemory, Put
  <2>4. QED
    BY <2>1, <2>3, SameNames DEF SInv, Stored
<1>4. CASE templateEdit \/ templateReset
  <2>1. /\ template' \in Bodies \cup {NoText}
        /\ UNCHANGED <<notes, trash, recent, currentNote, lastSelection, file>>
        /\ persist
    BY <1>4, BodiesAssumption DEF templateEdit, templateReset
  <2>2. InMemory'
    BY <2>1 DEF SInv, InMemory, Healthy
  <2>3. QED
    BY <2>1, <2>2, SameNames DEF SInv, Stored
<1>5. QED
  BY <1>1, <1>2, <1>3, <1>4 DEF show, cp, set, unset

LEMMA ImportStores == ASSUME SInv, importMerge \/ importReplace \/ importBundle PROVE Stored
<1>1. CASE importReplace
  <2>1. /\ notes' = file.notes /\ recent' = file.recent /\ trash' = file.trash
        /\ template' \in {template, file.template}
        /\ UNCHANGED <<currentNote, lastSelection, file>>
        /\ persist
    BY <1>1 DEF importReplace
  <2>2. InMemory'
    BY <2>1 DEF SInv, InMemory, InFile, Healthy
  <2>3. QED
    BY <2>1, <2>2, SameNames DEF SInv, Stored
<1>2. CASE importMerge \/ importBundle
  <2>1. /\ Room(Cardinality(DOMAIN file.notes)) /\ mergeNotes
        /\ template' \in {template, file.template}
        /\ UNCHANGED <<trash, recent, currentNote, lastSelection, file>>
        /\ persist
    BY <1>2 DEF importMerge, importBundle
  <2>2. PICK target \in MergeTargets(notes, file.notes) :
          notes' = Merged(notes, file.notes, target)
    BY <2>1 DEF mergeNotes
  <2>3. Cardinality(DOMAIN notes) + Cardinality(DOMAIN file.notes) <= MaxTexts
    <3>1. /\ Cardinality(DOMAIN notes) \in Nat /\ Cardinality(DOMAIN trash) \in Nat
          /\ Cardinality(DOMAIN file.notes) \in Nat /\ MaxTexts \in Nat
      BY FS_CardinalityType, BoundsAssumption
         DEF SInv, InMemory, InFile, Healthy, AreNotes, AreTrashed
    <3>2. QED
      BY <2>1, <3>1 DEF Room
  <2>4. Healthy(notes', trash, recent, template)
    BY <2>2, <2>3, MergedIsHealthy DEF SInv, InMemory, InFile, Healthy
  <2>5. InMemory'
    BY <2>1, <2>4 DEF SInv, InFile, InMemory, Healthy
  <2>6. QED
    BY <2>1, <2>5, SameNames DEF SInv, Stored
<1>3. QED
  BY <1>1, <1>2

LEMMA FindShows == ASSUME SInv, find PROVE Shown
<1>1. PICK matches \in SUBSET DOMAIN notes :
        \E list \in [1..Cardinality(matches) -> matches] :
          /\ Cardinality(matches) <= MaxMatches /\ setSelection(list)
          /\ UNCHANGED <<payload, currentNote, disk, warned, saves, file>>
  BY DEF find
<1>2. Cardinality(matches) \in Nat
  <2>1. IsFiniteSet(matches)
    BY FS_Subset DEF SInv, InMemory, Healthy, AreNotes
  <2>2. QED
    BY <2>1, FS_CardinalityType
<1>3. matches \in SUBSET Name /\ \A n \in matches : Lowered(n)
  BY DEF SInv, InMemory, Healthy, AreNotes, Sound, Proper
<1>4. lastSelection' \in [1..Cardinality(matches) -> matches]
  BY <1>1 DEF setSelection
<1>5. lastSelection' \in Seq(Name) /\ \A i \in DOMAIN lastSelection' : Lowered(lastSelection'[i])
  BY <1>2, <1>3, <1>4
<1>6. Named'
  BY <1>1, <1>5 DEF SInv, Named
<1>7. InMemory'
  BY <1>1 DEF SInv, InMemory, payload
<1>8. InFile'
  BY <1>1, SameFile DEF SInv
<1>9. QED
  BY <1>1, <1>6, <1>7, <1>8 DEF Shown

LEMMA RecentsShow == ASSUME SInv, recents PROVE Shown
<1>1. /\ lastSelection' = Live(recent, notes)
      /\ UNCHANGED <<payload, currentNote, disk, warned, saves, file>>
  BY DEF recents, setSelection, ListRecent
<1>2. recent \in Seq(Name) /\ IsInjective(recent)
  BY DEF SInv, InMemory, Healthy, IsRecent
<1>3. /\ lastSelection' \in Seq(Name)
      /\ \A i \in DOMAIN lastSelection' : lastSelection'[i] \in DOMAIN notes
  BY <1>1, <1>2, LiveIs
<1>4. \A n \in DOMAIN notes : Lowered(n)
  BY DEF SInv, InMemory, Healthy, Sound, Proper
<1>5. Named'
  BY <1>1, <1>3, <1>4 DEF SInv, Named
<1>6. InMemory'
  BY <1>1 DEF SInv, InMemory, payload
<1>7. InFile'
  BY <1>1, SameFile DEF SInv
<1>8. QED
  BY <1>1, <1>5, <1>6, <1>7 DEF Shown

LEMMA RootShows == ASSUME SInv, cdRoot \/ vanished PROVE Shown
<1>1. /\ currentNote' = <<>>
      /\ UNCHANGED <<payload, lastSelection, disk, warned, saves, file>>
  BY DEF cdRoot, vanished
<1>2. Named'
  BY <1>1 DEF SInv, Named, Lowered, Name
<1>3. InMemory'
  BY <1>1 DEF SInv, InMemory, payload
<1>4. InFile'
  BY <1>1, SameFile DEF SInv
<1>5. QED
  BY <1>1, <1>2, <1>3, <1>4 DEF Shown

LEMMA FilesShow == ASSUME SInv, export \/ bundle PROVE Shown
<1>1. UNCHANGED <<payload, currentNote, lastSelection, disk, warned, saves>>
  BY DEF export, bundle
<1>2. InMemory' /\ Named'
  BY <1>1, SameNames DEF SInv, InMemory, payload
<1>3. CASE export
  <2>1. file' = [kind |-> "json", notes |-> Spelled(notes), trash |-> trash,
                 recent |-> recent, template |-> template]
    BY <1>3 DEF export
  <2>2. Healthy(Spelled(notes), trash, recent, template)
    BY SpelledIsHealthy DEF SInv, InMemory
  <2>3. InFile'
    BY <2>1, <2>2 DEF InFile
  <2>4. QED
    BY <1>1, <1>2, <2>3 DEF Shown
<1>4. CASE bundle
  <2>1. PICK chosen \in SUBSET DOMAIN notes :
          file' = [kind |-> "bundle", notes |-> Restrict(notes, chosen), trash |-> <<>>,
                   recent |-> <<>>, template |-> NoText]
    BY <1>4 DEF bundle
  <2> DEFINE some == Restrict(notes, chosen)
  <2>2. AreNotes(some) /\ \A n \in DOMAIN some : Sound(n)
    BY RestrictIs, RestrictKeeps DEF SInv, InMemory, Healthy
  <2>3. Healthy(<<>>, <<>>, <<>>, NoText)
    BY EmptyIsHealthy
  <2> HIDE DEF some
  <2>4. Healthy(some, <<>>, <<>>, NoText)
    BY <2>2, <2>3, EmptyMap, MoreIsHealthy
  <2>5. InFile'
    BY <2>1, <2>4 DEF InFile, some
  <2>6. QED
    BY <1>1, <1>2, <2>5 DEF Shown
<1>5. QED
  BY <1>3, <1>4

LEMMA StepShows == ASSUME SInv, Next PROVE Stored \/ Shown \/ reopen
BY NoteStores, RmStores, TrashStores, ContextStores, ImportStores,
   FindShows, RecentsShow, RootShows, FilesShow DEF Next

LEMMA SoundInitially == ASSUME Init PROVE SInv
<1>1. /\ disk = [notes |-> <<>>, trash |-> <<>>, recent |-> <<>>, template |-> NoText]
      /\ notes = <<>> /\ trash = <<>> /\ recent = <<>> /\ template = NoText
      /\ currentNote = <<>> /\ lastSelection = <<>> /\ warned = FALSE /\ saves = 0
  BY DEF Init, Payload
<1>2. Healthy(<<>>, <<>>, <<>>, NoText)
  BY EmptyIsHealthy
<1>3. InMemory
  BY <1>1, <1>2 DEF InMemory
<1>4. Named
  BY <1>1, EmptyMap DEF Named, Lowered, Name
<1>5. InVault
  <2>1. /\ disk.notes = <<>> /\ disk.trash = <<>> /\ disk.recent = <<>>
        /\ disk.template = NoText
    BY <1>1
  <2>2. saves \in 0..MaxSaves /\ warned \in BOOLEAN
    <3>1. MaxSaves \in Nat /\ saves = 0
      BY <1>1, BoundsAssumption
    <3>2. saves \in 0..MaxSaves
      BY <3>1
    <3>3. QED
      BY <1>1, <3>2
  <2>3. QED
    BY <1>1, <1>2, <2>1, <2>2 DEF InVault
<1>6. InFile
  <2>1. IsExport(file)
    BY SourcesAssumption DEF Init
  <2>2. AreNotes(file.notes) /\ AreTrashed(file.trash)
    BY <2>1 DEF IsExport, IsFile, IsNotes, IsTrash, AreNotes, AreTrashed, IsMap
  <2>3. \A n \in DOMAIN file.notes : Canonical(n) /\ Sound(n)
    BY <2>1, <2>2, CanonicalIsSound DEF IsExport, AreNotes
  <2>4. \A k \in DOMAIN file.trash : Canonical(file.trash[k].original)
    BY <2>1 DEF IsExport
  <2>5. IsRecent(file.recent, file.notes)
    BY <2>1, <2>3 DEF IsExport, IsFile, IsRecent, Range
  <2>6. Healthy(file.notes, file.trash, file.recent, file.template)
    BY <2>1, <2>2, <2>3, <2>4, <2>5 DEF Healthy, IsExport, IsFile
  <2>7. QED
    BY <2>1, <2>6 DEF InFile, IsExport, IsFile
<1>7. QED
  BY <1>3, <1>4, <1>5, <1>6 DEF SInv

LEMMA StoredKeeps == ASSUME SInv, Stored PROVE SInv'
<1>1. saves' \in 0..MaxSaves /\ warned' \in BOOLEAN
  <2>1. /\ saves \in 0..MaxSaves /\ MaxSaves \in Nat
        /\ saves < MaxSaves /\ saves' = saves + 1
    BY BoundsAssumption DEF Stored, persist, SInv, InVault
  <2>2. saves' \in 0..MaxSaves
    BY <2>1
  <2>3. QED
    BY <2>2 DEF Stored, persist
<1>2. InVault'
  <2>1. CASE disk' = disk
    BY <1>1, <2>1 DEF SInv, InVault
  <2>2. CASE disk' = ToJSON(Payload')
    <3>1. disk' = [notes |-> Spelled(notes'), trash |-> trash',
                   recent |-> recent', template |-> template']
      BY <2>2, ToJSONIs DEF Payload
    <3>2. Healthy(Spelled(notes'), trash', recent', template')
      BY SpelledIsHealthy DEF Stored, InMemory
    <3>3. QED
      BY <1>1, <3>1, <3>2 DEF InVault
  <2>3. QED
    BY <2>1, <2>2 DEF Stored, persist
<1>3. InFile'
  BY SameFile DEF SInv, Stored
<1>4. QED
  BY <1>2, <1>3 DEF SInv, Stored

LEMMA ShownKeeps == ASSUME SInv, Shown PROVE SInv'
BY DEF SInv, Shown, InVault

LEMMA ReopenedKeeps == ASSUME SInv, reopen PROVE SInv'
<1>1. InMemory'
  BY DEF SInv, InVault, InMemory, reopen
<1>2. Named'
  BY EmptyMap DEF reopen, Named, Lowered, Name
<1>3. InVault'
  BY DEF SInv, InVault, reopen
<1>4. InFile'
  BY SameFile DEF SInv, reopen
<1>5. QED
  BY <1>1, <1>2, <1>3, <1>4 DEF SInv

LEMMA SoundStep == ASSUME SInv, [Next]_vars PROVE SInv'
<1>1. CASE Next
  BY <1>1, StepShows, StoredKeeps, ShownKeeps, ReopenedKeeps
<1>2. CASE UNCHANGED vars
  BY <1>2 DEF vars, payload, SInv, InMemory, Named, InVault, InFile
<1>3. QED
  BY <1>1, <1>2

LEMMA Soundness == Spec => []SInv
<1>1. Init => SInv
  BY SoundInitially
<1>2. SInv /\ [Next]_vars => SInv'
  BY SoundStep
<1>3. QED
  BY <1>1, <1>2, PTL DEF Spec

-----------------------------------------------------------------------------
(* Theorems. *)

(* No command changes the vault in memory without its save: unless the user   *)
(* has been told that saving failed, opening the file gives what is in memory *)
(* as JSON spells it, for any names, texts and sources.                       *)
THEOREM NothingIsUnsaved == Spec => []SavedUnlessWarned
<1>1. IInv => SavedUnlessWarned
  BY DEF IInv
<1>2. QED
  BY <1>1, Invariance, PTL

(* Imports that keep the notes of the session lose none, of either side,      *)
(* however many names clash, are cut or are renamed in which order.           *)
THEOREM ImportsLoseNothing == Spec => ImportsKeepAll
<1>1. ASSUME importMerge \/ importBundle
      PROVE  /\ \A n \in DOMAIN notes : n \in DOMAIN notes' /\ notes'[n] = notes[n]
             /\ \E place \in [DOMAIN file.notes -> DOMAIN notes' \ DOMAIN notes] :
                  /\ IsInjective(place)
                  /\ \A n \in DOMAIN file.notes : notes'[place[n]] = file.notes[n]
  <2>1. PICK target \in MergeTargets(notes, file.notes) :
           notes' = Merged(notes, file.notes, target)
    BY <1>1 DEF importMerge, importBundle, mergeNotes
  <2>2. DOMAIN notes' = DOMAIN notes \cup Range(target)
    BY <2>1, MergedHas
  <2>3. \A n \in DOMAIN notes : notes'[n] = notes[n]
    BY <2>1, MergedKeepsOwn
  <2>4. \A n \in DOMAIN file.notes : notes'[target[n]] = file.notes[n]
    BY <2>1, MergedBrings
  <2>5. /\ target \in [DOMAIN file.notes -> DOMAIN notes' \ DOMAIN notes]
        /\ IsInjective(target)
    BY <2>2, TargetsAreApart DEF Range, IsInjective
  <2>6. QED
    BY <2>2, <2>3, <2>4, <2>5
<1>2. QED
  BY <1>1, PTL DEF ImportsKeepAll

ByTheTrash ==
  /\ \A n \in DOMAIN notes \ DOMAIN notes' :
       \E k \in DOMAIN trash' \ DOMAIN trash :
           trash'[k] = [original |-> n, body |-> notes[n]]
  /\ \A k \in DOMAIN trash \cap DOMAIN trash' : trash'[k] = trash[k]
  /\ \A k \in DOMAIN trash \ DOMAIN trash' :
       \/ notes' = notes
       \/ /\ trash[k].original \in DOMAIN notes' \ DOMAIN notes
          /\ notes'[trash[k].original] = trash[k].body

LEMMA NotesStep == ASSUME Next PROVE importReplace \/ reopen \/ ByTheTrash
<1>1. ASSUME trash' = trash, DOMAIN notes \subseteq DOMAIN notes' PROVE ByTheTrash
  BY <1>1 DEF ByTheTrash
<1>2. ASSUME NEW name, NEW body, Put(name, body), trash' = trash PROVE ByTheTrash
  <2>1. DOMAIN notes' = DOMAIN notes \cup {LowerCase(name)}
    BY <1>2 DEF Put, With
  <2>2. QED
    BY <1>1, <1>2, <2>1
<1>3. CASE note \/ set \/ unset
  <2>1. \E name, body : Put(name, body) /\ trash' = trash
    BY <1>3 DEF note, set, unset, rewrite
  <2>2. QED
    BY <1>2, <2>1
<1>4. CASE rm
  <2>1. PICK name, key :
          /\ \E second : FreshTrashKey(LowerCase(name), second, key)
          /\ TrashNote(LowerCase(name), key)
    BY <1>4 DEF rm
  <2>2. key \notin DOMAIN trash
    BY <2>1 DEF FreshTrashKey
  <2>3. /\ trash' = With(trash, key, [original |-> LowerCase(name),
                                      body |-> notes[LowerCase(name)]])
        /\ DOMAIN notes' = DOMAIN notes \ {LowerCase(name)}
    BY <2>1, RestrictIs DEF TrashNote
  <2>4. /\ DOMAIN trash' = DOMAIN trash \cup {key}
        /\ trash'[key] = [original |-> LowerCase(name), body |-> notes[LowerCase(name)]]
        /\ \A k \in DOMAIN trash \ {key} : trash'[k] = trash[k]
    BY <2>3 DEF With
  <2>5. QED
    BY <2>2, <2>3, <2>4 DEF ByTheTrash
<1>5. CASE restore
  <2>1. PICK key \in DOMAIN trash : Restore(key)
    BY <1>5 DEF restore
  <2>2. /\ DOMAIN notes' = DOMAIN notes \cup {trash[key].original}
        /\ notes'[trash[key].original] = trash[key].body
        /\ trash[key].original \notin DOMAIN notes
    BY <2>1 DEF Restore, With
  <2>3. /\ DOMAIN trash' = DOMAIN trash \ {key}
        /\ \A k \in DOMAIN trash' : trash'[k] = trash[k]
    BY <2>1, RestrictIs DEF Restore
  <2>4. QED
    BY <2>2, <2>3 DEF ByTheTrash
<1>6. CASE purge \/ purgeAll
  <2>1. notes' = notes
    BY <1>6 DEF purge, purgeAll
  <2>2. \A k \in DOMAIN trash' : k \in DOMAIN trash => trash'[k] = trash[k]
    <3>1. CASE purge
      BY <3>1, RestrictIs DEF purge
    <3>2. CASE purgeAll
      BY <3>2, EmptyMap DEF purgeAll
    <3>3. QED
      BY <1>6, <3>1, <3>2
  <2>3. QED
    BY <2>1, <2>2 DEF ByTheTrash
<1>7. CASE importMerge \/ importBundle
  <2>1. DOMAIN notes \subseteq DOMAIN notes' /\ trash' = trash
    BY <1>7, MergedHas DEF importMerge, importBundle, mergeNotes
  <2>2. QED
    BY <1>1, <2>1
<1>8. CASE cd \/ show \/ cp \/ templateEdit \/ templateReset
  <2>1. notes' = notes /\ trash' = trash
    BY <1>8 DEF cd, show, cp, visit, templateEdit, templateReset
  <2>2. QED
    BY <1>1, <2>1
<1>9. CASE find \/ recents \/ cdRoot \/ vanished \/ export \/ bundle
  <2>1. notes' = notes /\ trash' = trash
    BY <1>9 DEF find, recents, cdRoot, vanished, export, bundle, payload
  <2>2. QED
    BY <1>1, <2>1
<1>10. QED
  BY <1>3, <1>4, <1>5, <1>6, <1>7, <1>8, <1>9 DEF Next

(* Names and texts leave the notes only by way of the trash, and the trash    *)
(* only by being purged or restored, whatever keys a second gives.            *)
THEOREM NotesGoToTheTrash == Spec => NotesLeaveByTheTrash
<1>1. [Next]_vars => [importReplace \/ reopen \/ ByTheTrash]_vars
  BY NotesStep
<1>2. QED
  BY <1>1, PTL DEF NotesLeaveByTheTrash, ByTheTrash, Spec

(* Every variable has its type in every state, for any names, texts, notes    *)
(* and bounds (ReplSession's TypeOK).                                         *)
THEOREM TypeCorrect == Spec => []TypeOK
<1>1. ASSUME NEW n, NEW t, NEW r, NEW m, Healthy(n, t, r, m)
      PROVE  /\ IsNotes(n) /\ IsTrash(t) /\ r \in Seq(Name)
             /\ m \in Bodies \cup {NoText}
  BY <1>1 DEF Healthy, AreNotes, AreTrashed, IsRecent, IsMap, IsNotes, IsTrash
<1>2. ASSUME SInv PROVE TypeOK
  <2>1. IsPayload(Payload)
    BY <1>1, <1>2 DEF SInv, InMemory, IsPayload, Payload
  <2>2. IsPayload(disk)
    BY <1>1, <1>2 DEF SInv, InVault, IsPayload
  <2>3. IsFile(file)
    BY <1>1, <1>2 DEF SInv, InFile, IsFile
  <2>4. QED
    BY <1>2, <2>1, <2>2, <2>3 DEF SInv, Named, InVault, TypeOK
<1>3. QED
  BY <1>2, Soundness, PTL

(* The recent list names live notes, each once and no more than RecentMax,    *)
(* whatever the commands, failed saves and imports before (RecentIsLive).     *)
THEOREM RecentStaysLive == Spec => []RecentIsLive
<1>1. ASSUME SInv PROVE RecentIsLive
  BY <1>1 DEF SInv, InMemory, Healthy, IsRecent, RecentIsLive, Range
<1>2. QED
  BY <1>1, Soundness, PTL

(* Whatever imports rename, cut and rename again, and saves spell anew, a     *)
(* live note that Get does not find has a name cut inside a rune; what is in  *)
(* the trash always comes back under a name Get finds (NotesCanBeFound).      *)
THEOREM NotesAreFound == Spec => []NotesCanBeFound
<1>1. ASSUME SInv PROVE NotesCanBeFound
  <2>1. \A n \in DOMAIN notes : Canonical(n) \/ CutInRune(n)
    BY <1>1, SoundIsFound DEF SInv, InMemory, Healthy, AreNotes
  <2>2. \A k \in DOMAIN trash : Canonical(trash[k].original)
    BY <1>1 DEF SInv, InMemory, Healthy
  <2>3. QED
    BY <2>1, <2>2 DEF NotesCanBeFound
<1>2. QED
  BY <1>1, Soundness, PTL

StaysLive ==
  currentNote' # <<>> /\ ~ Found(currentNote)' =>
    importReplace \/ (currentNote' = currentNote /\ ~ Found(currentNote))

LEMMA ContextStep == ASSUME SInv, Next PROVE StaysLive
<1>1. ASSUME DOMAIN notes \subseteq DOMAIN notes', currentNote' = currentNote PROVE StaysLive
  BY <1>1 DEF StaysLive, Found
<1>2. CASE note \/ set \/ unset
  <2>1. PICK name, body : Put(name, body) /\ currentNote' = currentNote
    BY <1>2 DEF note, set, unset, rewrite
  <2>2. DOMAIN notes \subseteq DOMAIN notes'
    BY <2>1 DEF Put, With
  <2>3. QED
    BY <1>1, <2>1, <2>2
<1>3. CASE rm
  <2>1. PICK name \in Resolved :
          /\ \E key : TrashNote(LowerCase(name), key)
          /\ currentNote' = IF currentNote = name THEN <<>> ELSE currentNote
    BY <1>3 DEF rm
  <2>2. LowerCase(name) = name /\ LowerCase(currentNote) = currentNote
    BY ResolvedIs, LowerCaseIs DEF SInv, Named
  <2>3. DOMAIN notes' = DOMAIN notes \ {name}
    BY <2>1, <2>2, RestrictIs DEF TrashNote
  <2>4. QED
    BY <2>1, <2>2, <2>3 DEF StaysLive, Found
<1>4. CASE restore
  <2>1. DOMAIN notes \subseteq DOMAIN notes' /\ currentNote' = currentNote
    BY <1>4 DEF restore, Restore, With
  <2>2. QED
    BY <1>1, <2>1
<1>5. CASE cd
  <2>1. Found(currentNote')
    BY <1>5 DEF cd
  <2>2. notes' = notes
    BY <1>5 DEF cd
  <2>3. QED
    BY <2>1, <2>2 DEF StaysLive, Found
<1>6. CASE cdRoot \/ vanished \/ reopen
  BY <1>6 DEF cdRoot, vanished, reopen, StaysLive
<1>7. CASE importMerge \/ importBundle
  <2>1. DOMAIN notes \subseteq DOMAIN notes' /\ currentNote' = currentNote
    BY <1>7, MergedHas DEF importMerge, importBundle, mergeNotes
  <2>2. QED
    BY <1>1, <2>1
<1>8. CASE importReplace
  BY <1>8 DEF StaysLive
<1>9. CASE \/ purge \/ purgeAll \/ find \/ recents \/ show \/ cp
           \/ templateEdit \/ templateReset \/ export \/ bundle
  <2>1. notes' = notes /\ currentNote' = currentNote
    BY <1>9 DEF purge, purgeAll, find, recents, show, cp, visit, templateEdit, templateReset,
                export, bundle, payload
  <2>2. QED
    BY <1>1, <2>1
<1>10. QED
  BY <1>2, <1>3, <1>4, <1>5, <1>6, <1>7, <1>8, <1>9 DEF Next

(* The session is never left in a note that its own command removed: only     *)
(* import --mode replace takes the current note away (ContextIsLive).         *)
THEOREM ContextStaysLive == Spec => ContextIsLive
<1>1. SInv /\ [Next]_vars => [StaysLive]_vars
  BY ContextStep
<1>2. QED
  BY <1>1, Soundness, PTL DEF ContextIsLive, StaysLive, Spec
=============================================================================
