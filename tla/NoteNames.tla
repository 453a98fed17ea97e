------------------------------ MODULE NoteNames ------------------------------
(* The names of notes (src/internal/store/store.go, NormalizeName) and the    *)
(* names that an import gives to notes whose name is taken                    *)
(* (src/internal/repl/repl.go, mergeNotes).                                   *)
(*                                                                            *)
(* A name is a sequence of bytes, because the two measure it differently:     *)
(* NormalizeName counts runes, mergeNotes cuts at a number of bytes. A rune   *)
(* is the sequence of its bytes. A "-N" tail is two bytes, whatever N; the    *)
(* replacement rune, which JSON puts for a byte that belongs to no rune, is   *)
(* one.                                                                       *)
EXTENDS Integers, Sequences, FiniteSets, Functions

CONSTANTS
    Runes,            \* the runes of the instance, each the sequence of its bytes
    NameRunes,        \* those allowed in a name: letters, digits, - _ . /
    Lower,            \* Lower[b]: the lower case of b, a capital of ASCII
    Slash, Dash,      \* the bytes '/' and '-'
    Replacement,      \* the replacement rune, as one byte
    ConflictSuffix,   \* ".conflict-<today>"
    MaxNoteNameLen    \* 128: runes in NormalizeName, bytes in mergeNotes

Name == Seq(Nat)

ASSUME RunesAssumption ==
    /\ Runes \subseteq Name /\ <<>> \notin Runes
    /\ NameRunes \subseteq Runes
    /\ <<Replacement>> \notin NameRunes /\ <<Dash>> \in NameRunes
\* UTF-8: a byte shows whether it begins a rune, and no rune begins another.
ASSUME DecodingAssumption ==
    \A r, s \in Runes :
        /\ \A k \in 2..Len(s) : r[1] # s[k]
        /\ Len(r) <= Len(s) /\ SubSeq(s, 1, Len(r)) = r => r = s
ASSUME BytesAssumption ==
    /\ {Slash, Dash, Replacement} \subseteq Nat
    /\ Slash \notin {Dash, Replacement}
    /\ DOMAIN Lower \subseteq Nat \ {Slash, Dash, Replacement}
    /\ \A b \in DOMAIN Lower : Lower[b] \in Nat \ DOMAIN Lower
ASSUME SuffixAssumption ==
    /\ ConflictSuffix \in Name \ {<<>>}
    /\ \A i \in DOMAIN ConflictSuffix :
        /\ <<ConflictSuffix[i]>> \in NameRunes
        /\ ConflictSuffix[i] \notin DOMAIN Lower \cup {Slash}
    /\ MaxNoteNameLen \in Nat
    /\ Len(ConflictSuffix) < MaxNoteNameLen
    /\ 2 < MaxNoteNameLen

-----------------------------------------------------------------------------
(* Decoding. *)

RuneAt(name, j, r) ==
    /\ j + Len(r) - 1 <= Len(name)
    /\ SubSeq(name, j, j + Len(r) - 1) = r

\* byte i of name is part of one of the runes R
InRune(name, i, R) ==
    \E r \in R, j \in 1..i : i < j + Len(r) /\ RuneAt(name, j, r)

RuneCount(name) ==
    LET starts == {j \in DOMAIN name : \E r \in Runes : RuneAt(name, j, r)}
        strays == {i \in DOMAIN name : ~ InRune(name, i, Runes)}
    IN Cardinality(starts) + Cardinality(strays)

\* A name once it has been through json.Marshal and json.Unmarshal.
Encoded(name) ==
    [i \in DOMAIN name |-> IF InRune(name, i, Runes) THEN name[i] ELSE Replacement]

-----------------------------------------------------------------------------
(* NormalizeName: the checks, and the name it returns when they pass. *)

Acceptable(name) ==
    /\ name # <<>>
    /\ RuneCount(name) <= MaxNoteNameLen
    /\ name[1] # Slash /\ name[Len(name)] # Slash
    /\ ~ \E i \in 1..(Len(name) - 1) : name[i] = Slash /\ name[i + 1] = Slash
    /\ \A i \in DOMAIN name : InRune(name, i, NameRunes)

LowerCase(name) ==
    [i \in DOMAIN name |->
        IF name[i] \in DOMAIN Lower THEN Lower[name[i]] ELSE name[i]]

\* the canonical names: those NormalizeName returns unchanged
Canonical(name) == LowerCase(name) = name /\ Acceptable(name)

\* sort.Strings: byte by byte, a prefix first.
Before(s, t) ==
    \E k \in 0..Len(s) :
        /\ k <= Len(t)
        /\ \A i \in 1..k : s[i] = t[i]
        /\ k < Len(t)
        /\ k < Len(s) => s[k + 1] < t[k + 1]

-----------------------------------------------------------------------------
(* mergeNotes: where the notes src land among the notes dst.                  *)

Cut(name, room) == SubSeq(name, 1, IF Len(name) <= room THEN Len(name) ELSE room)

truncatedConflictBase(name) ==
    Cut(name, MaxNoteNameLen - Len(ConflictSuffix)) \o ConflictSuffix

\* Mutant: the tail is put after the base without making room for it.
CandidateTooLong(name, i) ==
    IF i = 1 THEN truncatedConflictBase(name)
             ELSE truncatedConflictBase(name) \o <<Dash, i>>

\* The i-th name tried: the base, then <base>-2, <base>-3, ..., cut to fit.
Candidate(name, i) ==
    LET base == truncatedConflictBase(name)
        tail == <<Dash, i>>
    IN IF i = 1 THEN base ELSE Cut(base, MaxNoteNameLen - Len(tail)) \o tail

\* Mutant: a second conflict takes the name of the first.
LandsOnBase(name, taken, target) ==
    target = IF name \in taken THEN truncatedConflictBase(name) ELSE name

\* The note called name is stored as target when the names taken are in use.
Lands(name, taken, target) ==
    \/ name \notin taken /\ target = name
    \/ /\ name \in taken
       /\ target \notin taken
       /\ \E i \in 1..(Cardinality(taken) + 1) :
            /\ target = Candidate(name, i)
            /\ \A j \in 1..(i - 1) : Candidate(name, j) \in taken

Places(name, n) == {name} \cup {Candidate(name, i) : i \in 1..n}

\* Go visits the notes of src in any order; each sees the ones stored before it.
MergeTargets(dst, src) ==
    LET n == Cardinality(DOMAIN dst) + Cardinality(DOMAIN src)
    IN {target \in [DOMAIN src -> UNION {Places(name, n) : name \in DOMAIN src}] :
          \E turn \in [DOMAIN src -> 1..Cardinality(DOMAIN src)] :
             /\ IsInjective(turn)
             /\ \A name \in DOMAIN src :
                  Lands(name,
                        DOMAIN dst \cup {target[m] : m \in {o \in DOMAIN src : turn[o] < turn[name]}},
                        target[name])}

Merged(dst, src, target) ==
    [name \in DOMAIN dst \cup {target[m] : m \in DOMAIN src} |->
        IF name \in DOMAIN dst THEN dst[name]
                               ELSE src[CHOOSE m \in DOMAIN src : target[m] = name]]
=============================================================================
