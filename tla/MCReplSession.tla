---------------------------- MODULE MCReplSession ----------------------------
(* A small instance of ReplSession. A name has at most MaxNoteNameLen = 3     *)
(* bytes, and the conflict suffix is one of them: the second letter of a name *)
(* of two is cut by the first conflict when it is the two bytes of one rune.  *)
EXTENDS ReplSession, TLC

CONSTANTS b1, b2, empty

a == 11
capitalA == 12
ni == <<13, 14>>
conflict == 15
dash == 7
slash == 8
fffd == 9

MCLower == (capitalA :> a)
MCNameRunes == {<<a>>, <<capitalA>>, ni, <<conflict>>, <<dash>>, <<slash>>}
                 \cup {<<i>> : i \in 2..4}
MCRunes == MCNameRunes \cup {<<fffd>>}
MCTyped == {<<capitalA>>}
MCSuffix == <<conflict>>

\* An export of a vault with one note, which is recent.
oneNote == [kind |-> "json", notes |-> (<<a>> \o ni :> b2), trash |-> <<>>,
            recent |-> <<(<<a>> \o ni)>>, template |-> empty]
MCSources == {oneNote}
=============================================================================
