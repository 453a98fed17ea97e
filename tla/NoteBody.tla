------------------------------ MODULE NoteBody ------------------------------
(* The text of a note, and what the commands that look inside it do: set,     *)
(* unset and note in a REPL session, with src/internal/fields and             *)
(* src/internal/notefmt.                                                      *)
(*                                                                            *)
(* A text is the sequence of its lines; "" is one empty line. A line is a     *)
(* record whose kind is what the code tells apart: a field has a key, as it   *)
(* is spelled, and a value; any other line has a kind alone. White space      *)
(* inside a line is left out, a blank line excepted.                          *)
EXTENDS Order, SequencesExt

CONSTANTS
    Kinds,       \* the kinds of lines of the instance that are not fields
    Spellings,   \* the keys of fields as the user may spell them
    Canonical,   \* Canonical[s]: the lower case of the spelling s
    Values,      \* the values of fields
    OddKeys,     \* arguments of set that keyPattern does not accept as keys
    Shape,       \* Shape[k]: the line that "k: value" reads as, k an odd key
    NoValue,     \* no such field
    MaxFirst,    \* bound: the lines of a text when it is written
    MaxLines     \* bound: the lines set may bring it to

Keys == {Canonical[s] : s \in Spellings}
Field == [kind : {"field"}, spelled : Spellings, value : Values]
Line == Field \cup [kind : Kinds]

ASSUME BoundsAssumption == {MaxFirst, MaxLines} \subseteq Nat
ASSUME KindsAssumption ==
    /\ Kinds \subseteq {"empty", "blank", "dashes", "fence", "heading", "text"}
    /\ {"empty", "dashes", "text"} \subseteq Kinds
ASSUME KeysAssumption ==
    /\ Keys \subseteq Spellings /\ \A k \in Keys : Canonical[k] = k
    /\ OddKeys \cap Spellings = {} /\ Shape \in [OddKeys -> Line]
    /\ NoValue \notin Values

VARIABLE body

-----------------------------------------------------------------------------
(* fields.Parse, Get and Names. *)

IsBlank(line) == line.kind \in {"empty", "blank"}

\* skipFrontmatter: the last line of the leading --- block, 0 without one.
FrontMatter(text) ==
    LET Rule(i) == text[i].kind = "dashes"
        opens == {i \in DOMAIN text : Rule(i) /\ \A j \in 1..(i - 1) : IsBlank(text[j])}
        closes == {j \in DOMAIN text : \E i \in opens :
                     i < j /\ Rule(j) /\ \A k \in (i + 1)..(j - 1) : ~ Rule(k)}
    IN IF closes = {} THEN 0 ELSE CHOOSE j \in closes : TRUE

\* Line i is inside a code fence, or is one of its two ends.
Fenced(text, i) ==
    \/ text[i].kind = "fence"
    \/ Cardinality({j \in (FrontMatter(text) + 1)..(i - 1) : text[j].kind = "fence"}) % 2 = 1

FieldLines(text) ==
    {i \in (FrontMatter(text) + 1)..Len(text) : text[i].kind = "field" /\ ~ Fenced(text, i)}

\* Parse: the lines that are fields, in order.
Parse(text) ==
    LET lines == FieldLines(text)
    IN [n \in 1..Cardinality(lines) |-> Nth(lines, n)]

Key(line) == Canonical[line.spelled]
Names(text) == [n \in DOMAIN Parse(text) |-> Key(text[Parse(text)[n]])]

\* The line of the field key, 0 when there is none: the first, if it is repeated.
LineOf(text, key) ==
    LET places == {n \in DOMAIN Parse(text) : Names(text)[n] = key}
    IN IF places = {} THEN 0
       ELSE Parse(text)[CHOOSE n \in places : \A m \in places : n <= m]

Get(text, key) == IF LineOf(text, key) = 0 THEN NoValue ELSE text[LineOf(text, key)].value

-----------------------------------------------------------------------------
(* fields.Set and Unset. *)

\* The first line after the front matter that starts with #, 0 when there is
\* none: whether it is in a code fence is not looked at.
Heading(text) ==
    LET headings == {i \in (FrontMatter(text) + 1)..Len(text) : text[i].kind = "heading"}
    IN IF headings = {} THEN 0 ELSE CHOOSE i \in headings : \A j \in headings : i <= j

\* Mutant: a new field goes to the end.
insertAtEnd(text) == Len(text)

\* insertionPoint: the line after which a new field goes.
insertionPoint(text) ==
    LET heading == Heading(text)
    IN IF Parse(text) # <<>> THEN Last(Parse(text))
       ELSE IF heading = 0 THEN FrontMatter(text)
       ELSE IF heading < Len(text) /\ IsBlank(text[heading + 1]) THEN heading + 1
       ELSE heading

NewLine(key, value) ==
    IF key \in OddKeys THEN Shape[key]
                       ELSE [kind |-> "field", spelled |-> Canonical[key], value |-> value]

\* Mutant: the line found is written anew, with the key in lower case.
SetAnew(text, key, value) ==
    LET i == IF key \in OddKeys THEN 0 ELSE LineOf(text, Canonical[key])
    IN IF i # 0 THEN [text EXCEPT ![i] = NewLine(key, value)]
                ELSE InsertAt(text, insertionPoint(text) + 1, NewLine(key, value))

Set(text, key, value) ==
    LET i == IF key \in OddKeys THEN 0 ELSE LineOf(text, Canonical[key])
    IN IF i # 0 THEN [text EXCEPT ![i].value = value]
                ELSE InsertAt(text, insertionPoint(text) + 1, NewLine(key, value))

\* Mutant: every line that spells the key goes, wherever it is.
UnsetAll(text, key) ==
    LET rest == SelectSeq(text, LAMBDA l : l.kind # "field" \/ Key(l) # Canonical[key])
    IN IF rest = <<>> THEN <<[kind |-> "empty"]>> ELSE rest

\* Mutant: a text of one line is left without a line.
UnsetToNothing(text, key) == RemoveAt(text, LineOf(text, Canonical[key]))

Unset(text, key) ==
    LET rest == RemoveAt(text, LineOf(text, Canonical[key]))
    IN IF rest = <<>> THEN <<[kind |-> "empty"]>> ELSE rest

-----------------------------------------------------------------------------
(* notefmt.Render and Strip. *)

Header == LET times == [kind |-> "text"] dashes == [kind |-> "dashes"]
          IN <<dashes, times, times, dashes, [kind |-> "empty"]>>

Render(text) == Header \o text

\* The text without its leading empty lines; a line of spaces is not one.
TrimEmpty(text) ==
    LET kept == {i \in DOMAIN text : text[i].kind # "empty"}
        first == CHOOSE i \in kept : \A j \in kept : i <= j
    IN IF kept = {} THEN <<[kind |-> "empty"]>> ELSE SubSeq(text, first, Len(text))

\* Mutant: every leading block goes, the one of the user after that of Render.
StripTwice(text) ==
    LET rest == SubSeq(text, FrontMatter(text) + 1, Len(text))
    IN IF FrontMatter(text) = 0 THEN text
       ELSE TrimEmpty(SubSeq(rest, FrontMatter(rest) + 1, Len(rest)))

Strip(text) ==
    IF FrontMatter(text) = 0 THEN text
    ELSE TrimEmpty(SubSeq(text, FrontMatter(text) + 1, Len(text)))

-----------------------------------------------------------------------------
(* Commands. *)

\* set <key> <value>, or set <key> with the value at the prompt.
SetField(key, value) ==
    /\ Len(body) < MaxLines
    /\ body' = Set(body, key, value)

\* unset <key>
UnsetField(key) ==
    /\ Get(body, Canonical[key]) # NoValue
    /\ body' = Unset(body, key)

\* What the editor returns is stripped and, unless it is blank, kept.
Keep(edited) ==
    /\ \E i \in DOMAIN Strip(edited) : ~ IsBlank(Strip(edited)[i])
    /\ body' = Strip(edited)

\* note <name>, saved as it was shown.
EditAsShown == Keep(Render(body))

\* note <name>, saved with the lines of Render deleted.
EditWithoutHeader == Keep(body)

Texts == UNION {[1..n -> Line] : n \in 1..MaxFirst}

\* A text written in an editor or brought by an import.
Init == body \in Texts

Next ==
    \/ \E key \in Spellings \cup OddKeys, value \in Values : SetField(key, value)
    \/ \E key \in Spellings : UnsetField(key)
    \/ EditAsShown \/ EditWithoutHeader

Spec == Init /\ [][Next]_body

-----------------------------------------------------------------------------
(* Properties. *)

\* The text has a line.
TypeOK == body \in Seq(Line) /\ body # <<>>

\* A title that set puts a first field after is inside a code fence.
TitleIsFenced(text) ==
    Parse(text) = <<>> /\ Heading(text) # 0 /\ Fenced(text, Heading(text))

\* What set wrote is what show and cp find under that key, unless the title it
\* was put after stands in a code fence (fields.go:261-281): then it is written
\* and never found.
SetIsFound ==
    [][ \A key \in Spellings, value \in Values : SetField(key, value) =>
            (Get(body', Canonical[key]) = value <=> ~ TitleIsFenced(body)) ]_body

\* A key that is not odd leaves every other field as it was and every line as
\* it was spelled but for the value of one, or has one line more (fields.go:17-19).
SetKeepsTheRest ==
    [][ \A key \in Spellings, value \in Values : SetField(key, value) =>
            /\ \A other \in Keys \ {Canonical[key]} : Get(body', other) = Get(body, other)
            /\ \E i \in DOMAIN body' :
                 \/ body = RemoveAt(body', i)
                 \/ /\ Len(body') = Len(body) /\ i = LineOf(body, Canonical[key])
                    /\ body' = [body EXCEPT ![i].value = value] ]_body

\* unset takes one line away, the one Get reads, and no other field with it,
\* unless a --- block comes first now that the line is gone (fields.go:200-212).
UnsetTakesOneField ==
    [][ \A key \in Spellings : UnsetField(key) =>
            \/ FrontMatter(body) = 0 /\ FrontMatter(body') # 0
            \/ LET n == CHOOSE m \in DOMAIN Names(body) :
                            /\ Names(body)[m] = Canonical[key]
                            /\ \A l \in 1..(m - 1) : Names(body)[l] # Canonical[key]
               IN Names(body') = RemoveAt(Names(body), n) ]_body

\* A note saved as the editor showed it is the same note, unless its text began
\* with an empty line, as a new note's does when the template begins with one:
\* then the starter counts as edited (repl.go:498).
EditorKeepsText ==
    Strip(Render(body)) = body <=> body[1].kind # "empty" \/ Len(body) = 1
=============================================================================
