---------------------------- MODULE NoteBodyProofs ----------------------------
(* Proofs about NoteBody: the type of a text and what the editor gives back,  *)
(* and, for texts of any length, what set and unset do to the fields.         *)
(*                                                                            *)
(* The argument: two texts that differ by one field are compared line by line *)
(* (Inserted, Moved). The front matter, the fences and so the other fields    *)
(* are the same lines in both; what the code reads by the order of the lines  *)
(* (Parse, Names, the first field of a name) follows from OrderProofs.        *)
EXTENDS NoteBody, OrderProofs

Text == Seq(Line) \ {<<>>}

-----------------------------------------------------------------------------
(* Lines. *)

LEMMA KindsAre ==
  ASSUME NEW line \in Line
  PROVE  /\ line.kind = "field" => line \in Field
         /\ line.kind # "field" => line = [kind |-> line.kind]
         /\ line.kind = "empty" => line = [kind |-> "empty"]
BY KindsAssumption DEF Line, Field

LEMMA EmptyIsLine == [kind |-> "empty"] \in Line /\ [kind |-> "empty"].kind = "empty"
BY KindsAssumption DEF Line

LEMMA ValueIsSet ==
  ASSUME NEW line \in Field, NEW value \in Values
  PROVE  LET l == [line EXCEPT !.value = value]
         IN l \in Line /\ l.kind = "field" /\ l.spelled = line.spelled /\ l.value = value
BY DEF Line, Field

LEMMA NewLineIs ==
  ASSUME NEW value \in Values
  PROVE  /\ \A key \in Spellings \cup OddKeys : NewLine(key, value) \in Line
         /\ \A key \in Spellings :
              /\ NewLine(key, value).kind = "field" /\ NewLine(key, value).value = value
              /\ Key(NewLine(key, value)) = Canonical[key]
<1>1. ASSUME NEW key \in OddKeys PROVE NewLine(key, value) \in Line
  BY KeysAssumption DEF NewLine
<1>2. ASSUME NEW key \in Spellings
      PROVE  /\ NewLine(key, value) \in Line
             /\ NewLine(key, value).kind = "field" /\ NewLine(key, value).value = value
             /\ Key(NewLine(key, value)) = Canonical[key]
  <2>1. key \notin OddKeys /\ Canonical[key] \in Spellings /\ Canonical[Canonical[key]] = Canonical[key]
    BY KeysAssumption DEF Keys
  <2>2. NewLine(key, value) = [kind |-> "field", spelled |-> Canonical[key], value |-> value]
    BY <2>1 DEF NewLine
  <2>3. QED
    BY <2>1, <2>2 DEF Line, Field, Key
<1>3. QED
  BY <1>1, <1>2

-----------------------------------------------------------------------------
(* Sequences. *)

LEMMA InsertIs ==
  ASSUME NEW s \in Seq(Line), NEW i \in 1..(Len(s) + 1), NEW e \in Line
  PROVE  LET t == InsertAt(s, i, e)
         IN /\ t \in Seq(Line) /\ Len(t) = Len(s) + 1 /\ t[i] = e
            /\ \A j \in 1..(i - 1) : t[j] = s[j]
            /\ \A j \in i..Len(s) : t[j + 1] = s[j]
<1> DEFINE a == SubSeq(s, 1, i - 1)
           b == SubSeq(s, i, Len(s))
           t == a \o <<e>> \o b
<1>1. Len(s) \in Nat /\ i \in Nat /\ 1 <= i /\ i <= Len(s) + 1
  OBVIOUS
<1>2. a \in Seq(Line) /\ Len(a) = i - 1 /\ \A j \in 1..(i - 1) : a[j] = s[j]
  BY <1>1
<1>3. b \in Seq(Line) /\ Len(b) = Len(s) + 1 - i
  BY <1>1
<1>4. ASSUME NEW j \in 1..(Len(s) + 1 - i) PROVE b[j] = s[i + j - 1]
  BY <1>1
<1> HIDE DEF a, b
<1>5. a \o <<e>> \in Seq(Line) /\ Len(a \o <<e>>) = i
  BY <1>1, <1>2
<1>6. \A j \in 1..(i - 1) : (a \o <<e>>)[j] = s[j]
  BY <1>1, <1>2
<1>7. (a \o <<e>>)[i] = e
  BY <1>1, <1>2
<1> DEFINE c == a \o <<e>>
<1>8. t = c \o b
  OBVIOUS
<1>9. c \in Seq(Line) /\ Len(c) = i
  BY <1>5
<1> HIDE DEF c, t
<1>10. t \in Seq(Line) /\ Len(t) = Len(s) + 1
  <2>1. c \o b \in Seq(Line) /\ Len(c \o b) = Len(c) + Len(b)
    BY <1>3, <1>9
  <2>2. QED
    BY <1>1, <1>3, <1>8, <1>9, <2>1
<1>11. \A j \in 1..i : t[j] = c[j]
  BY <1>1, <1>3, <1>8, <1>9
<1>12. ASSUME NEW j \in i..Len(s) PROVE t[j + 1] = s[j]
  <2>1. j + 1 - i \in 1..(Len(s) + 1 - i) /\ i + (j + 1 - i) - 1 = j /\ j + 1 > i
    BY <1>1
  <2>2. (c \o b)[j + 1] = b[j + 1 - i]
    BY <1>1, <1>3, <1>9, <2>1
  <2>3. QED
    <3>1. b[j + 1 - i] = s[j]
      BY <1>4, <2>1
    <3>2. QED
      BY <1>8, <2>2, <3>1
<1>13. t[i] = e /\ \A j \in 1..(i - 1) : t[j] = s[j]
  <2>1. c[i] = e /\ \A j \in 1..(i - 1) : c[j] = s[j]
    BY <1>6, <1>7 DEF c
  <2>2. i \in 1..i /\ \A j \in 1..(i - 1) : j \in 1..i
    BY <1>1
  <2>3. QED
    BY <1>11, <2>1, <2>2
<1>14. t = InsertAt(s, i, e)
  BY DEF InsertAt, t, c, a, b
<1>15. QED
  BY <1>10, <1>12, <1>13, <1>14

LEMMA RemoveAtIs ==
  ASSUME NEW R, NEW s \in Seq(R), NEW i \in 1..Len(s)
  PROVE  LET t == RemoveAt(s, i)
         IN /\ t \in Seq(R) /\ Len(t) = Len(s) - 1
            /\ \A j \in 1..(i - 1) : t[j] = s[j]
            /\ \A j \in i..(Len(s) - 1) : t[j] = s[j + 1]
<1> DEFINE a == SubSeq(s, 1, i - 1)
           b == SubSeq(s, i + 1, Len(s))
           t == a \o b
<1>1. Len(s) \in Nat /\ i \in Nat /\ 1 <= i /\ i <= Len(s)
  OBVIOUS
<1>2. a \in Seq(R) /\ Len(a) = i - 1 /\ \A j \in 1..(i - 1) : a[j] = s[j]
  BY <1>1
<1>3. b \in Seq(R) /\ Len(b) = Len(s) - i
  BY <1>1
<1>4. ASSUME NEW j \in 1..(Len(s) - i) PROVE b[j] = s[i + j]
  BY <1>1
<1> HIDE DEF a, b
<1>5. t \in Seq(R) /\ Len(t) = Len(s) - 1
  <2>1. a \o b \in Seq(R) /\ Len(a \o b) = Len(a) + Len(b)
    BY <1>2, <1>3
  <2>2. QED
    BY <1>1, <1>2, <1>3, <2>1
<1>6. \A j \in 1..(i - 1) : t[j] = s[j]
  BY <1>1, <1>2, <1>3
<1>7. ASSUME NEW j \in i..(Len(s) - 1) PROVE t[j] = s[j + 1]
  <2>1. j + 1 - i \in 1..(Len(s) - i) /\ i + (j + 1 - i) = j + 1 /\ j > i - 1 /\ j - (i - 1) = j + 1 - i
    BY <1>1
  <2>2. t[j] = b[j - Len(a)]
    BY <1>1, <1>2, <1>3, <2>1
  <2>3. QED
    BY <1>2, <1>4, <2>1, <2>2
<1> HIDE DEF t
<1>8. t = RemoveAt(s, i)
  BY DEF RemoveAt, t, a, b
<1>9. QED
  BY <1>5, <1>6, <1>7, <1>8

LEMMA RemoveIs ==
  ASSUME NEW s \in Seq(Line), NEW i \in 1..Len(s)
  PROVE  LET t == RemoveAt(s, i)
         IN /\ t \in Seq(Line) /\ Len(t) = Len(s) - 1
            /\ \A j \in 1..(i - 1) : t[j] = s[j]
            /\ \A j \in i..(Len(s) - 1) : t[j] = s[j + 1]
BY RemoveAtIs

-----------------------------------------------------------------------------
(* The front matter. *)

Opens(text, i) ==
  i \in DOMAIN text /\ text[i].kind = "dashes" /\ \A j \in 1..(i - 1) : IsBlank(text[j])

Closes(text, i, j) ==
  /\ j \in DOMAIN text /\ i < j /\ text[j].kind = "dashes"
  /\ \A k \in (i + 1)..(j - 1) : text[k].kind # "dashes"

EndsFront(text, j) == \E i \in DOMAIN text : Opens(text, i) /\ Closes(text, i, j)

LEMMA FrontIsOne ==
  ASSUME NEW text \in Seq(Line), NEW j, NEW k, EndsFront(text, j), EndsFront(text, k)
  PROVE  j = k
<1>1. PICK a \in DOMAIN text : Opens(text, a) /\ Closes(text, a, j)
  BY DEF EndsFront
<1>2. PICK b \in DOMAIN text : Opens(text, b) /\ Closes(text, b, k)
  BY DEF EndsFront
<1>3. a \in Nat /\ b \in Nat /\ j \in Nat /\ k \in Nat /\ 1 <= a /\ 1 <= b
  BY <1>1, <1>2 DEF Closes
<1>4. ~ (a < b) /\ ~ (b < a)
  <2>1. ~ IsBlank(text[a]) /\ ~ IsBlank(text[b])
    BY <1>1, <1>2 DEF Opens, IsBlank
  <2>2. a < b => a \in 1..(b - 1)
    BY <1>3
  <2>3. b < a => b \in 1..(a - 1)
    BY <1>3
  <2>4. QED
    BY <1>1, <1>2, <2>1, <2>2, <2>3 DEF Opens
<1>5. a = b
  BY <1>3, <1>4
<1>6. ~ (j < k) /\ ~ (k < j)
  <2>1. j < k => j \in (a + 1)..(k - 1)
    BY <1>1, <1>3 DEF Closes
  <2>2. k < j => k \in (a + 1)..(j - 1)
    BY <1>2, <1>3, <1>5 DEF Closes
  <2>3. QED
    BY <1>1, <1>2, <1>5, <2>1, <2>2 DEF Closes
<1>7. QED
  BY <1>3, <1>6

LEMMA FrontMatterIs ==
  ASSUME NEW text \in Seq(Line)
  PROVE  /\ FrontMatter(text) \in 0..Len(text)
         /\ FrontMatter(text) = 0 <=> ~ \E j : EndsFront(text, j)
         /\ \A j : EndsFront(text, j) => FrontMatter(text) = j
<1> DEFINE opens == {i \in DOMAIN text :
                       text[i].kind = "dashes" /\ \A j \in 1..(i - 1) : IsBlank(text[j])}
           closes == {j \in DOMAIN text : \E i \in opens :
                       i < j /\ text[j].kind = "dashes"
                         /\ \A k \in (i + 1)..(j - 1) : text[k].kind # "dashes"}
<1>1. \A j : j \in closes <=> EndsFront(text, j)
  BY DEF EndsFront, Opens, Closes
<1>2. FrontMatter(text) = IF closes = {} THEN 0 ELSE CHOOSE j \in closes : TRUE
  BY DEF FrontMatter
<1>3. closes \in SUBSET DOMAIN text
  OBVIOUS
<1> HIDE DEF opens, closes
<1>4. CASE closes = {}
  <2>1. FrontMatter(text) = 0
    BY <1>2, <1>4
  <2>2. 0 \in 0..Len(text)
    OBVIOUS
  <2>3. QED
    BY <1>1, <1>4, <2>1, <2>2
<1>5. CASE closes # {}
  <2>1. FrontMatter(text) \in closes
    BY <1>2, <1>5
  <2>2. FrontMatter(text) \in 0..Len(text) /\ FrontMatter(text) # 0
    BY <1>3, <2>1
  <2>3. \A j : EndsFront(text, j) => FrontMatter(text) = j
    BY <1>1, <2>1, FrontIsOne
  <2>4. QED
    BY <1>1, <2>1, <2>2, <2>3
<1>6. QED
  BY <1>4, <1>5

-----------------------------------------------------------------------------
(* What the editor gets, and gives back as it was. *)

LEMMA JoinIs ==
  ASSUME NEW s \in Seq(Line), NEW t \in Seq(Line)
  PROVE  /\ s \o t \in Seq(Line) /\ Len(s \o t) = Len(s) + Len(t)
         /\ \A i \in 1..Len(s) : (s \o t)[i] = s[i]
         /\ \A i \in 1..Len(t) : (s \o t)[i + Len(s)] = t[i]
OBVIOUS

LEMMA RenderIs ==
  ASSUME NEW text \in Seq(Line)
  PROVE  LET r == Render(text)
         IN /\ r \in Seq(Line) /\ Len(r) = Len(text) + 5
            /\ EndsFront(r, 4) /\ r[5] = [kind |-> "empty"]
            /\ \A i \in 1..Len(text) : r[i + 5] = text[i]
<1> DEFINE d == [kind |-> "dashes"]
           m == [kind |-> "text"]
           e == [kind |-> "empty"]
           h == <<d, m, m, d, e>>
           r == h \o text
<1>1. d \in Line /\ m \in Line /\ e \in Line
  BY KindsAssumption DEF Line
<1>2. d.kind = "dashes" /\ m.kind = "text"
  OBVIOUS
<1> HIDE DEF d, m, e
<1>3. h \in Seq(Line) /\ Len(h) = 5 /\ h[1] = d /\ h[2] = m /\ h[3] = m /\ h[4] = d /\ h[5] = e
  BY <1>1
<1> HIDE DEF h
<1>4. /\ r \in Seq(Line) /\ Len(r) = Len(text) + 5
      /\ r[1] = d /\ r[2] = m /\ r[3] = m /\ r[4] = d /\ r[5] = e
  <2>0. Len(text) \in Nat
    OBVIOUS
  <2>1. r \in Seq(Line) /\ Len(r) = Len(h) + Len(text)
    BY <1>3, JoinIs
  <2>2. \A i \in 1..Len(h) : r[i] = h[i]
    BY <1>3, JoinIs
  <2> HIDE DEF r
  <2>3. r[1] = h[1] /\ r[2] = h[2] /\ r[3] = h[3] /\ r[4] = h[4] /\ r[5] = h[5]
    BY <1>3, <2>2
  <2>4. QED
    BY <1>3, <2>0, <2>1, <2>3
<1>5. ASSUME NEW i \in 1..Len(text) PROVE r[i + 5] = text[i]
  <2>1. r[i + Len(h)] = text[i]
    BY <1>3, JoinIs
  <2> HIDE DEF r
  <2>2. QED
    BY <1>3, <2>1
<1> HIDE DEF r
<1>6. 1 \in DOMAIN r /\ 4 \in DOMAIN r
  BY <1>4
<1>7. Opens(r, 1)
  <2>1. \A j \in 1..(1 - 1) : FALSE
    OBVIOUS
  <2>2. QED
    BY <1>2, <1>4, <1>6, <2>1 DEF Opens
<1>8. Closes(r, 1, 4)
  <2>1. \A k \in (1 + 1)..(4 - 1) : k = 2 \/ k = 3
    OBVIOUS
  <2>2. \A k \in (1 + 1)..(4 - 1) : r[k].kind # "dashes"
    BY <1>2, <1>4, <2>1
  <2>3. QED
    BY <1>2, <1>4, <1>6, <2>2 DEF Closes
<1>9. EndsFront(r, 4)
  BY <1>6, <1>7, <1>8 DEF EndsFront
<1>10. r = Render(text)
  BY DEF Render, Header, r, h, d, m, e
<1>11. QED
  BY <1>4, <1>5, <1>9, <1>10 DEF e

LEMMA TrimmedIs ==
  ASSUME NEW text \in Seq(Line)
  PROVE  /\ (\A i \in 1..Len(text) : text[i].kind = "empty") =>
              TrimEmpty(text) = <<[kind |-> "empty"]>>
         /\ \A i \in 1..Len(text) :
              text[i].kind # "empty" /\ (\A j \in 1..(i - 1) : text[j].kind = "empty") =>
                TrimEmpty(text) = SubSeq(text, i, Len(text))
         /\ \/ \A i \in 1..Len(text) : text[i].kind = "empty"
            \/ \E i \in 1..Len(text) :
                 text[i].kind # "empty" /\ \A j \in 1..(i - 1) : text[j].kind = "empty"
<1> DEFINE kept == {i \in DOMAIN text : text[i].kind # "empty"}
           first == CHOOSE i \in kept : \A j \in kept : i <= j
<1>1. TrimEmpty(text) = IF kept = {} THEN <<[kind |-> "empty"]>> ELSE SubSeq(text, first, Len(text))
  BY DEF TrimEmpty
<1>2. /\ DOMAIN text = 1..Len(text) /\ kept \in SUBSET Nat
      /\ \A i : i \in kept <=> i \in 1..Len(text) /\ text[i].kind # "empty"
  OBVIOUS
<1> HIDE DEF kept
<1>3. ASSUME \A i \in 1..Len(text) : text[i].kind = "empty"
      PROVE  TrimEmpty(text) = <<[kind |-> "empty"]>>
  BY <1>1, <1>2, <1>3
<1>4. ASSUME NEW i \in 1..Len(text), text[i].kind # "empty",
             \A j \in 1..(i - 1) : text[j].kind = "empty"
      PROVE  TrimEmpty(text) = SubSeq(text, i, Len(text))
  <2>1. i \in kept
    BY <1>2, <1>4
  <2>2. ASSUME NEW j \in kept PROVE i <= j
    <3>1. j \notin 1..(i - 1) /\ j \in 1..Len(text)
      BY <1>2, <1>4
    <3>2. QED
      BY <3>1
  <2>3. \A k \in kept : (\A j \in kept : k <= j) => k = i
    <3>1. ASSUME NEW k \in kept, k <= i PROVE k = i
      <4>1. k \in Nat /\ i \in Nat /\ i <= k
        BY <1>2, <2>2
      <4>2. QED
        BY <3>1, <4>1
    <3>2. QED
      BY <2>1, <3>1
  <2>4. first = i
    BY <2>1, <2>2, <2>3
  <2> HIDE DEF first
  <2>5. QED
    BY <1>1, <2>1, <2>4
<1>5. ASSUME ~ \A i \in 1..Len(text) : text[i].kind = "empty"
      PROVE  \E i \in 1..Len(text) :
                 text[i].kind # "empty" /\ \A j \in 1..(i - 1) : text[j].kind = "empty"
  <2>1. kept # {}
    BY <1>2, <1>5
  <2>2. PICK i \in kept : \A j \in kept : i <= j
    BY <1>2, <2>1, Least
  <2>3. ASSUME NEW j \in 1..(i - 1) PROVE text[j].kind = "empty"
    <3>1. j \in 1..Len(text) /\ ~ (i <= j)
      BY <1>2
    <3>2. QED
      BY <1>2, <2>2, <3>1
  <2>4. QED
    BY <1>2, <2>3
<1>6. QED
  BY <1>3, <1>4, <1>5

LEMMA BackFromEditor ==
  ASSUME NEW text \in Text
  PROVE  Strip(Render(text)) = text <=> text[1].kind # "empty" \/ Len(text) = 1
<1> DEFINE r == Render(text)
           u == SubSeq(r, 5, Len(r))
<1>1. text \in Seq(Line) /\ Len(text) \in Nat /\ Len(text) # 0
  BY DEF Text
<1>2. /\ r \in Seq(Line) /\ Len(r) = Len(text) + 5 /\ EndsFront(r, 4) /\ r[5] = [kind |-> "empty"]
      /\ \A i \in 1..Len(text) : r[i + 5] = text[i]
  BY <1>1, RenderIs
<1> HIDE DEF r
<1>3. FrontMatter(r) = 4
  BY <1>2, FrontMatterIs
<1>4. Strip(r) = TrimEmpty(u)
  BY <1>3 DEF Strip
<1>5. u \in Seq(Line) /\ Len(u) = Len(text) + 1
  BY <1>1, <1>2
<1>6. ASSUME NEW i \in 1..(Len(text) + 1) PROVE u[i] = r[i + 4]
  BY <1>1, <1>2
<1> HIDE DEF u
<1>7. u[1] = [kind |-> "empty"] /\ u[1].kind = "empty"
  <2>1. 1 \in 1..(Len(text) + 1) /\ 1 + 4 = 5
    BY <1>1
  <2>2. u[1] = r[5]
    BY <1>6, <2>1
  <2>3. QED
    BY <1>2, <2>2
<1>8. ASSUME NEW i \in 1..Len(text) PROVE u[i + 1] = text[i]
  <2>1. i + 1 \in 1..(Len(text) + 1) /\ i + 1 + 4 = i + 5
    BY <1>1
  <2>2. QED
    BY <1>2, <1>6, <2>1
<1>9. CASE \A i \in 1..Len(text) : text[i].kind = "empty"
  <2>1. ASSUME NEW i \in 1..Len(u) PROVE u[i].kind = "empty"
    <3>1. i = 1 \/ (i - 1 \in 1..Len(text) /\ i - 1 + 1 = i)
      BY <1>1, <1>5
    <3>2. QED
      BY <1>7, <1>8, <1>9, <3>1
  <2>2. Strip(r) = <<[kind |-> "empty"]>>
    BY <1>4, <1>5, <2>1, TrimmedIs
  <2>3. 1 \in 1..Len(text)
    BY <1>1
  <2>4. text[1] = [kind |-> "empty"] /\ text[1].kind = "empty"
    BY <1>1, <1>9, <2>3, KindsAre
  <2>5. text = <<[kind |-> "empty"]>> <=> Len(text) = 1
    <3>1. text = <<text[1]>> <=> Len(text) = 1
      BY <1>1
    <3>2. QED
      BY <2>4, <3>1
  <2>6. QED
    BY <2>2, <2>4, <2>5 DEF r
<1>10. ASSUME NEW i \in 1..Len(text), text[i].kind # "empty",
              \A j \in 1..(i - 1) : text[j].kind = "empty"
       PROVE  Strip(r) = text <=> text[1].kind # "empty" \/ Len(text) = 1
  <2>1. i + 1 \in 1..Len(u) /\ i \in Nat /\ 1 <= i /\ i <= Len(text)
    BY <1>1, <1>5
  <2>2. u[i + 1].kind # "empty"
    BY <1>8, <1>10
  <2>3. ASSUME NEW j \in 1..(i + 1 - 1) PROVE u[j].kind = "empty"
    <3>1. j = 1 \/ (j - 1 \in 1..(i - 1) /\ j - 1 \in 1..Len(text) /\ j - 1 + 1 = j)
      BY <1>1, <2>1
    <3>2. QED
      BY <1>7, <1>8, <1>10, <3>1
  <2>4. Strip(r) = SubSeq(u, i + 1, Len(u))
    <3> DEFINE k == i + 1
    <3>1. k \in 1..Len(u) /\ u[k].kind # "empty" /\ \A j \in 1..(k - 1) : u[j].kind = "empty"
      BY <2>1, <2>2, <2>3
    <3> HIDE DEF k
    <3>2. TrimEmpty(u) = SubSeq(u, k, Len(u))
      BY <1>5, <3>1, TrimmedIs
    <3>3. QED
      BY <1>4, <3>2 DEF k
  <2>5. SubSeq(u, i + 1, Len(u)) \in Seq(Line) /\ Len(SubSeq(u, i + 1, Len(u))) = Len(text) + 1 - i
    BY <1>1, <1>5, <2>1
  <2>6. CASE i = 1
    <3>1. Len(SubSeq(u, 2, Len(u))) = Len(text)
      BY <1>1, <2>5, <2>6
    <3>2. ASSUME NEW j \in 1..Len(text) PROVE SubSeq(u, 2, Len(u))[j] = text[j]
      <4>1. SubSeq(u, 2, Len(u))[j] = u[j + 1]
        BY <1>1, <1>5
      <4>2. QED
        BY <1>8, <4>1
    <3>3. SubSeq(u, 2, Len(u)) \in Seq(Line)
      BY <2>5, <2>6
    <3>4. SubSeq(u, 2, Len(u)) = text
      BY <1>1, <3>1, <3>2, <3>3
    <3>5. QED
      BY <1>10, <2>4, <2>6, <3>4
  <2>7. CASE i # 1
    <3>0. i \in Nat /\ i >= 2 /\ i <= Len(text)
      BY <2>1, <2>7
    <3>1. 1 \in 1..(i - 1)
      BY <3>0
    <3>5. Len(text) # 1
      <4> DEFINE n == Len(text)
      <4>1. n \in Nat /\ i <= n
        BY <1>1, <3>0
      <4> HIDE DEF n
      <4>2. n # 1
        BY <3>0, <4>1
      <4>3. QED
        BY <4>2 DEF n
    <3>2. text[1].kind = "empty"
      BY <1>10, <3>1
    <3>3. Len(text) + 1 - i # Len(text)
      BY <1>1, <2>1, <2>7
    <3>4. QED
      BY <2>4, <2>5, <3>2, <3>3, <3>5
  <2>8. QED
    BY <2>6, <2>7
<1>11. QED
  BY <1>1, <1>9, <1>10, TrimmedIs DEF r

-----------------------------------------------------------------------------
(* Fields and their lines. *)

LEMMA FieldLinesAre ==
  ASSUME NEW text \in Seq(Line)
  PROVE  /\ FieldLines(text) \in SUBSET 1..Len(text) /\ FieldLines(text) \in SUBSET Nat
         /\ IsFiniteSet(FieldLines(text)) /\ Cardinality(FieldLines(text)) \in Nat
         /\ \A i \in FieldLines(text) :
              /\ FrontMatter(text) < i /\ i <= Len(text)
              /\ text[i].kind = "field" /\ text[i] \in Field /\ ~ Fenced(text, i)
<1>1. FrontMatter(text) \in Nat /\ Len(text) \in Nat
  BY FrontMatterIs
<1>2. /\ FieldLines(text) \in SUBSET 1..Len(text) /\ FieldLines(text) \in SUBSET Nat
      /\ \A i \in FieldLines(text) :
           /\ FrontMatter(text) < i /\ i <= Len(text)
           /\ text[i].kind = "field" /\ ~ Fenced(text, i)
  BY <1>1 DEF FieldLines
<1>3. IsFiniteSet(1..Len(text))
  BY <1>1, FS_Interval
<1>4. IsFiniteSet(FieldLines(text))
  BY <1>2, <1>3, FS_Subset
<1>5. \A i \in FieldLines(text) : text[i] \in Field
  BY <1>2, KindsAre
<1>6. QED
  BY <1>2, <1>4, <1>5, FS_CardinalityType

LEMMA ParseIs ==
  ASSUME NEW text \in Seq(Line)
  PROVE  /\ Parse(text) \in Seq(Nat) /\ DOMAIN Parse(text) = 1..Cardinality(FieldLines(text))
         /\ Len(Parse(text)) = Cardinality(FieldLines(text))
         /\ \A n \in DOMAIN Parse(text) :
              /\ Parse(text)[n] \in FieldLines(text) /\ Rank(FieldLines(text), Parse(text)[n]) = n
         /\ \A i \in FieldLines(text) :
              /\ Rank(FieldLines(text), i) \in DOMAIN Parse(text)
              /\ Parse(text)[Rank(FieldLines(text), i)] = i
         /\ Parse(text) = <<>> <=> FieldLines(text) = {}
<1> DEFINE S == FieldLines(text)
           p == Parse(text)
           c == Cardinality(S)
<1>1. S \in SUBSET Nat /\ IsFiniteSet(S) /\ c \in Nat
  BY FieldLinesAre
<1>2. p = [n \in 1..c |-> Nth(S, n)]
  BY DEF Parse
<1>3. c = 0 <=> S = {}
  BY <1>1, FS_EmptySet
<1> HIDE DEF S, p, c
<1>4. \A n \in 1..c : Nth(S, n) \in S /\ Rank(S, Nth(S, n)) = n
  BY <1>1, NthIs DEF c
<1>5. \A i \in S : Rank(S, i) \in 1..c /\ Nth(S, Rank(S, i)) = i
  BY <1>1, RankIs, NthOfRank DEF c
<1>6. p \in Seq(Nat) /\ Len(p) = c /\ DOMAIN p = 1..c
  <2>1. p \in [1..c -> Nat]
    BY <1>1, <1>2, <1>4
  <2>2. c \in Nat
    BY <1>1
  <2>3. QED
    BY <2>1, <2>2
<1>7. \A n \in 1..c : p[n] \in S /\ Rank(S, p[n]) = n
  BY <1>2, <1>4
<1>8. \A i \in S : Rank(S, i) \in 1..c /\ p[Rank(S, i)] = i
  BY <1>2, <1>5
<1>9. p = <<>> <=> S = {}
  BY <1>3, <1>6
<1>10. QED
  BY <1>6, <1>7, <1>8, <1>9 DEF S, p, c

Has(text, key, i) == i \in FieldLines(text) /\ Key(text[i]) = key

(* The line Get reads: the first of the fields with that key.                 *)
LEMMA LineOfIs ==
  ASSUME NEW text \in Seq(Line), NEW key
  PROVE  /\ LineOf(text, key) = 0 <=> ~ \E i : Has(text, key, i)
         /\ LineOf(text, key) # 0 =>
              /\ Has(text, key, LineOf(text, key))
              /\ \A i : Has(text, key, i) => LineOf(text, key) <= i
<1> DEFINE p == Parse(text)
           S == FieldLines(text)
           places == {n \in DOMAIN p : Names(text)[n] = key}
           first == CHOOSE n \in places : \A m \in places : n <= m
<1>1. LineOf(text, key) = IF places = {} THEN 0 ELSE p[first]
  BY DEF LineOf
<1>2. /\ S \in SUBSET Nat /\ IsFiniteSet(S) /\ 0 \notin S
      /\ p \in Seq(Nat) /\ DOMAIN p = 1..Cardinality(S) /\ Cardinality(S) \in Nat
      /\ \A n \in DOMAIN p : p[n] \in S /\ Rank(S, p[n]) = n
      /\ \A i \in S : Rank(S, i) \in DOMAIN p /\ p[Rank(S, i)] = i
  <2>1. S \in SUBSET 1..Len(text) /\ 0 \notin 1..Len(text)
    BY FieldLinesAre
  <2>2. QED
    BY <2>1, FieldLinesAre, ParseIs
<1>3. \A n : n \in places <=> n \in DOMAIN p /\ Key(text[p[n]]) = key
  BY DEF Names
<1> HIDE DEF p, places
<1>4. ASSUME NEW n \in places PROVE Has(text, key, p[n])
  BY <1>2, <1>3 DEF Has
<1>5. ASSUME NEW i, Has(text, key, i)
      PROVE  Rank(S, i) \in places /\ p[Rank(S, i)] = i /\ i \in S
  BY <1>2, <1>3, <1>5 DEF Has
<1> HIDE DEF S
<1>6. CASE places = {}
  BY <1>1, <1>4, <1>5, <1>6
<1>7. CASE places # {}
  <2>1. places \in SUBSET Nat
    BY <1>2, <1>3
  <2>2. \E n \in places : \A m \in places : n <= m
    BY <1>7, <2>1, Least
  <2>3. first \in places /\ \A m \in places : first <= m
    BY <2>2
  <2> HIDE DEF first
  <2>4. Has(text, key, p[first]) /\ p[first] \in S /\ Rank(S, p[first]) = first
    BY <1>2, <1>3, <1>4, <2>3
  <2>5. ASSUME NEW i, Has(text, key, i) PROVE p[first] <= i
    <3>1. i \in S /\ Rank(S, i) \in places
      BY <1>5, <2>5
    <3>2. ~ (Rank(S, i) < Rank(S, p[first]))
      <4>1. Rank(S, i) \in Nat /\ first \in Nat /\ first <= Rank(S, i)
        BY <2>1, <2>3, <3>1
      <4>2. QED
        BY <2>4, <4>1
    <3>3. ~ (i < p[first])
      BY <1>2, <2>4, <3>1, <3>2, RankIs
    <3>4. i \in Nat /\ p[first] \in Nat
      BY <1>2, <2>4, <3>1
    <3>5. QED
      BY <3>3, <3>4
  <2>6. p[first] # 0
    BY <1>2, <2>4
  <2>7. LineOf(text, key) = p[first]
    BY <1>1, <1>7
  <2>8. QED
    BY <2>4, <2>5, <2>6, <2>7
<1>8. QED
  BY <1>6, <1>7

LEMMA GetIs ==
  ASSUME NEW text \in Seq(Line), NEW key
  PROVE  /\ Get(text, key) = NoValue <=> LineOf(text, key) = 0
         /\ LineOf(text, key) # 0 => Get(text, key) = text[LineOf(text, key)].value
<1>1. ASSUME LineOf(text, key) # 0 PROVE text[LineOf(text, key)].value # NoValue
  <2>1. text[LineOf(text, key)] \in Field
    BY <1>1, LineOfIs, FieldLinesAre DEF Has
  <2>2. QED
    BY <2>1, KeysAssumption DEF Field
<1>2. QED
  BY <1>1 DEF Get

(* Set puts a new field after the front matter.                               *)
LEMMA InsertionPointIs ==
  ASSUME NEW text \in Seq(Line)
  PROVE  LET p == insertionPoint(text)
         IN /\ p \in Nat /\ FrontMatter(text) <= p /\ p <= Len(text)
            /\ \/ p \in FieldLines(text)
               \/ /\ Parse(text) = <<>> /\ Heading(text) = 0 /\ p = FrontMatter(text)
               \/ /\ Parse(text) = <<>> /\ Heading(text) # 0
                  /\ Heading(text) \in Nat
                  /\ FrontMatter(text) < Heading(text) /\ Heading(text) <= Len(text)
                  /\ text[Heading(text)].kind = "heading"
                  /\ \/ p = Heading(text)
                     \/ p = Heading(text) + 1 /\ IsBlank(text[p])
<1> DEFINE p == insertionPoint(text)
           h == Heading(text)
           headings == {i \in (FrontMatter(text) + 1)..Len(text) : text[i].kind = "heading"}
<1>1. FrontMatter(text) \in Nat /\ Len(text) \in Nat /\ FrontMatter(text) <= Len(text)
  BY FrontMatterIs
<1>2. CASE Parse(text) # <<>>
  <2>1. Parse(text) \in Seq(Nat) /\ DOMAIN Parse(text) = 1..Len(Parse(text))
    BY ParseIs
  <2>2. Len(Parse(text)) \in DOMAIN Parse(text)
    BY <1>2, <2>1
  <2>3. p = Parse(text)[Len(Parse(text))]
    BY <1>2 DEF insertionPoint, Last
  <2>4. p \in FieldLines(text)
    BY <2>2, <2>3, ParseIs
  <2> HIDE DEF p
  <2>5. p \in Nat /\ FrontMatter(text) < p /\ p <= Len(text)
    BY <2>4, FieldLinesAre
  <2>6. p \in Nat /\ FrontMatter(text) <= p /\ p <= Len(text)
    BY <1>1, <2>5
  <2>7. QED
    BY <2>4, <2>6 DEF p
<1>3. CASE Parse(text) = <<>>
  <2>1. h = IF headings = {} THEN 0 ELSE CHOOSE i \in headings : \A j \in headings : i <= j
    BY DEF Heading
  <2>2. headings \in SUBSET Nat
    BY <1>1
  <2>3. h = 0 \/ h \in headings
    BY <2>1, <2>2, Least
  <2>4. p = IF h = 0 THEN FrontMatter(text)
            ELSE IF h < Len(text) /\ IsBlank(text[h + 1]) THEN h + 1 ELSE h
    BY <1>3 DEF insertionPoint
  <2>5. h = 0 \/ (h \in Nat /\ FrontMatter(text) < h /\ h <= Len(text)
                    /\ text[h].kind = "heading" /\ h # 0)
    BY <1>1, <2>3
  <2> HIDE DEF p, h
  <2>6. CASE h = 0
    <3>1. p = FrontMatter(text)
      BY <2>4, <2>6
    <3>2. p \in Nat /\ FrontMatter(text) <= p /\ p <= Len(text)
      BY <1>1, <3>1
    <3>3. QED
      BY <1>3, <2>6, <3>1, <3>2 DEF p, h
  <2>7. CASE h # 0
    <3>1. h \in Nat /\ FrontMatter(text) < h /\ h <= Len(text) /\ text[h].kind = "heading"
      BY <2>5, <2>7
    <3>2. p = h \/ (h < Len(text) /\ p = h + 1 /\ IsBlank(text[p]))
      BY <2>4, <2>7
    <3>3. p \in Nat /\ FrontMatter(text) <= p /\ p <= Len(text)
      BY <1>1, <3>1, <3>2
    <3>4. QED
      BY <1>3, <2>7, <3>1, <3>2, <3>3 DEF p, h
  <2>8. QED
    BY <2>6, <2>7
<1>4. QED
  BY <1>2, <1>3

-----------------------------------------------------------------------------
(* What the commands do to the lines. *)

LEMMA SetIs ==
  ASSUME NEW text \in Seq(Line), NEW key \in Spellings \cup OddKeys, NEW value \in Values
  PROVE  \/ /\ key \in Spellings /\ LineOf(text, Canonical[key]) # 0
            /\ Set(text, key, value) = [text EXCEPT ![LineOf(text, Canonical[key])].value = value]
         \/ /\ key \in Spellings => LineOf(text, Canonical[key]) = 0
            /\ Set(text, key, value)
                 = InsertAt(text, insertionPoint(text) + 1, NewLine(key, value))
BY KeysAssumption DEF Set

LEMMA SetIsText ==
  ASSUME NEW text \in Text, NEW key \in Spellings \cup OddKeys, NEW value \in Values
  PROVE  Set(text, key, value) \in Text
<1>1. text \in Seq(Line) /\ Len(text) \in Nat /\ Len(text) # 0
  BY DEF Text
<1>2. ASSUME NEW i, i = LineOf(text, Canonical[key]), i # 0
      PROVE  [text EXCEPT ![i].value = value] \in Text
  <2>1. i \in DOMAIN text /\ text[i] \in Field
    BY <1>1, <1>2, LineOfIs, FieldLinesAre DEF Has
  <2>2. [text[i] EXCEPT !.value = value] \in Line
    BY <2>1, ValueIsSet
  <2>3. [text EXCEPT ![i].value = value] = [text EXCEPT ![i] = [text[i] EXCEPT !.value = value]]
    BY <2>1
  <2>4. QED
    BY <1>1, <2>1, <2>2, <2>3 DEF Text
<1>3. InsertAt(text, insertionPoint(text) + 1, NewLine(key, value)) \in Text
  <2> DEFINE p == insertionPoint(text)
             e == NewLine(key, value)
             t == InsertAt(text, p + 1, e)
  <2>1. p \in Nat /\ p <= Len(text)
    BY <1>1, InsertionPointIs
  <2>2. e \in Line
    BY NewLineIs
  <2> HIDE DEF p, e
  <2>3. p + 1 \in 1..(Len(text) + 1)
    BY <1>1, <2>1
  <2>4. t \in Seq(Line) /\ Len(t) = Len(text) + 1
    BY <1>1, <2>2, <2>3, InsertIs
  <2> HIDE DEF t
  <2>5. t # <<>>
    BY <1>1, <2>4
  <2>6. QED
    BY <2>4, <2>5 DEF Text, t, p, e
<1>4. QED
  BY <1>1, <1>2, <1>3, SetIs

LEMMA UnsetIsText ==
  ASSUME NEW text \in Text, NEW key, Get(text, Canonical[key]) # NoValue
  PROVE  Unset(text, key) \in Text
<1> DEFINE i == LineOf(text, Canonical[key])
           rest == RemoveAt(text, i)
<1>1. text \in Seq(Line)
  BY DEF Text
<1>2. i \in 1..Len(text)
  BY <1>1, GetIs, LineOfIs, FieldLinesAre DEF Has
<1> HIDE DEF i
<1>3. rest \in Seq(Line)
  BY <1>1, <1>2, RemoveIs
<1>4. Unset(text, key) = IF rest = <<>> THEN <<[kind |-> "empty"]>> ELSE rest
  BY DEF Unset, i
<1> HIDE DEF rest
<1>5. <<[kind |-> "empty"]>> \in Text
  BY EmptyIsLine DEF Text
<1>6. QED
  BY <1>3, <1>4, <1>5 DEF Text

LEMMA StripIsText ==
  ASSUME NEW text \in Text
  PROVE  Strip(text) \in Seq(Line)
<1>1. text \in Seq(Line)
  BY DEF Text
<1>2. ASSUME NEW s \in Seq(Line) PROVE TrimEmpty(s) \in Seq(Line)
  <2>1. CASE \A i \in 1..Len(s) : s[i].kind = "empty"
    <3>1. TrimEmpty(s) = <<[kind |-> "empty"]>>
      BY <2>1, TrimmedIs
    <3>2. <<[kind |-> "empty"]>> \in Seq(Line)
      BY EmptyIsLine
    <3>3. QED
      BY <3>1, <3>2
  <2>2. ASSUME NEW i \in 1..Len(s), TrimEmpty(s) = SubSeq(s, i, Len(s))
        PROVE  TrimEmpty(s) \in Seq(Line)
    BY <2>2
  <2>3. QED
    BY <2>1, <2>2, TrimmedIs
<1>3. SubSeq(text, FrontMatter(text) + 1, Len(text)) \in Seq(Line)
  <2>1. FrontMatter(text) \in Nat
    BY <1>1, FrontMatterIs
  <2>2. QED
    BY <1>1, <2>1
<1>4. QED
  BY <1>1, <1>2, <1>3 DEF Strip

LEMMA KeptIsText == ASSUME NEW text \in Text, Keep(text) PROVE body' \in Text
<1>1. Strip(text) \in Seq(Line)
  BY StripIsText
<1>2. Strip(text) # <<>>
  BY DEF Keep
<1>3. QED
  BY <1>1, <1>2 DEF Keep, Text

LEMMA TextStep == ASSUME body \in Text, [Next]_body PROVE body' \in Text
<1>1. ASSUME NEW key \in Spellings \cup OddKeys, NEW value \in Values, SetField(key, value)
      PROVE  body' \in Text
  BY <1>1, SetIsText DEF SetField
<1>2. ASSUME NEW key \in Spellings, UnsetField(key)
      PROVE  body' \in Text
  BY <1>2, UnsetIsText DEF UnsetField
<1>3. CASE EditAsShown
  <2>1. body \in Seq(Line) /\ Len(body) \in Nat
    BY DEF Text
  <2>2. Render(body) \in Seq(Line) /\ Len(Render(body)) = Len(body) + 5
    BY <2>1, RenderIs
  <2>3. Render(body) # <<>>
    BY <2>1, <2>2
  <2>4. QED
    BY <1>3, <2>2, <2>3, KeptIsText DEF EditAsShown, Text
<1>4. CASE EditWithoutHeader
  BY <1>4, KeptIsText DEF EditWithoutHeader
<1>5. CASE UNCHANGED body
  BY <1>5
<1>6. QED
  BY <1>1, <1>2, <1>3, <1>4, <1>5 DEF Next

LEMMA TextInitially == ASSUME Init PROVE body \in Text
<1>1. PICK n \in 1..MaxFirst : body \in [1..n -> Line]
  BY DEF Init, Texts
<1>2. n \in Nat /\ n # 0
  BY BoundsAssumption
<1>3. body \in Seq(Line) /\ Len(body) = n
  BY <1>1, <1>2
<1>4. QED
  BY <1>2, <1>3 DEF Text

LEMMA Invariance == Spec => [](body \in Text)
<1>1. Init => body \in Text
  BY TextInitially
<1>2. body \in Text /\ [Next]_body => (body \in Text)'
  BY TextStep
<1>3. QED
  BY <1>1, <1>2, PTL DEF Spec

-----------------------------------------------------------------------------
(* A field is put in, or taken out: u is t with a field at line q.            *)

Inserted(t, u, q) ==
  /\ t \in Seq(Line) /\ u \in Seq(Line) /\ Len(u) = Len(t) + 1
  /\ q \in 1..Len(u) /\ u[q].kind = "field"
  /\ \A i \in 1..(q - 1) : u[i] = t[i]
  /\ \A i \in q..Len(t) : u[i + 1] = t[i]

\* where line i of t is in u
Moved(i, q) == IF i < q THEN i ELSE i + 1

LEMMA MovedIs ==
  ASSUME NEW q \in Nat, NEW i \in Nat, NEW j \in Nat
  PROVE  /\ Moved(i, q) \in Nat /\ Moved(i, q) # q
         /\ Moved(i, q) <= Moved(j, q) <=> i <= j
         /\ Moved(i, q) < Moved(j, q) <=> i < j
         /\ Moved(i, q) = Moved(j, q) <=> i = j
         /\ Moved(i, q) < q <=> i < q
BY DEF Moved

LEMMA InsertedIs ==
  ASSUME NEW t, NEW u, NEW q, Inserted(t, u, q)
  PROVE  /\ q \in Nat /\ 1 <= q /\ q <= Len(t) + 1 /\ Len(t) \in Nat /\ Len(u) = Len(t) + 1
         /\ \A i \in 1..Len(t) : Moved(i, q) \in 1..Len(u) /\ u[Moved(i, q)] = t[i]
         /\ \A j \in 1..Len(u) : j = q \/ \E i \in 1..Len(t) : j = Moved(i, q)
<1>1. /\ q \in Nat /\ 1 <= q /\ q <= Len(t) + 1 /\ Len(t) \in Nat /\ Len(u) = Len(t) + 1
  BY DEF Inserted
<1>2. ASSUME NEW i \in 1..Len(t)
      PROVE  Moved(i, q) \in 1..Len(u) /\ u[Moved(i, q)] = t[i]
  <2>1. CASE i < q
    <3>1. i \in 1..(q - 1) /\ i \in 1..Len(u)
      BY <1>1, <2>1
    <3>2. u[i] = t[i]
      BY <3>1 DEF Inserted
    <3>3. QED
      BY <2>1, <3>1, <3>2 DEF Moved
  <2>2. CASE ~ (i < q)
    <3>1. i \in q..Len(t) /\ i + 1 \in 1..Len(u)
      BY <1>1, <2>2
    <3>2. u[i + 1] = t[i]
      BY <3>1 DEF Inserted
    <3>3. QED
      BY <2>2, <3>1, <3>2 DEF Moved
  <2>3. QED
    BY <2>1, <2>2
<1>3. ASSUME NEW j \in 1..Len(u), j # q PROVE \E i \in 1..Len(t) : j = Moved(i, q)
  <2>1. CASE j < q
    <3>1. j \in 1..Len(t) /\ j = Moved(j, q)
      BY <1>1, <2>1 DEF Moved
    <3>2. QED
      BY <3>1
  <2>2. CASE j > q
    <3>1. j - 1 \in 1..Len(t) /\ j = Moved(j - 1, q)
      BY <1>1, <2>2 DEF Moved
    <3>2. QED
      BY <3>1
  <2>3. QED
    BY <1>1, <1>3, <2>1, <2>2
<1>4. QED
  BY <1>1, <1>2, <1>3

LEMMA FrontPrefix ==
  ASSUME NEW s \in Seq(Line), NEW t \in Seq(Line), NEW j, EndsFront(s, j),
         j <= Len(t), \A i \in 1..j : t[i] = s[i]
  PROVE  EndsFront(t, j)
<1>1. PICK i \in DOMAIN s : Opens(s, i) /\ Closes(s, i, j)
  BY DEF EndsFront
<1>2. i \in Nat /\ 1 <= i /\ j \in Nat /\ i < j /\ Len(t) \in Nat
  BY <1>1 DEF Closes
<1>3. /\ i \in DOMAIN t /\ j \in DOMAIN t /\ i \in 1..j /\ j \in 1..j
      /\ \A k \in 1..(i - 1) : k \in 1..j
      /\ \A k \in (i + 1)..(j - 1) : k \in 1..j
  BY <1>2
<1>4. Opens(t, i)
  BY <1>1, <1>3 DEF Opens
<1>5. Closes(t, i, j)
  BY <1>1, <1>3 DEF Closes
<1>6. QED
  BY <1>3, <1>4, <1>5 DEF EndsFront

(* A field put in after the front matter leaves it as it is, and does not     *)
(* make one ...                                                               *)
LEMMA FrontStays ==
  ASSUME NEW t, NEW u, NEW q, Inserted(t, u, q), FrontMatter(t) < q
  PROVE  FrontMatter(u) = FrontMatter(t)
<1>1. t \in Seq(Line) /\ u \in Seq(Line) /\ u[q].kind = "field"
  BY DEF Inserted
<1>2. /\ q \in Nat /\ 1 <= q /\ q <= Len(t) + 1 /\ Len(t) \in Nat /\ Len(u) = Len(t) + 1
      /\ FrontMatter(t) \in Nat
  BY <1>1, InsertedIs, FrontMatterIs
<1>3. ASSUME NEW k \in 1..(q - 1) PROVE u[k] = t[k] /\ k \in DOMAIN t
  BY <1>1, <1>2 DEF Inserted
<1>4. ASSUME NEW k \in q..Len(t) PROVE u[k + 1] = t[k]
  BY DEF Inserted
<1>5. CASE FrontMatter(t) # 0
  <2> DEFINE j == FrontMatter(t)
  <2>1. EndsFront(t, j)
    BY <1>1, <1>5, FrontMatterIs
  <2>2. j <= Len(u) /\ \A i \in 1..j : i \in 1..(q - 1)
    BY <1>2
  <2>3. \A i \in 1..j : u[i] = t[i]
    BY <1>3, <2>2
  <2> HIDE DEF j
  <2>4. EndsFront(u, j)
    BY <1>1, <2>1, <2>2, <2>3, FrontPrefix
  <2>5. QED
    BY <1>1, <2>4, FrontMatterIs DEF j
<1>6. CASE FrontMatter(t) = 0
  <2>1. ASSUME NEW j, EndsFront(u, j) PROVE FALSE
    <3>1. PICK i \in DOMAIN u : Opens(u, i) /\ Closes(u, i, j)
      BY <2>1 DEF EndsFront
    <3>2. /\ i \in Nat /\ 1 <= i /\ j \in Nat /\ i < j /\ j <= Len(u)
          /\ u[i].kind = "dashes" /\ u[j].kind = "dashes"
      BY <1>1, <3>1 DEF Opens, Closes
    <3>3. i # q /\ j # q
      BY <1>1, <3>2
    <3>4. ~ (q < i)
      <4>1. q < i => q \in 1..(i - 1)
        BY <1>2, <3>2
      <4>2. ~ IsBlank(u[q])
        BY <1>1 DEF IsBlank
      <4>3. QED
        BY <3>1, <4>1, <4>2 DEF Opens
    <3>5. i < q
      BY <1>2, <3>2, <3>3, <3>4
    <3>6. CASE j < q
      <4>1. j <= Len(t) /\ \A k \in 1..j : k \in 1..(q - 1)
        BY <1>2, <3>2, <3>6
      <4>2. \A k \in 1..j : t[k] = u[k]
        BY <1>3, <4>1
      <4>3. EndsFront(t, j)
        BY <1>1, <2>1, <4>1, <4>2, FrontPrefix
      <4>4. QED
        BY <1>1, <1>6, <4>3, FrontMatterIs
    <3>7. CASE j > q
      <4>1. /\ i \in 1..(q - 1) /\ j - 1 \in q..Len(t) /\ j - 1 + 1 = j
            /\ j - 1 \in DOMAIN t /\ i < j - 1
            /\ \A k \in 1..(i - 1) : k \in 1..(q - 1)
        BY <1>1, <1>2, <3>2, <3>5, <3>7
      <4>2. Opens(t, i)
        BY <1>3, <3>1, <4>1 DEF Opens
      <4>3. t[j - 1].kind = "dashes"
        BY <1>4, <3>2, <4>1
      <4>4. ASSUME NEW k \in (i + 1)..(j - 1 - 1) PROVE t[k].kind # "dashes"
        <5>1. CASE k < q
          <6>1. k \in 1..(q - 1) /\ k \in (i + 1)..(j - 1)
            BY <1>2, <3>2, <5>1
          <6>2. QED
            BY <1>3, <3>1, <6>1 DEF Closes
        <5>2. CASE ~ (k < q)
          <6>1. k \in q..Len(t) /\ k + 1 \in (i + 1)..(j - 1)
            BY <1>2, <3>2, <5>2
          <6>2. QED
            BY <1>4, <3>1, <6>1 DEF Closes
        <5>3. QED
          BY <5>1, <5>2
      <4>5. Closes(t, i, j - 1)
        BY <4>1, <4>3, <4>4 DEF Closes
      <4>6. EndsFront(t, j - 1)
        BY <1>3, <4>1, <4>2, <4>5 DEF EndsFront
      <4>7. QED
        BY <1>1, <1>6, <4>6, FrontMatterIs
    <3>8. QED
      BY <1>2, <3>2, <3>3, <3>6, <3>7
  <2>2. QED
    BY <1>1, <1>6, <2>1, FrontMatterIs
<1>7. QED
  BY <1>5, <1>6

(* ... and one taken out after it leaves it.                                  *)
LEMMA FrontStaysWithout ==
  ASSUME NEW t, NEW u, NEW q, Inserted(t, u, q), FrontMatter(u) < q, FrontMatter(u) # 0
  PROVE  FrontMatter(t) = FrontMatter(u)
<1> DEFINE j == FrontMatter(u)
<1>1. t \in Seq(Line) /\ u \in Seq(Line)
  BY DEF Inserted
<1>2. /\ q \in Nat /\ 1 <= q /\ q <= Len(t) + 1 /\ Len(t) \in Nat /\ j \in Nat
  BY <1>1, InsertedIs, FrontMatterIs
<1>3. EndsFront(u, j)
  BY <1>1, FrontMatterIs
<1>4. j <= Len(t) /\ \A i \in 1..j : i \in 1..(q - 1)
  BY <1>2
<1>5. \A i \in 1..j : t[i] = u[i]
  BY <1>4 DEF Inserted
<1> HIDE DEF j
<1>6. EndsFront(t, j)
  BY <1>1, <1>3, <1>4, <1>5, FrontPrefix
<1>7. QED
  BY <1>1, <1>6, FrontMatterIs DEF j

LEMMA MovedSize ==
  ASSUME NEW S \in SUBSET Nat, IsFiniteSet(S), NEW q \in Nat
  PROVE  /\ IsFiniteSet({Moved(i, q) : i \in S})
         /\ Cardinality({Moved(i, q) : i \in S}) = Cardinality(S)
<1> DEFINE T == {Moved(i, q) : i \in S}
           g == [i \in S |-> Moved(i, q)]
<1>1. \A i, j \in S : Moved(i, q) = Moved(j, q) => i = j
  BY MovedIs
<1>2. g \in Bijection(S, T)
  BY <1>1 DEF Bijection, Injection, Surjection, IsInjective
<1>3. QED
  BY <1>2, FS_Bijection DEF ExistsBijection

(* The same lines of t are in a fence, and are fields.                        *)
LEMMA FencesStay ==
  ASSUME NEW t, NEW u, NEW q, Inserted(t, u, q),
         FrontMatter(u) = FrontMatter(t), FrontMatter(t) < q, NEW i \in 1..Len(t)
  PROVE  Fenced(u, Moved(i, q)) <=> Fenced(t, i)
<1> DEFINE f == FrontMatter(t)
           S == {j \in (f + 1)..(i - 1) : t[j].kind = "fence"}
           m == Moved(i, q)
           T == {j \in (f + 1)..(m - 1) : u[j].kind = "fence"}
<1>1. /\ t \in Seq(Line) /\ u[q].kind = "field"
      /\ q \in Nat /\ 1 <= q /\ Len(t) \in Nat /\ Len(u) = Len(t) + 1 /\ f \in Nat
      /\ m \in 1..Len(u) /\ u[m] = t[i] /\ i \in Nat /\ 1 <= i /\ i <= Len(t)
      /\ m \in Nat
  <2>1. t \in Seq(Line) /\ u[q].kind = "field"
    BY DEF Inserted
  <2>2. f \in Nat
    BY <2>1, FrontMatterIs
  <2> HIDE DEF f
  <2>3. /\ q \in Nat /\ 1 <= q /\ Len(t) \in Nat /\ Len(u) = Len(t) + 1
        /\ m \in 1..Len(u) /\ u[m] = t[i]
    BY InsertedIs
  <2> HIDE DEF m
  <2>4. QED
    BY <2>1, <2>2, <2>3
<1>2. \A j : j \in S <=> j \in Nat /\ f + 1 <= j /\ j < i /\ t[j].kind = "fence"
  BY <1>1
<1>3. \A j : j \in T <=> j \in Nat /\ f + 1 <= j /\ j < m /\ u[j].kind = "fence"
  BY <1>1
<1>4. IsFiniteSet(S)
  <2>1. IsFiniteSet((f + 1)..(i - 1))
    BY <1>1, FS_Interval
  <2>2. QED
    BY <2>1, FS_Subset
<1> HIDE DEF S, T
<1>5. ASSUME NEW j \in S PROVE Moved(j, q) \in T
  <2>1. j \in Nat /\ f + 1 <= j /\ j < i /\ t[j].kind = "fence" /\ j \in 1..Len(t)
    BY <1>1, <1>2
  <2>2. Moved(j, q) \in Nat /\ Moved(j, q) < m
    BY <1>1, <2>1, MovedIs
  <2>5. u[Moved(j, q)] = t[j]
    BY <2>1, InsertedIs
  <2>3. f + 1 <= Moved(j, q)
    BY <1>1, <2>1 DEF Moved
  <2>4. QED
    BY <1>3, <2>1, <2>2, <2>3, <2>5
<1>6. ASSUME NEW k \in T PROVE \E j \in S : k = Moved(j, q)
  <2>1. k \in Nat /\ f + 1 <= k /\ k < m /\ u[k].kind = "fence" /\ k # q /\ k \in 1..Len(u)
    BY <1>1, <1>3
  <2>2. PICK j \in 1..Len(t) : k = Moved(j, q)
    BY <2>1, InsertedIs
  <2>3. j \in Nat /\ j < i /\ t[j].kind = "fence"
    <3>1. j \in Nat /\ Moved(j, q) < m
      BY <1>1, <2>1, <2>2
    <3>2. j < i
      BY <1>1, <3>1, MovedIs
    <3>3. u[k] = t[j]
      BY <2>2, InsertedIs
    <3>4. QED
      BY <2>1, <3>1, <3>2, <3>3
  <2>4. f + 1 <= j
    BY <1>1, <2>1, <2>2, <2>3 DEF Moved
  <2>5. QED
    BY <1>2, <2>2, <2>3, <2>4
<1>7. T = {Moved(j, q) : j \in S}
  BY <1>5, <1>6
<1>8. Cardinality(T) = Cardinality(S)
  <2>1. S \in SUBSET Nat
    BY <1>2
  <2>2. QED
    BY <1>1, <1>4, <1>7, <2>1, MovedSize
<1>9. /\ Fenced(t, i) <=> t[i].kind = "fence" \/ Cardinality(S) % 2 = 1
      /\ Fenced(u, m) <=> u[m].kind = "fence" \/ Cardinality(T) % 2 = 1
  BY DEF Fenced, S, T
<1>10. QED
  BY <1>1, <1>8, <1>9

LEMMA FieldsStay ==
  ASSUME NEW t, NEW u, NEW q, Inserted(t, u, q),
         FrontMatter(u) = FrontMatter(t), FrontMatter(t) < q
  PROVE  /\ \A i \in 1..Len(t) : Moved(i, q) \in FieldLines(u) <=> i \in FieldLines(t)
         /\ q \in FieldLines(u) <=> ~ Fenced(u, q)
         /\ \A j \in FieldLines(u) : j = q \/ \E i \in FieldLines(t) : j = Moved(i, q)
<1> DEFINE f == FrontMatter(t)
<1>1. /\ t \in Seq(Line) /\ u \in Seq(Line) /\ u[q].kind = "field"
      /\ q \in Nat /\ 1 <= q /\ q <= Len(t) + 1 /\ Len(t) \in Nat /\ Len(u) = Len(t) + 1
      /\ f \in Nat
  BY InsertedIs, FrontMatterIs DEF Inserted
<1>2. \A i : i \in FieldLines(t) <=>
               i \in Nat /\ f < i /\ i <= Len(t) /\ t[i].kind = "field" /\ ~ Fenced(t, i)
  BY <1>1 DEF FieldLines
<1>3. \A i : i \in FieldLines(u) <=>
               i \in Nat /\ f < i /\ i <= Len(u) /\ u[i].kind = "field" /\ ~ Fenced(u, i)
  BY <1>1 DEF FieldLines
<1>4. ASSUME NEW i \in 1..Len(t) PROVE Moved(i, q) \in FieldLines(u) <=> i \in FieldLines(t)
  <2>1. /\ i \in Nat /\ i <= Len(t) /\ Moved(i, q) \in Nat /\ Moved(i, q) <= Len(u)
        /\ u[Moved(i, q)] = t[i]
    BY <1>1, InsertedIs
  <2>2. f < Moved(i, q) <=> f < i
    BY <1>1, <2>1 DEF Moved
  <2>3. Fenced(u, Moved(i, q)) <=> Fenced(t, i)
    BY FencesStay
  <2>4. QED
    BY <1>2, <1>3, <2>1, <2>2, <2>3
<1>5. q \in FieldLines(u) <=> ~ Fenced(u, q)
  BY <1>1, <1>3
<1>6. ASSUME NEW j \in FieldLines(u), j # q PROVE \E i \in FieldLines(t) : j = Moved(i, q)
  <2>1. j \in 1..Len(u)
    BY <1>1, FieldLinesAre
  <2>2. PICK i \in 1..Len(t) : j = Moved(i, q)
    BY <1>6, <2>1, InsertedIs
  <2>3. QED
    BY <1>4, <2>2
<1>7. QED
  BY <1>4, <1>5, <1>6

-----------------------------------------------------------------------------
(* A value is set: texts whose lines are of the same kinds.                   *)

LEMMA FieldsAlike ==
  ASSUME NEW t \in Seq(Line), NEW u \in Seq(Line), Len(u) = Len(t),
         \A i \in 1..Len(t) : u[i].kind = t[i].kind
  PROVE  FrontMatter(u) = FrontMatter(t) /\ FieldLines(u) = FieldLines(t)
<1>1. DOMAIN t = 1..Len(t) /\ DOMAIN u = 1..Len(t) /\ Len(t) \in Nat
  OBVIOUS
<1>2. \A i \in DOMAIN t : IsBlank(u[i]) <=> IsBlank(t[i])
  BY <1>1 DEF IsBlank
<1>3. ASSUME NEW i PROVE Opens(u, i) <=> Opens(t, i)
  <2>1. i \in DOMAIN t => \A j \in 1..(i - 1) : j \in DOMAIN t
    BY <1>1
  <2>2. QED
    BY <1>1, <1>2, <2>1 DEF Opens
<1>4. ASSUME NEW i \in DOMAIN t, NEW j PROVE Closes(u, i, j) <=> Closes(t, i, j)
  <2>1. j \in DOMAIN t => \A k \in (i + 1)..(j - 1) : k \in DOMAIN t
    BY <1>1
  <2>2. QED
    BY <1>1, <2>1 DEF Closes
<1>5. \A j : EndsFront(u, j) <=> EndsFront(t, j)
  BY <1>1, <1>3, <1>4 DEF EndsFront
<1>6. FrontMatter(u) = FrontMatter(t)
  <2>1. CASE FrontMatter(t) = 0
    BY <1>5, <2>1, FrontMatterIs
  <2>2. CASE FrontMatter(t) # 0
    BY <1>5, <2>2, FrontMatterIs
  <2>3. QED
    BY <2>1, <2>2
<1>7. FrontMatter(t) \in Nat
  BY FrontMatterIs
<1>8. ASSUME NEW i \in 1..Len(t) PROVE Fenced(u, i) <=> Fenced(t, i)
  <2>1. \A j \in (FrontMatter(t) + 1)..(i - 1) : j \in 1..Len(t)
    BY <1>1, <1>7
  <2>2. {j \in (FrontMatter(t) + 1)..(i - 1) : u[j].kind = "fence"}
          = {j \in (FrontMatter(t) + 1)..(i - 1) : t[j].kind = "fence"}
    BY <2>1
  <2>3. QED
    BY <1>6, <2>2 DEF Fenced
<1>9. \A i \in (FrontMatter(t) + 1)..Len(t) : i \in 1..Len(t)
  BY <1>1, <1>7
<1>10. FieldLines(u) = FieldLines(t)
  BY <1>6, <1>8, <1>9 DEF FieldLines
<1>11. QED
  BY <1>6, <1>10

LEMMA SameLineOf ==
  ASSUME NEW t \in Seq(Line), NEW u \in Seq(Line), NEW key,
         \A i : Has(u, key, i) <=> Has(t, key, i)
  PROVE  LineOf(u, key) = LineOf(t, key)
<1>1. CASE LineOf(t, key) = 0
  BY <1>1, LineOfIs
<1>2. CASE LineOf(t, key) # 0
  <2>1. LineOf(u, key) # 0
    BY <1>2, LineOfIs
  <2>2. /\ Has(t, key, LineOf(t, key)) /\ \A i : Has(t, key, i) => LineOf(t, key) <= i
        /\ Has(u, key, LineOf(u, key)) /\ \A i : Has(u, key, i) => LineOf(u, key) <= i
    BY <1>2, <2>1, LineOfIs
  <2>3. LineOf(t, key) \in Nat /\ LineOf(u, key) \in Nat
    BY <2>2, FieldLinesAre DEF Has
  <2>4. LineOf(t, key) <= LineOf(u, key) /\ LineOf(u, key) <= LineOf(t, key)
    BY <2>2
  <2>5. QED
    BY <2>3, <2>4
<1>3. QED
  BY <1>1, <1>2

LEMMA ValueGets ==
  ASSUME NEW t \in Text, NEW key \in Spellings, NEW value \in Values,
         LineOf(t, Canonical[key]) # 0
  PROVE  LET u == [t EXCEPT ![LineOf(t, Canonical[key])].value = value]
         IN /\ Len(u) = Len(t) /\ LineOf(t, Canonical[key]) \in DOMAIN u
            /\ Get(u, Canonical[key]) = value
            /\ \A other : other # Canonical[key] => Get(u, other) = Get(t, other)
<1> DEFINE c == Canonical[key]
           i == LineOf(t, c)
           u == [t EXCEPT ![i].value = value]
<1>1. t \in Seq(Line) /\ DOMAIN t = 1..Len(t)
  BY DEF Text
<1>2. Has(t, c, i)
  BY <1>1, LineOfIs
<1>3. i \in DOMAIN t /\ t[i] \in Field /\ t[i].kind = "field" /\ Key(t[i]) = c
  BY <1>1, <1>2, FieldLinesAre DEF Has
<1>4. i # 0
  OBVIOUS
<1> HIDE DEF c, i
<1> DEFINE l == [t[i] EXCEPT !.value = value]
<1>5. l \in Line /\ l.kind = "field" /\ l.spelled = t[i].spelled /\ l.value = value
  BY <1>3, ValueIsSet
<1>6. u = [t EXCEPT ![i] = l]
  BY <1>3
<1> HIDE DEF l, u
<1>7. /\ u \in Seq(Line) /\ Len(u) = Len(t) /\ DOMAIN u = DOMAIN t /\ u[i] = l
      /\ \A j \in DOMAIN t \ {i} : u[j] = t[j]
  BY <1>1, <1>3, <1>5, <1>6
<1>8. \A j \in 1..Len(t) : u[j].kind = t[j].kind
  BY <1>1, <1>3, <1>5, <1>7
<1>9. FieldLines(u) = FieldLines(t)
  BY <1>1, <1>7, <1>8, FieldsAlike
<1>10. \A j \in FieldLines(t) : j \in DOMAIN t
  BY <1>1, FieldLinesAre
<1>11. \A j \in DOMAIN t : Key(u[j]) = Key(t[j])
  BY <1>5, <1>7 DEF Key
<1>12. \A k, j : Has(u, k, j) <=> Has(t, k, j)
  BY <1>9, <1>10, <1>11 DEF Has
<1>13. \A k : LineOf(u, k) = LineOf(t, k)
  BY <1>1, <1>7, <1>12, SameLineOf
<1>14. Get(u, c) = value
  <2>1. LineOf(u, c) = i
    BY <1>13 DEF i
  <2>2. QED
    BY <1>4, <1>5, <1>7, <2>1, GetIs
<1>15. ASSUME NEW other, other # c PROVE Get(u, other) = Get(t, other)
  <2> DEFINE j == LineOf(t, other)
  <2>1. CASE j = 0
    BY <1>13, <2>1 DEF Get
  <2>2. CASE j # 0
    <3>1. Has(t, other, j)
      BY <1>1, <2>2, LineOfIs
    <3>2. j \in DOMAIN t /\ j # i
      BY <1>3, <1>10, <1>15, <3>1 DEF Has
    <3>3. LineOf(u, other) = j
      BY <1>13
    <3> HIDE DEF j
    <3>4. u[j] = t[j]
      BY <1>7, <3>2
    <3>5. QED
      BY <3>3, <3>4 DEF Get, j
  <2>3. QED
    BY <2>1, <2>2
<1>16. QED
  BY <1>3, <1>7, <1>14, <1>15 DEF u, i, c

-----------------------------------------------------------------------------
(* A field is put in. *)

LEMMA InsertInserts ==
  ASSUME NEW t \in Seq(Line), NEW p \in Nat, p <= Len(t), NEW e \in Line, e.kind = "field"
  PROVE  LET u == InsertAt(t, p + 1, e)
         IN Inserted(t, u, p + 1) /\ u[p + 1] = e
<1> DEFINE q == p + 1
           u == InsertAt(t, q, e)
<1>1. q \in 1..(Len(t) + 1) /\ Len(t) \in Nat
  OBVIOUS
<1> HIDE DEF q
<1>2. /\ u \in Seq(Line) /\ Len(u) = Len(t) + 1 /\ u[q] = e
      /\ \A j \in 1..(q - 1) : u[j] = t[j]
      /\ \A j \in q..Len(t) : u[j + 1] = t[j]
  BY <1>1, InsertIs
<1> HIDE DEF u
<1>3. Inserted(t, u, q)
  BY <1>1, <1>2 DEF Inserted
<1>4. QED
  BY <1>2, <1>3 DEF u, q

LEMMA RemoveUndoes ==
  ASSUME NEW t, NEW u, NEW q, Inserted(t, u, q)
  PROVE  t = RemoveAt(u, q)
<1> DEFINE r == RemoveAt(u, q)
<1>1. t \in Seq(Line) /\ u \in Seq(Line) /\ q \in 1..Len(u) /\ Len(u) = Len(t) + 1
  BY DEF Inserted
<1>2. /\ r \in Seq(Line) /\ Len(r) = Len(u) - 1
      /\ \A j \in 1..(q - 1) : r[j] = u[j]
      /\ \A j \in q..(Len(u) - 1) : r[j] = u[j + 1]
  BY <1>1, RemoveIs
<1> HIDE DEF r
<1>3. q \in Nat /\ Len(t) \in Nat /\ Len(u) - 1 = Len(t) /\ Len(r) = Len(t)
  BY <1>1, <1>2
<1>4. ASSUME NEW j \in 1..Len(t) PROVE r[j] = t[j]
  <2>1. CASE j < q
    <3>1. j \in 1..(q - 1)
      BY <1>3, <2>1
    <3>2. QED
      BY <1>2, <3>1 DEF Inserted
  <2>2. CASE ~ (j < q)
    <3>1. j \in q..Len(t) /\ j \in q..(Len(u) - 1)
      BY <1>3, <2>2
    <3>2. QED
      BY <1>2, <3>1 DEF Inserted
  <2>3. QED
    BY <2>1, <2>2
<1>5. t = r
  BY <1>1, <1>2, <1>3, <1>4
<1>6. QED
  BY <1>5 DEF r

(* Which fields u has more than t.                                            *)
LEMMA HasMoved ==
  ASSUME NEW t, NEW u, NEW q, Inserted(t, u, q),
         FrontMatter(u) = FrontMatter(t), FrontMatter(t) < q, NEW key
  PROVE  /\ \A i : Has(t, key, i) => Has(u, key, Moved(i, q))
         /\ \A j : Has(u, key, j) => j = q \/ \E i : Has(t, key, i) /\ j = Moved(i, q)
         /\ Has(u, key, q) <=> ~ Fenced(u, q) /\ Key(u[q]) = key
<1>1. t \in Seq(Line) /\ u \in Seq(Line)
  BY DEF Inserted
<1>2. \A i \in FieldLines(t) : i \in 1..Len(t)
  BY <1>1, FieldLinesAre
<1>3. \A i \in 1..Len(t) : u[Moved(i, q)] = t[i]
  BY InsertedIs
<1>4. /\ \A i \in 1..Len(t) : Moved(i, q) \in FieldLines(u) <=> i \in FieldLines(t)
      /\ q \in FieldLines(u) <=> ~ Fenced(u, q)
      /\ \A j \in FieldLines(u) : j = q \/ \E i \in FieldLines(t) : j = Moved(i, q)
  BY FieldsStay
<1>5. QED
  BY <1>2, <1>3, <1>4 DEF Has

LEMMA GetsMoved ==
  ASSUME NEW t, NEW u, NEW q, Inserted(t, u, q),
         FrontMatter(u) = FrontMatter(t), FrontMatter(t) < q, NEW key, ~ Has(u, key, q)
  PROVE  Get(u, key) = Get(t, key)
<1>1. t \in Seq(Line) /\ u \in Seq(Line) /\ q \in Nat
  BY InsertedIs DEF Inserted
<1>2. /\ \A i : Has(t, key, i) => Has(u, key, Moved(i, q))
      /\ \A j : Has(u, key, j) => \E i : Has(t, key, i) /\ j = Moved(i, q)
  BY HasMoved
<1>3. CASE LineOf(t, key) = 0
  <2>1. ~ \E i : Has(t, key, i)
    BY <1>1, <1>3, LineOfIs
  <2>2. LineOf(u, key) = 0
    BY <1>1, <1>2, <2>1, LineOfIs
  <2>3. QED
    BY <1>3, <2>2 DEF Get
<1>4. CASE LineOf(t, key) # 0
  <2> DEFINE a == LineOf(t, key)
             b == LineOf(u, key)
  <2>1. Has(t, key, a) /\ \A i : Has(t, key, i) => a <= i
    BY <1>1, <1>4, LineOfIs
  <2>2. b # 0
    BY <1>1, <1>2, <2>1, LineOfIs
  <2>3. Has(u, key, b) /\ \A j : Has(u, key, j) => b <= j
    BY <1>1, <2>2, LineOfIs
  <2>4. PICK i : Has(t, key, i) /\ b = Moved(i, q)
    BY <1>2, <2>3
  <2> HIDE DEF a, b
  <2>5. i \in 1..Len(t) /\ a \in 1..Len(t) /\ i \in Nat /\ a \in Nat
    BY <1>1, <2>1, <2>4, FieldLinesAre DEF Has
  <2>6. a <= i /\ Moved(i, q) <= Moved(a, q)
    BY <1>2, <2>1, <2>3, <2>4
  <2>7. i <= a
    BY <1>1, <2>5, <2>6, MovedIs
  <2>8. a = i
    BY <2>5, <2>6, <2>7
  <2>9. u[b] = t[a]
    BY <2>4, <2>5, <2>8, InsertedIs
  <2>10. Get(t, key) = t[a].value /\ Get(u, key) = u[b].value
    BY <1>1, <1>4, <2>2, GetIs DEF a, b
  <2>11. QED
    BY <2>9, <2>10
<1>5. QED
  BY <1>3, <1>4

-----------------------------------------------------------------------------
(* Whether a new field is inside a fence. *)

Open(text, i) ==
  Cardinality({j \in (FrontMatter(text) + 1)..(i - 1) : text[j].kind = "fence"}) % 2 = 1

LEMMA FencedIs ==
  ASSUME NEW text, NEW i
  PROVE  Fenced(text, i) <=> text[i].kind = "fence" \/ Open(text, i)
BY DEF Fenced, Open

LEMMA OpenIs ==
  ASSUME NEW text, NEW i, NEW S,
         S = {j \in (FrontMatter(text) + 1)..(i - 1) : text[j].kind = "fence"}
  PROVE  Open(text, i) <=> Cardinality(S) % 2 = 1
BY DEF Open

LEMMA OpenStays ==
  ASSUME NEW text \in Seq(Line), NEW i \in Nat, text[i].kind # "fence"
  PROVE  Open(text, i + 1) <=> Open(text, i)
<1> DEFINE f == FrontMatter(text)
           S == {j \in (f + 1)..(i + 1 - 1) : text[j].kind = "fence"}
           T == {j \in (f + 1)..(i - 1) : text[j].kind = "fence"}
<1>1. f \in Nat
  BY FrontMatterIs
<1>2. \A j : j \in (f + 1)..(i + 1 - 1) => j = i \/ j \in (f + 1)..(i - 1)
  BY <1>1
<1>3. \A j : j \in (f + 1)..(i - 1) => j \in (f + 1)..(i + 1 - 1)
  BY <1>1
<1>4. S = T
  BY <1>2, <1>3
<1>5. (Open(text, i + 1) <=> Cardinality(S) % 2 = 1) /\ (Open(text, i) <=> Cardinality(T) % 2 = 1)
  BY DEF Open
<1> HIDE DEF S, T
<1>6. QED
  BY <1>4, <1>5

LEMMA NewFieldOpen ==
  ASSUME NEW t, NEW u, NEW q, Inserted(t, u, q), FrontMatter(t) < q
  PROVE  Fenced(u, q) <=> Open(t, q)
<1> DEFINE f == FrontMatter(t)
           S == {j \in (f + 1)..(q - 1) : u[j].kind = "fence"}
           T == {j \in (f + 1)..(q - 1) : t[j].kind = "fence"}
<1>1. t \in Seq(Line) /\ u[q].kind = "field" /\ q \in Nat /\ f \in Nat /\ FrontMatter(u) = f
  <2>1. t \in Seq(Line) /\ u[q].kind = "field"
    BY DEF Inserted
  <2>2. q \in Nat
    BY InsertedIs
  <2>3. FrontMatter(t) \in Nat
    BY <2>1, FrontMatterIs
  <2>4. FrontMatter(u) = FrontMatter(t)
    BY FrontStays
  <2>5. QED
    BY <2>1, <2>2, <2>3, <2>4
<1>2. \A j \in (f + 1)..(q - 1) : j \in 1..(q - 1)
  BY <1>1
<1>3. \A j \in 1..(q - 1) : u[j] = t[j]
  BY DEF Inserted
<1>4. S = T
  BY <1>2, <1>3
<1>5. S = {j \in (FrontMatter(u) + 1)..(q - 1) : u[j].kind = "fence"}
  BY <1>1
<1>6. Open(t, q) <=> Cardinality(T) % 2 = 1
  BY OpenIs
<1> HIDE DEF S, T
<1>7. Open(u, q) <=> Cardinality(S) % 2 = 1
  BY <1>5, OpenIs
<1>8. QED
  BY <1>1, <1>4, <1>6, <1>7, FencedIs

LEMMA NewFieldFenced ==
  ASSUME NEW t \in Text, NEW u, Inserted(t, u, insertionPoint(t) + 1)
  PROVE  Fenced(u, insertionPoint(t) + 1) <=> TitleIsFenced(t)
<1> DEFINE p == insertionPoint(t)
           f == FrontMatter(t)
           h == Heading(t)
<1>1. t \in Seq(Line) /\ u[p + 1].kind = "field"
  BY DEF Inserted
<1>2. p \in Nat /\ f \in Nat /\ f <= p
  BY <1>1, InsertionPointIs, FrontMatterIs
<1>3. FrontMatter(u) = f
  BY <1>2, FrontStays
<1>4. Fenced(u, p + 1) <=> Open(t, p + 1)
  <2> DEFINE q == p + 1
  <2>1. f < q
    BY <1>2
  <2> HIDE DEF q
  <2>2. Fenced(u, q) <=> Open(t, q)
    BY <2>1, NewFieldOpen DEF q
  <2>3. QED
    BY <2>2 DEF q
<1>5. Parse(t) # <<>> => ~ TitleIsFenced(t)
  BY DEF TitleIsFenced
<1>6. /\ p \in Nat /\ f <= p /\ p <= Len(t)
      /\ \/ p \in FieldLines(t)
         \/ Parse(t) = <<>> /\ h = 0 /\ p = f
         \/ /\ Parse(t) = <<>> /\ h # 0
            /\ h \in Nat /\ f < h /\ h <= Len(t)
            /\ t[h].kind = "heading"
            /\ p = h \/ (p = h + 1 /\ IsBlank(t[p]))
  BY <1>1, InsertionPointIs
<1>7. CASE p \in FieldLines(t)
  <2>1. t[p].kind = "field" /\ ~ Fenced(t, p) /\ Parse(t) # <<>>
    BY <1>1, <1>7, FieldLinesAre, ParseIs
  <2>2. ~ Open(t, p)
    BY <2>1 DEF Fenced, Open
  <2>3. ~ Open(t, p + 1)
    BY <1>1, <1>2, <2>1, <2>2, OpenStays
  <2>4. QED
    BY <1>4, <1>5, <2>1, <2>3
<1>8. CASE h = 0 /\ p = f
  <2> DEFINE q == p + 1
             T == {j \in (FrontMatter(t) + 1)..(q - 1) : t[j].kind = "fence"}
  <2>1. \A j : j \notin (FrontMatter(t) + 1)..(q - 1)
    BY <1>2, <1>8
  <2>2. T = {}
    <3> HIDE DEF q
    <3>1. QED
      BY <2>1
  <2>3. Open(t, q) <=> Cardinality(T) % 2 = 1
    <3> HIDE DEF q
    <3>1. QED
      BY OpenIs
  <2> HIDE DEF T
  <2>4. Cardinality(T) = 0
    BY <2>2, FS_EmptySet
  <2>5. ~ Open(t, q)
    BY <2>3, <2>4
  <2>6. QED
    BY <1>4, <1>8, <2>5 DEF TitleIsFenced
<1>9. CASE /\ Parse(t) = <<>> /\ h # 0 /\ h \in Nat /\ f < h /\ h <= Len(t)
           /\ t[h].kind = "heading" /\ (p = h \/ (p = h + 1 /\ IsBlank(t[p])))
  <2>0. h \in Nat
    BY <1>9
  <2>1. TitleIsFenced(t) <=> Open(t, h)
    BY <1>9, FencedIs DEF TitleIsFenced
  <2>2. Open(t, h + 1) <=> Open(t, h)
    BY <1>1, <1>9, <2>0, OpenStays
  <2>3. ASSUME p = h + 1, IsBlank(t[p]) PROVE Open(t, p + 1) <=> Open(t, p)
    <3>1. t[p].kind # "fence"
      BY <2>3 DEF IsBlank
    <3>2. QED
      BY <1>1, <1>2, <3>1, OpenStays
  <2>4. QED
    BY <1>4, <1>9, <2>1, <2>2, <2>3
<1>10. QED
  BY <1>6, <1>7, <1>8, <1>9

-----------------------------------------------------------------------------
(* What a step of set does. *)

LEMMA SetStep ==
  ASSUME NEW t \in Text, NEW u, NEW key \in Spellings, NEW value \in Values,
         u = Set(t, key, value)
  PROVE  /\ Get(u, Canonical[key]) = value <=> ~ TitleIsFenced(t)
         /\ \A other \in Keys \ {Canonical[key]} : Get(u, other) = Get(t, other)
         /\ \E i \in DOMAIN u :
              \/ t = RemoveAt(u, i)
              \/ /\ Len(u) = Len(t) /\ i = LineOf(t, Canonical[key])
                 /\ u = [t EXCEPT ![i].value = value]
<1> DEFINE c == Canonical[key]
<1>1. t \in Seq(Line)
  BY DEF Text
<1>2. ASSUME LineOf(t, c) # 0, u = [t EXCEPT ![LineOf(t, c)].value = value]
      PROVE  /\ Get(u, c) = value <=> ~ TitleIsFenced(t)
             /\ \A other \in Keys \ {c} : Get(u, other) = Get(t, other)
             /\ \E i \in DOMAIN u :
                  /\ Len(u) = Len(t) /\ i = LineOf(t, c)
                  /\ u = [t EXCEPT ![i].value = value]
  <2>1. /\ Len(u) = Len(t) /\ LineOf(t, c) \in DOMAIN u /\ Get(u, c) = value
        /\ \A other : other # c => Get(u, other) = Get(t, other)
    <3> DEFINE v == [t EXCEPT ![LineOf(t, c)].value = value]
    <3>1. /\ Len(v) = Len(t) /\ LineOf(t, c) \in DOMAIN v /\ Get(v, c) = value
          /\ \A other : other # c => Get(v, other) = Get(t, other)
      BY <1>2, ValueGets
    <3>2. u = v
      BY <1>2
    <3> HIDE DEF v, c
    <3>3. QED
      BY <3>1, <3>2
  <2>2. ~ TitleIsFenced(t)
    BY <1>1, <1>2, LineOfIs, ParseIs DEF Has, TitleIsFenced
  <2>3. QED
    BY <1>2, <2>1, <2>2
<1>3. ASSUME LineOf(t, c) = 0,
             u = InsertAt(t, insertionPoint(t) + 1, NewLine(key, value))
      PROVE  /\ Get(u, c) = value <=> ~ TitleIsFenced(t)
             /\ \A other \in Keys \ {c} : Get(u, other) = Get(t, other)
             /\ \E i \in DOMAIN u : t = RemoveAt(u, i)
  <2> DEFINE p == insertionPoint(t)
             q == p + 1
             e == NewLine(key, value)
  <2>1. p \in Nat /\ FrontMatter(t) <= p /\ p <= Len(t) /\ FrontMatter(t) \in Nat
    BY <1>1, InsertionPointIs, FrontMatterIs
  <2>2. e \in Line /\ e.kind = "field" /\ e.value = value /\ Key(e) = c
    BY NewLineIs
  <2> HIDE DEF e, c
  <2>3. Inserted(t, u, q) /\ u[q] = e
    <3> HIDE DEF p
    <3>1. QED
      BY <1>1, <1>3, <2>1, <2>2, InsertInserts DEF e, p
  <2>4. Fenced(u, q) <=> TitleIsFenced(t)
    BY <2>3, NewFieldFenced
  <2> HIDE DEF p
  <2>5. q \in Nat /\ FrontMatter(t) < q /\ q # 0
    BY <2>1
  <2> HIDE DEF q
  <2>6. FrontMatter(u) = FrontMatter(t)
    BY <2>3, <2>5, FrontStays
  <2>7. t \in Seq(Line) /\ u \in Seq(Line) /\ q \in DOMAIN u
    BY <2>3 DEF Inserted
  <2>8. ASSUME NEW other \in Keys \ {c} PROVE Get(u, other) = Get(t, other)
    <3>1. ~ Has(u, other, q)
      BY <2>2, <2>3, <2>8 DEF Has
    <3>2. QED
      BY <2>3, <2>5, <2>6, <3>1, GetsMoved
  <2>9. \A i : ~ Has(t, c, i)
    BY <1>1, <1>3, LineOfIs
  <2>10. \A j : Has(u, c, j) <=> j = q /\ ~ Fenced(u, q)
    <3>1. \A j : Has(u, c, j) => j = q
      <4>1. \A j : Has(u, c, j) => j = q \/ \E i : Has(t, c, i) /\ j = Moved(i, q)
        BY <2>3, <2>5, <2>6, HasMoved
      <4>2. QED
        BY <2>9, <4>1
    <3>2. Has(u, c, q) <=> ~ Fenced(u, q)
      BY <2>2, <2>3, <2>5, <2>6, HasMoved
    <3>3. QED
      BY <3>1, <3>2
  <2>11. CASE Fenced(u, q)
    <3>1. LineOf(u, c) = 0
      BY <2>7, <2>10, <2>11, LineOfIs
    <3>2. Get(u, c) # value
      BY <3>1, KeysAssumption DEF Get
    <3>3. QED
      BY <2>3, <2>4, <2>7, <2>8, <2>11, <3>2, RemoveUndoes
  <2>12. CASE ~ Fenced(u, q)
    <3>1. LineOf(u, c) = q
      BY <2>7, <2>10, <2>12, LineOfIs
    <3>2. Get(u, c) = value
      BY <2>2, <2>3, <2>5, <3>1 DEF Get
    <3>3. QED
      BY <2>3, <2>4, <2>7, <2>8, <2>12, <3>2, RemoveUndoes
  <2>13. QED
    BY <2>11, <2>12
<1>4. key \in Spellings \cup OddKeys
  OBVIOUS
<1>5. QED
  BY <1>1, <1>2, <1>3, <1>4, SetIs

-----------------------------------------------------------------------------
(* A field is taken out. *)

LEMMA RemoveInserts ==
  ASSUME NEW u \in Seq(Line), NEW q \in 1..Len(u), u[q].kind = "field"
  PROVE  Inserted(RemoveAt(u, q), u, q)
<1> DEFINE t == RemoveAt(u, q)
<1>1. /\ t \in Seq(Line) /\ Len(t) = Len(u) - 1
      /\ \A j \in 1..(q - 1) : t[j] = u[j]
      /\ \A j \in q..(Len(u) - 1) : t[j] = u[j + 1]
  BY RemoveIs
<1> HIDE DEF t
<1>2. Len(u) \in Nat /\ Len(t) = Len(u) - 1
  BY <1>1
<1>3. Len(u) = Len(t) + 1
  BY <1>2
<1>4. \A j \in q..Len(t) : u[j + 1] = t[j]
  BY <1>1, <1>2
<1>5. Inserted(t, u, q)
  BY <1>1, <1>3, <1>4 DEF Inserted
<1>6. QED
  BY <1>5 DEF t

LEMMA RankMoved ==
  ASSUME NEW S \in SUBSET Nat, IsFiniteSet(S), NEW q \in Nat, NEW i \in S
  PROVE  LET T == {Moved(j, q) : j \in S} \cup {q}
         IN Rank(T, Moved(i, q)) = Moved(Rank(S, i), Rank(T, q))
<1> DEFINE M == {Moved(j, q) : j \in S}
           T == M \cup {q}
           m == Moved(i, q)
           A == {j \in S : j <= i}
           MA == {Moved(j, q) : j \in A}
           B == {j \in T : j <= m}
<1>1. i \in Nat /\ m \in Nat
  BY MovedIs
<1>2. A \in SUBSET Nat /\ IsFiniteSet(A) /\ Cardinality(A) \in Nat
  BY FS_Subset, FS_CardinalityType
<1>3. IsFiniteSet(MA) /\ Cardinality(MA) = Cardinality(A)
  BY <1>2, MovedSize
<1>4. T \in SUBSET Nat /\ IsFiniteSet(T) /\ q \in T /\ m \in T
  <2>1. IsFiniteSet(M) /\ M \in SUBSET Nat
    <3>1. IsFiniteSet(M)
      BY MovedSize
    <3>2. \A j \in S : Moved(j, q) \in Nat
      BY MovedIs
    <3>3. QED
      BY <3>1, <3>2
  <2>2. IsFiniteSet(M \cup {q})
    BY <2>1, FS_AddElement
  <2>3. QED
    BY <2>1, <2>2
<1>5. Rank(S, i) = Cardinality(A) /\ Rank(T, m) = Cardinality(B)
  BY DEF Rank
<1>6. \A j \in S : j \in Nat /\ Moved(j, q) \in Nat /\ Moved(j, q) # q
                   /\ (Moved(j, q) <= m <=> j <= i)
  BY <1>1, MovedIs
<1>7. q \notin MA
  BY <1>6
<1>8. Rank(T, m) \in Nat /\ Rank(T, q) \in Nat
  <2>1. Cardinality(T) \in Nat
    BY <1>4, FS_CardinalityType
  <2> HIDE DEF T, m
  <2>2. Rank(T, m) \in 1..Cardinality(T) /\ Rank(T, q) \in 1..Cardinality(T)
    BY <1>4, RankIs
  <2>3. QED
    BY <2>1, <2>2
<1>9. CASE i < q
  <2>1. m < q
    BY <1>1, <1>9, MovedIs
  <2>2. B = MA
    <3>1. ~ (q <= m)
      BY <1>1, <2>1
    <3>2. QED
      BY <1>6, <3>1
  <2> HIDE DEF T, m, A, B, MA
  <2>3. Rank(T, m) < Rank(T, q)
    BY <1>4, <2>1, RankIs
  <2>4. Rank(S, i) = Rank(T, m)
    BY <1>3, <1>5, <2>2
  <2>5. QED
    BY <2>3, <2>4 DEF Moved, T, m
<1>10. CASE ~ (i < q)
  <2>1. q < m
    BY <1>1, <1>10 DEF Moved
  <2>2. B = MA \cup {q}
    <3>1. q <= m
      BY <1>1, <2>1
    <3>2. QED
      BY <1>6, <3>1
  <2> HIDE DEF T, m, A, B, MA
  <2>3. Rank(T, q) < Rank(T, m)
    BY <1>4, <2>1, RankIs
  <2>4. Rank(T, m) = Rank(S, i) + 1
    <3>1. Cardinality(MA \cup {q}) = Cardinality(MA) + 1
      BY <1>3, <1>7, FS_AddElement
    <3>2. QED
      BY <1>3, <1>5, <2>2, <3>1
  <2>5. Rank(S, i) \in Nat
    BY <1>2, <1>5
  <2>6. ~ (Rank(S, i) < Rank(T, q))
    BY <1>8, <2>3, <2>4, <2>5
  <2>7. QED
    BY <2>4, <2>6 DEF Moved, T, m
<1>11. QED
  BY <1>9, <1>10

LEMMA NamesAre ==
  ASSUME NEW text \in Seq(Line)
  PROVE  /\ Names(text) \in Seq(Keys) /\ DOMAIN Names(text) = 1..Cardinality(FieldLines(text))
         /\ Len(Names(text)) = Cardinality(FieldLines(text))
         /\ \A i \in FieldLines(text) :
              /\ Rank(FieldLines(text), i) \in DOMAIN Names(text)
              /\ Names(text)[Rank(FieldLines(text), i)] = Key(text[i])
         /\ \A n \in DOMAIN Names(text) :
              \E i \in FieldLines(text) : Rank(FieldLines(text), i) = n
<1> DEFINE S == FieldLines(text)
           p == Parse(text)
           c == Cardinality(S)
           names == Names(text)
<1>1. /\ DOMAIN p = 1..c
      /\ \A n \in DOMAIN p : p[n] \in S /\ Rank(S, p[n]) = n
      /\ \A i \in S : Rank(S, i) \in DOMAIN p /\ p[Rank(S, i)] = i
  BY ParseIs
<1>2. c \in Nat /\ \A i \in S : text[i] \in Field
  BY FieldLinesAre
<1>3. names = [n \in DOMAIN p |-> Key(text[p[n]])]
  BY DEF Names
<1> HIDE DEF S, p, names
<1>4. \A i \in S : Key(text[i]) \in Keys
  BY <1>2 DEF Field, Key, Keys
<1>5. names \in [1..c -> Keys]
  BY <1>1, <1>3, <1>4
<1> HIDE DEF c
<1>6. names \in Seq(Keys) /\ Len(names) = c /\ DOMAIN names = 1..c
  BY <1>2, <1>5
<1>7. \A i \in S : Rank(S, i) \in DOMAIN names /\ names[Rank(S, i)] = Key(text[i])
  BY <1>1, <1>3
<1>8. \A n \in DOMAIN names : \E i \in S : Rank(S, i) = n
  BY <1>1, <1>3
<1>9. QED
  BY <1>6, <1>7, <1>8 DEF S, names, c

LEMMA FieldsMoved ==
  ASSUME NEW t, NEW u, NEW q, Inserted(t, u, q),
         FrontMatter(u) = FrontMatter(t), FrontMatter(t) < q, q \in FieldLines(u)
  PROVE  FieldLines(u) = {Moved(i, q) : i \in FieldLines(t)} \cup {q}
<1>1. t \in Seq(Line)
  BY DEF Inserted
<1>2. \A i \in FieldLines(t) : i \in 1..Len(t)
  BY <1>1, FieldLinesAre
<1>3. /\ \A i \in 1..Len(t) : Moved(i, q) \in FieldLines(u) <=> i \in FieldLines(t)
      /\ \A j \in FieldLines(u) : j = q \/ \E i \in FieldLines(t) : j = Moved(i, q)
  BY FieldsStay
<1>4. QED
  BY <1>2, <1>3

LEMMA NameGoes ==
  ASSUME NEW t, NEW u, NEW q, Inserted(t, u, q),
         FrontMatter(u) = FrontMatter(t), FrontMatter(t) < q, q \in FieldLines(u)
  PROVE  Names(t) = RemoveAt(Names(u), Rank(FieldLines(u), q))
<1> DEFINE S == FieldLines(t)
           T == FieldLines(u)
           n == Rank(T, q)
           a == Names(t)
           b == Names(u)
           r == RemoveAt(b, n)
<1>1. t \in Seq(Line) /\ u \in Seq(Line) /\ q \in Nat
  BY InsertedIs DEF Inserted
<1>2. S \in SUBSET Nat /\ IsFiniteSet(S) /\ Cardinality(S) \in Nat
  BY <1>1, FieldLinesAre
<1>3. T = {Moved(i, q) : i \in S} \cup {q}
  BY FieldsMoved
<1>4. Cardinality(T) = Cardinality(S) + 1
  <2> DEFINE M == {Moved(i, q) : i \in S}
  <2>1. IsFiniteSet(M) /\ Cardinality(M) = Cardinality(S)
    BY <1>1, <1>2, MovedSize
  <2>2. q \notin M
    BY <1>1, <1>2, MovedIs
  <2> HIDE DEF M
  <2>3. Cardinality(M \cup {q}) = Cardinality(M) + 1
    BY <2>1, <2>2, FS_AddElement
  <2>4. QED
    BY <1>3, <2>1, <2>3 DEF M
<1>5. /\ a \in Seq(Keys) /\ DOMAIN a = 1..Cardinality(S) /\ Len(a) = Cardinality(S)
      /\ \A i \in S : a[Rank(S, i)] = Key(t[i])
      /\ \A m \in DOMAIN a : \E i \in S : Rank(S, i) = m
  BY <1>1, NamesAre
<1>6. /\ b \in Seq(Keys) /\ DOMAIN b = 1..Cardinality(T) /\ Len(b) = Cardinality(T)
      /\ \A j \in T : Rank(T, j) \in DOMAIN b /\ b[Rank(T, j)] = Key(u[j])
  BY <1>1, NamesAre
<1>7. ASSUME NEW i \in S PROVE Rank(T, Moved(i, q)) = Moved(Rank(S, i), n)
  BY <1>1, <1>2, <1>3, RankMoved
<1>8. ASSUME NEW i \in S PROVE u[Moved(i, q)] = t[i] /\ Moved(i, q) \in T
  BY <1>1, <1>3, FieldLinesAre, InsertedIs
<1>9. n \in 1..Len(b)
  <2> HIDE DEF S, T, a, b
  <2>1. q \in T
    BY DEF T
  <2>2. QED
    BY <1>6, <2>1
<1> HIDE DEF S, T, a, b, n
<1>10. /\ r \in Seq(Keys) /\ Len(r) = Len(b) - 1
       /\ \A j \in 1..(n - 1) : r[j] = b[j]
       /\ \A j \in n..(Len(b) - 1) : r[j] = b[j + 1]
  BY <1>6, <1>9, RemoveAtIs
<1> HIDE DEF r
<1>11. Len(r) = Cardinality(S)
  BY <1>2, <1>4, <1>6, <1>10
<1>12. ASSUME NEW m \in 1..Cardinality(S) PROVE r[m] = a[m]
  <2>1. PICK i \in S : Rank(S, i) = m
    BY <1>5
  <2>2. a[m] = Key(t[i])
    BY <1>5, <2>1
  <2>3. b[Moved(m, n)] = Key(t[i])
    BY <1>6, <1>7, <1>8, <2>1
  <2>4. m \in Nat /\ n \in Nat /\ Len(b) = Cardinality(S) + 1
    BY <1>2, <1>4, <1>6, <1>9
  <2>5. CASE m < n
    <3>1. m \in 1..(n - 1)
      BY <2>4, <2>5
    <3>2. QED
      BY <1>10, <2>2, <2>3, <2>5, <3>1 DEF Moved
  <2>6. CASE ~ (m < n)
    <3>1. m \in n..(Len(b) - 1)
      BY <1>2, <2>4, <2>6
    <3>2. QED
      BY <1>10, <2>2, <2>3, <2>6, <3>1 DEF Moved
  <2>7. QED
    BY <2>5, <2>6
<1>13. a = r
  BY <1>2, <1>5, <1>10, <1>11, <1>12
<1>14. QED
  BY <1>13 DEF a, r, b, n, T

(* The field that unset takes away is the first with its name.                *)
FirstName(text, c) ==
  CHOOSE m \in DOMAIN Names(text) :
    Names(text)[m] = c /\ \A l \in 1..(m - 1) : Names(text)[l] # c

LEMMA FirstNameIs ==
  ASSUME NEW text \in Seq(Line), NEW c, LineOf(text, c) # 0
  PROVE  FirstName(text, c) = Rank(FieldLines(text), LineOf(text, c))
<1> DEFINE S == FieldLines(text)
           q == LineOf(text, c)
           n == Rank(S, q)
           b == Names(text)
<1>1. q \in S /\ Key(text[q]) = c /\ \A i \in S : Key(text[i]) = c => q <= i
  BY LineOfIs DEF Has
<1>2. S \in SUBSET Nat /\ IsFiniteSet(S) /\ Cardinality(S) \in Nat
  BY FieldLinesAre
<1>3. /\ DOMAIN b = 1..Cardinality(S)
      /\ \A i \in S : Rank(S, i) \in DOMAIN b /\ b[Rank(S, i)] = Key(text[i])
      /\ \A m \in DOMAIN b : \E i \in S : Rank(S, i) = m
  BY NamesAre
<1> HIDE DEF S, q, b
<1>4. n \in DOMAIN b /\ b[n] = c /\ n \in Nat
  BY <1>1, <1>2, <1>3
<1>5. ASSUME NEW l \in 1..(n - 1) PROVE b[l] # c
  <2>1. l \in DOMAIN b /\ l \in Nat /\ l < n
    <3> HIDE DEF n
    <3>1. n \in Nat /\ n <= Cardinality(S)
      BY <1>2, <1>3, <1>4
    <3>2. QED
      BY <1>2, <1>3, <3>1
  <2>2. PICK i \in S : Rank(S, i) = l
    BY <1>3, <2>1
  <2>3. i \in Nat /\ q \in Nat
    BY <1>1, <1>2
  <2>4. ~ (q < i) /\ q # i
    <3>1. ~ (n < l)
      <4> HIDE DEF n
      <4>1. QED
        BY <1>4, <2>1
    <3>2. ~ (q < i)
      BY <1>1, <1>2, <2>2, <3>1, RankIs
    <3>3. n # l
      <4> HIDE DEF n
      <4>1. QED
        BY <1>4, <2>1
    <3>4. QED
      BY <2>2, <3>2, <3>3
  <2>5. ~ (q <= i)
    BY <2>3, <2>4
  <2>6. QED
    BY <1>1, <1>3, <2>2, <2>5
<1> HIDE DEF n
<1>6. ASSUME NEW m \in DOMAIN b, b[m] = c, \A l \in 1..(m - 1) : b[l] # c
      PROVE  m = n
  <2>1. m \in Nat /\ n \in Nat /\ 1 <= m /\ 1 <= n
    BY <1>2, <1>3, <1>4
  <2>2. ~ (m < n) /\ ~ (n < m)
    <3>1. m < n => m \in 1..(n - 1)
      BY <2>1
    <3>2. n < m => n \in 1..(m - 1)
      BY <2>1
    <3>3. QED
      BY <1>4, <1>5, <1>6, <3>1, <3>2
  <2>3. QED
    BY <2>1, <2>2
<1>7. FirstName(text, c)
        = CHOOSE m \in DOMAIN b : b[m] = c /\ \A l \in 1..(m - 1) : b[l] # c
  BY DEF FirstName, b
<1>8. FirstName(text, c) = n
  BY <1>4, <1>5, <1>6, <1>7
<1>9. QED
  BY <1>8 DEF n, S, q

LEMMA NoNames ==
  ASSUME NEW text \in Seq(Line), \A i \in 1..Len(text) : text[i].kind # "field"
  PROVE  Names(text) = <<>>
<1>1. FieldLines(text) = {}
  BY FieldLinesAre
<1>2. Cardinality(FieldLines(text)) = 0
  BY <1>1, FS_EmptySet
<1>3. Names(text) \in Seq(Keys) /\ Len(Names(text)) = 0
  BY <1>2, NamesAre
<1>4. QED
  BY <1>3

LEMMA UnsetStep ==
  ASSUME NEW u \in Text, NEW v, NEW key, Get(u, Canonical[key]) # NoValue, v = Unset(u, key)
  PROVE  \/ FrontMatter(u) = 0 /\ FrontMatter(v) # 0
         \/ Names(v) = RemoveAt(Names(u), FirstName(u, Canonical[key]))
<1> DEFINE c == Canonical[key]
           q == LineOf(u, c)
           t == RemoveAt(u, q)
<1>1. u \in Seq(Line)
  BY DEF Text
<1>2. q # 0
  BY <1>1, GetIs
<1>3. q \in FieldLines(u) /\ q \in 1..Len(u) /\ u[q].kind = "field" /\ FrontMatter(u) < q
  BY <1>1, <1>2, LineOfIs, FieldLinesAre DEF Has
<1>4. FirstName(u, c) = Rank(FieldLines(u), q)
  BY <1>1, <1>2, FirstNameIs
<1>5. v = IF t = <<>> THEN <<[kind |-> "empty"]>> ELSE t
  BY DEF Unset
<1> HIDE DEF q, c
<1>6. Inserted(t, u, q)
  BY <1>1, <1>3, RemoveInserts
<1> HIDE DEF t
<1>7. t \in Seq(Line)
  BY <1>6 DEF Inserted
<1>8. FrontMatter(t) \in 0..Len(t) /\ FrontMatter(u) \in Nat /\ q \in Nat /\ Len(u) = Len(t) + 1
  <2>1. FrontMatter(t) \in 0..Len(t) /\ FrontMatter(u) \in 0..Len(u)
    BY <1>1, <1>7, FrontMatterIs
  <2>2. QED
    BY <1>3, <1>6, <2>1, InsertedIs
<1>9. ASSUME FrontMatter(t) = FrontMatter(u)
      PROVE  Names(t) = RemoveAt(Names(u), FirstName(u, c))
  <2>1. FrontMatter(t) < q
    BY <1>3, <1>9
  <2>2. QED
    BY <1>3, <1>4, <1>6, <1>9, <2>1, NameGoes
<1>10. FrontMatter(u) # 0 => FrontMatter(t) = FrontMatter(u)
  BY <1>3, <1>6, FrontStaysWithout
<1>11. CASE t = <<>>
  <2>1. Len(t) = 0
    BY <1>11
  <2>2. FrontMatter(t) = 0 /\ q = 1
    BY <1>3, <1>8, <2>1
  <2>3. FrontMatter(u) = 0
    BY <1>3, <1>8, <2>2
  <2>4. Names(t) = RemoveAt(Names(u), FirstName(u, c))
    BY <1>9, <2>2, <2>3
  <2>5. Names(t) = <<>>
    <3>1. \A i \in 1..Len(t) : t[i].kind # "field"
      BY <2>1
    <3>2. QED
      BY <1>7, <3>1, NoNames
  <2>6. Names(v) = <<>>
    <3> DEFINE e == [kind |-> "empty"]
    <3>1. e \in Line /\ e.kind # "field"
      BY EmptyIsLine
    <3>2. v = <<e>>
      BY <1>5, <1>11
    <3> HIDE DEF e
    <3>3. v \in Seq(Line) /\ \A i \in 1..Len(v) : v[i].kind # "field"
      BY <3>1, <3>2
    <3>4. QED
      BY <3>3, NoNames
  <2>7. QED
    BY <2>4, <2>5, <2>6 DEF c
<1>12. CASE t # <<>>
  <2>1. v = t
    BY <1>5, <1>12
  <2>2. CASE FrontMatter(u) # 0
    BY <1>9, <1>10, <2>1, <2>2 DEF c
  <2>3. CASE FrontMatter(u) = 0
    BY <1>9, <2>1, <2>3 DEF c
  <2>4. QED
    BY <2>2, <2>3
<1>13. QED
  BY <1>11, <1>12

-----------------------------------------------------------------------------
(* The theorems. *)

(* A note always has a line, and its lines are lines, whatever set, unset and *)
(* the editor do to it (NoteBody's TypeOK).                                   *)
THEOREM TypeCorrect == Spec => []TypeOK
<1>1. body \in Text => TypeOK
  BY DEF Text, TypeOK
<1>2. QED
  BY <1>1, Invariance, PTL

(* A note of any length that the user saves as the editor shows it is the     *)
(* same note, unless it began with an empty line (EditorKeepsText).           *)
THEOREM EditorIsFaithful == Spec => []EditorKeepsText
<1>1. body \in Text => EditorKeepsText
  BY BackFromEditor DEF EditorKeepsText
<1>2. QED
  BY <1>1, Invariance, PTL

(* What set wrote is found under its key, in a text of any length, unless the *)
(* title it was put after is in a code fence (SetIsFound).                    *)
THEOREM SetFields == Spec => SetIsFound
<1> DEFINE P == \A key \in Spellings, value \in Values : SetField(key, value) =>
                  (Get(body', Canonical[key]) = value <=> ~ TitleIsFenced(body))
<1>1. body \in Text /\ [Next]_body => [P]_body
  BY SetStep DEF SetField
<1>2. SetIsFound <=> [][P]_body
  BY DEF SetIsFound
<1> HIDE DEF P
<1>3. QED
  BY <1>1, <1>2, Invariance, PTL DEF Spec

(* set changes the value of the field it is given or adds one line, whatever  *)
(* else the text holds, and no other field reads differently                  *)
(* (SetKeepsTheRest).                                                         *)
THEOREM SetChangesOneField == Spec => SetKeepsTheRest
<1> DEFINE P == \A key \in Spellings, value \in Values : SetField(key, value) =>
                  /\ \A other \in Keys \ {Canonical[key]} : Get(body', other) = Get(body, other)
                  /\ \E i \in DOMAIN body' :
                       \/ body = RemoveAt(body', i)
                       \/ /\ Len(body') = Len(body) /\ i = LineOf(body, Canonical[key])
                          /\ body' = [body EXCEPT ![i].value = value]
<1>1. body \in Text /\ [Next]_body => [P]_body
  <2>1. ASSUME body \in Text, NEW key \in Spellings, NEW value \in Values, SetField(key, value)
        PROVE  /\ \A other \in Keys \ {Canonical[key]} : Get(body', other) = Get(body, other)
               /\ \E i \in DOMAIN body' :
                    \/ body = RemoveAt(body', i)
                    \/ /\ Len(body') = Len(body) /\ i = LineOf(body, Canonical[key])
                       /\ body' = [body EXCEPT ![i].value = value]
    <3>1. body' = Set(body, key, value)
      BY <2>1 DEF SetField
    <3>2. QED
      BY <2>1, <3>1, SetStep
  <2>2. QED
    BY <2>1
<1>2. SetKeepsTheRest <=> [][P]_body
  BY DEF SetKeepsTheRest
<1> HIDE DEF P
<1>3. QED
  BY <1>1, <1>2, Invariance, PTL DEF Spec

(* unset takes the first field of that name away and the names of the others  *)
(* stay, in their order, unless a --- block comes first without it            *)
(* (UnsetTakesOneField).                                                      *)
THEOREM UnsetTakesOne == Spec => UnsetTakesOneField
<1> DEFINE P == \A key \in Spellings : UnsetField(key) =>
                  \/ FrontMatter(body) = 0 /\ FrontMatter(body') # 0
                  \/ LET n == CHOOSE m \in DOMAIN Names(body) :
                                  /\ Names(body)[m] = Canonical[key]
                                  /\ \A l \in 1..(m - 1) : Names(body)[l] # Canonical[key]
                     IN Names(body') = RemoveAt(Names(body), n)
<1>1. body \in Text /\ [Next]_body => [P]_body
  <2>1. ASSUME body \in Text, NEW key \in Spellings, UnsetField(key)
        PROVE  \/ FrontMatter(body) = 0 /\ FrontMatter(body') # 0
               \/ Names(body') = RemoveAt(Names(body), FirstName(body, Canonical[key]))
    <3>1. Get(body, Canonical[key]) # NoValue /\ body' = Unset(body, key)
      BY <2>1 DEF UnsetField
    <3>2. QED
      BY <2>1, <3>1, UnsetStep
  <2>2. QED
    BY <2>1 DEF FirstName
<1>2. UnsetTakesOneField <=> [][P]_body
  BY DEF UnsetTakesOneField
<1> HIDE DEF P
<1>3. QED
  BY <1>1, <1>2, Invariance, PTL DEF Spec
=============================================================================
