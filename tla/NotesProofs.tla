----------------------------- MODULE NotesProofs -----------------------------
(* ReplSession implements NotesSpec: each command is one step on the texts,   *)
(* whatever names they have.                                                  *)
EXTENDS ReplSessionProofs

-----------------------------------------------------------------------------
(* The texts of maps. *)

LEMMA TextsWith ==
  ASSUME NEW f, NEW x, NEW y
  PROVE  TextsOf(With(f, x, y))
           \in {TextsOf(f) \cup {y}} \cup {(TextsOf(f) \ {old}) \cup {y} : old \in TextsOf(f)}
<1> DEFINE g == With(f, x, y)
<1>1. \A t : t \in TextsOf(g) <=> t = y \/ \E n \in DOMAIN f \ {x} : f[n] = t
  BY DEF TextsOf, With
<1>2. \A t : t \in TextsOf(f) <=> \E n \in DOMAIN f : f[n] = t
  BY DEF TextsOf
<1> HIDE DEF g
<1>3. CASE x \notin DOMAIN f \/ \E n \in DOMAIN f \ {x} : f[n] = f[x]
  <2>1. TextsOf(g) = TextsOf(f) \cup {y}
    BY <1>1, <1>2, <1>3
  <2>2. QED
    BY <2>1 DEF g
<1>4. CASE x \in DOMAIN f /\ \A n \in DOMAIN f \ {x} : f[n] # f[x]
  <2>1. TextsOf(g) = (TextsOf(f) \ {f[x]}) \cup {y}
    BY <1>1, <1>2, <1>4
  <2>2. f[x] \in TextsOf(f)
    BY <1>2, <1>4
  <2>3. QED
    BY <2>1, <2>2 DEF g
<1>5. QED
  BY <1>3, <1>4

LEMMA TextsWithNew ==
  ASSUME NEW f, NEW x, NEW y, x \notin DOMAIN f
  PROVE  /\ TextsOf(With(f, x, y)) = TextsOf(f) \cup {y}
         /\ TrashTextsOf(With(f, x, y)) = TrashTextsOf(f) \cup {y.body}
BY DEF TextsOf, TrashTextsOf, With

LEMMA TextsWithout ==
  ASSUME NEW f, NEW x \in DOMAIN f
  PROVE  /\ TextsOf(Restrict(f, DOMAIN f \ {x})) \in {TextsOf(f), TextsOf(f) \ {f[x]}}
         /\ TrashTextsOf(Restrict(f, DOMAIN f \ {x}))
              \in {TrashTextsOf(f), TrashTextsOf(f) \ {f[x].body}}
<1> DEFINE g == Restrict(f, DOMAIN f \ {x})
<1>1. /\ \A t : t \in TextsOf(g) <=> \E n \in DOMAIN f \ {x} : f[n] = t
      /\ \A t : t \in TextsOf(f) <=> \E n \in DOMAIN f : f[n] = t
  BY RestrictIs DEF TextsOf
<1>2. /\ \A t : t \in TrashTextsOf(g) <=> \E n \in DOMAIN f \ {x} : f[n].body = t
      /\ \A t : t \in TrashTextsOf(f) <=> \E n \in DOMAIN f : f[n].body = t
  BY RestrictIs DEF TrashTextsOf
<1> HIDE DEF g
<1>3. TextsOf(g) = TextsOf(f) \/ TextsOf(g) = TextsOf(f) \ {f[x]}
  <2>1. CASE \E n \in DOMAIN f \ {x} : f[n] = f[x]
    BY <1>1, <2>1
  <2>2. CASE \A n \in DOMAIN f \ {x} : f[n] # f[x]
    BY <1>1, <2>2
  <2>3. QED
    BY <2>1, <2>2
<1>4. TrashTextsOf(g) = TrashTextsOf(f) \/ TrashTextsOf(g) = TrashTextsOf(f) \ {f[x].body}
  <2>1. CASE \E n \in DOMAIN f \ {x} : f[n].body = f[x].body
    BY <1>2, <2>1
  <2>2. CASE \A n \in DOMAIN f \ {x} : f[n].body # f[x].body
    BY <1>2, <2>2
  <2>3. QED
    BY <2>1, <2>2
<1>5. QED
  BY <1>3, <1>4 DEF g

LEMMA TextsMerged ==
  ASSUME NEW dst, NEW src, NEW target \in MergeTargets(dst, src)
  PROVE  TextsOf(Merged(dst, src, target)) = TextsOf(dst) \cup TextsOf(src)
<1> DEFINE all == Merged(dst, src, target)
<1>1. DOMAIN all = DOMAIN dst \cup Range(target)
  BY MergedHas
<1>2. DOMAIN target = DOMAIN src
  BY TargetsAreApart
<1>3. ASSUME NEW n \in DOMAIN dst PROVE all[n] = dst[n]
  BY MergedKeepsOwn
<1>4. ASSUME NEW n \in DOMAIN src PROVE all[target[n]] = src[n]
  BY MergedBrings
<1> HIDE DEF all
<1>5. \A n \in DOMAIN src : target[n] \in DOMAIN all
  BY <1>1, <1>2 DEF Range
<1>6. \A m \in DOMAIN all : m \in DOMAIN dst \/ \E n \in DOMAIN src : m = target[n]
  BY <1>1, <1>2 DEF Range
<1>7. \A n \in DOMAIN dst : n \in DOMAIN all
  BY <1>1
<1>8. ASSUME NEW t
      PROVE  (\E m \in DOMAIN all : all[m] = t)
               <=> (\E n \in DOMAIN dst : dst[n] = t) \/ (\E n \in DOMAIN src : src[n] = t)
  BY <1>3, <1>4, <1>5, <1>6, <1>7
<1>9. TextsOf(all) = TextsOf(dst) \cup TextsOf(src)
  BY <1>8 DEF TextsOf
<1>10. QED
  BY <1>9 DEF all

(* What a save keeps of the texts: all, unless two names are spelled alike.   *)
Clash(f) == \E n, m \in DOMAIN f : n # m /\ Encoded(n) = Encoded(m)

LEMMA TextsSpelled ==
  ASSUME NEW f, AreNotes(f)
  PROVE  /\ TextsOf(Spelled(f)) \subseteq TextsOf(f)
         /\ TextsOf(Spelled(f)) = TextsOf(f) \/ Clash(f)
<1> DEFINE g == Spelled(f)
<1>1. \A m \in DOMAIN g : \E n \in DOMAIN f : g[m] = f[n]
  BY SpelledIs
<1>2. ASSUME ~ Clash(f), NEW n \in DOMAIN f
      PROVE  Encoded(n) \in DOMAIN g /\ g[Encoded(n)] = f[n]
  BY <1>2, SpelledIs DEF Clash
<1> HIDE DEF g
<1>3. TextsOf(g) \subseteq TextsOf(f)
  BY <1>1 DEF TextsOf
<1>4. ~ Clash(f) => TextsOf(f) \subseteq TextsOf(g)
  BY <1>2 DEF TextsOf
<1>5. QED
  BY <1>3, <1>4 DEF g

LEMMA TextsTyped ==
  ASSUME NEW f
  PROVE  /\ AreNotes(f) => TextsOf(f) \subseteq Bodies
         /\ AreTrashed(f) => TrashTextsOf(f) \subseteq Bodies
BY DEF AreNotes, AreTrashed, TrashedNote, TextsOf, TrashTextsOf

LEMMA NoTexts == TextsOf(<<>>) = {} /\ TrashTextsOf(<<>>) = {}
BY EmptyMap DEF TextsOf, TrashTextsOf

-----------------------------------------------------------------------------
(* Steps. *)

LEMMA SaveMaps == ASSUME Saves PROVE NS!Save
<1>1. file' = file /\ AreNotes(notes')
  BY DEF Saves
<1>2. (\E n, m \in DOMAIN notes : n # m /\ Encoded(n) = Encoded(m))' \in BOOLEAN
  OBVIOUS
<1>3. CASE disk' = disk /\ warned' = TRUE
  BY <1>1, <1>2, <1>3 DEF NS!Save
<1>4. CASE disk' = ToJSON(Payload') /\ warned' = FALSE
  <2>0. disk' = [notes |-> Spelled(notes'), trash |-> trash',
                 recent |-> recent', template |-> template']
    BY <1>4, ToJSONIs DEF Payload
  <2>1. disk'.notes = Spelled(notes') /\ disk'.trash = trash'
    BY <2>0
  <2>2. /\ TextsOf(disk'.notes) \subseteq TextsOf(notes')
        /\ \/ TextsOf(disk'.notes) = TextsOf(notes')
           \/ (\E n, m \in DOMAIN notes : n # m /\ Encoded(n) = Encoded(m))'
    BY <1>1, <2>1, TextsSpelled DEF Clash
  <2>3. QED
    BY <1>1, <1>2, <1>4, <2>1, <2>2 DEF NS!Save
<1>5. QED
  BY <1>3, <1>4 DEF Saves, persist

LEMMA WriteMaps == ASSUME IInv, note \/ set \/ unset PROVE NS!Next
<1>0. \E name, body : body \in Bodies /\ Put(name, body) /\ trash' = trash
  BY DEF note, set, unset, rewrite
<1>1. PICK name, body : body \in Bodies /\ Put(name, body) /\ trash' = trash
  BY <1>0
<1>2. NS!Save
  BY NoteSaves, ContextSaves, SaveMaps DEF IInv
<1>3. TextsOf(notes') \in {TextsOf(notes) \cup {body}}
         \cup {(TextsOf(notes) \ {old}) \cup {body} : old \in TextsOf(notes)}
  BY <1>1, TextsWith DEF Put
<1>4. NS!Write(body)
  BY <1>1, <1>2, <1>3 DEF NS!Write
<1>5. QED
  BY <1>1, <1>4 DEF NS!Next

LEMMA TrashMaps == ASSUME IInv, rm PROVE NS!Next
<1>1. PICK name, key :
        /\ Found(name) /\ TrashNote(LowerCase(name), key)
        /\ key \notin DOMAIN trash
  BY DEF rm, FreshTrashKey
<1> DEFINE canon == LowerCase(name)
           text == notes[canon]
<1>2. NS!Save
  BY RmSaves, SaveMaps DEF IInv
<1>3. canon \in DOMAIN notes /\ text \in Bodies
  BY <1>1 DEF Found, IInv, Typing, AreNotes
<1>4. text \in TextsOf(notes)
  BY <1>3 DEF TextsOf
<1>5. TrashTextsOf(trash') = TrashTextsOf(trash) \cup {text}
  BY <1>1, TextsWithNew DEF TrashNote
<1>6. TextsOf(notes') \in {TextsOf(notes), TextsOf(notes) \ {text}}
  BY <1>1, <1>3, TextsWithout DEF TrashNote
<1> HIDE DEF text
<1>7. NS!Trash(text)
  BY <1>2, <1>4, <1>5, <1>6 DEF NS!Trash
<1>8. QED
  BY <1>3, <1>7 DEF NS!Next

LEMMA RestoreMaps == ASSUME IInv, restore PROVE NS!Next
<1>1. PICK key \in DOMAIN trash : Restore(key)
  BY DEF restore
<1> DEFINE text == trash[key].body
<1>2. NS!Save
  BY TrashSaves, SaveMaps DEF IInv
<1>3. text \in Bodies
  BY DEF IInv, Typing, AreTrashed, TrashedNote
<1>4. text \in TrashTextsOf(trash)
  BY DEF TrashTextsOf
<1>5. TextsOf(notes') = TextsOf(notes) \cup {text}
  BY <1>1, TextsWithNew DEF Restore
<1>6. TrashTextsOf(trash') \in {TrashTextsOf(trash), TrashTextsOf(trash) \ {text}}
  BY <1>1, TextsWithout DEF Restore
<1> HIDE DEF text
<1>7. NS!Restore(text)
  BY <1>2, <1>4, <1>5, <1>6 DEF NS!Restore
<1>8. QED
  BY <1>3, <1>7 DEF NS!Next

LEMMA PurgeMaps == ASSUME IInv, purge \/ purgeAll PROVE NS!Next
<1>1. NS!Save
  BY TrashSaves, SaveMaps DEF IInv
<1>2. CASE purge
  <2>1. PICK key \in DOMAIN trash :
          trash' = Restrict(trash, DOMAIN trash \ {key}) /\ notes' = notes
    BY <1>2 DEF purge
  <2> DEFINE text == trash[key].body
  <2>2. text \in Bodies
    BY DEF IInv, Typing, AreTrashed, TrashedNote
  <2>3. text \in TrashTextsOf(trash)
    BY DEF TrashTextsOf
  <2>4. TrashTextsOf(trash') \in {TrashTextsOf(trash), TrashTextsOf(trash) \ {text}}
    BY <2>1, TextsWithout
  <2> HIDE DEF text
  <2>5. NS!Purge(text)
    BY <1>1, <2>1, <2>3, <2>4 DEF NS!Purge
  <2>6. QED
    BY <2>2, <2>5 DEF NS!Next
<1>3. CASE purgeAll
  <2>1. NS!PurgeAll
    BY <1>1, <1>3, NoTexts DEF purgeAll, NS!PurgeAll
  <2>2. QED
    BY <2>1 DEF NS!Next
<1>4. QED
  BY <1>2, <1>3

LEMMA ImportMaps == ASSUME IInv, importMerge \/ importBundle \/ importReplace PROVE NS!Next
<1>1. NS!Save
  BY ImportSaves, SaveMaps DEF IInv
<1>2. CASE importMerge \/ importBundle
  <2>1. PICK target \in MergeTargets(notes, file.notes) :
          notes' = Merged(notes, file.notes, target) /\ trash' = trash
    BY <1>2 DEF importMerge, importBundle, mergeNotes
  <2>2. TextsOf(notes') = TextsOf(notes) \cup TextsOf(file.notes)
    BY <2>1, TextsMerged
  <2>3. NS!Import
    BY <1>1, <2>1, <2>2 DEF NS!Import
  <2>4. QED
    BY <2>3 DEF NS!Next
<1>3. CASE importReplace
  <2>1. NS!Replace
    BY <1>1, <1>3 DEF importReplace, NS!Replace
  <2>2. QED
    BY <2>1 DEF NS!Next
<1>4. QED
  BY <1>2, <1>3

LEMMA TouchMaps ==
  ASSUME IInv, cd \/ show \/ cp \/ templateEdit \/ templateReset PROVE NS!Next
<1>1. NS!Save
  BY ContextSaves, SaveMaps DEF IInv
<1>2. notes' = notes /\ trash' = trash
  BY DEF cd, show, cp, visit, templateEdit, templateReset
<1>3. NS!Touch
  BY <1>1, <1>2 DEF NS!Touch
<1>4. QED
  BY <1>3 DEF NS!Next

LEMMA ExportMaps == ASSUME IInv, export \/ bundle PROVE NS!Next
<1>1. UNCHANGED <<notes, trash, disk, warned>>
  BY DEF export, bundle, payload
<1>2. PICK S \in SUBSET TextsOf(notes), B \in {TrashTextsOf(trash), {}} :
        TextsOf(file'.notes) = S /\ TrashTextsOf(file'.trash) = B
  <2>1. CASE export
    <3>1. file'.notes = Spelled(notes) /\ file'.trash = trash
      BY <2>1 DEF export
    <3>2. QED
      BY <3>1, TextsSpelled DEF IInv, Typing
  <2>2. CASE bundle
    <3>1. PICK chosen \in SUBSET DOMAIN notes :
            file'.notes = Restrict(notes, chosen) /\ file'.trash = <<>>
      BY <2>2 DEF bundle
    <3>2. TextsOf(Restrict(notes, chosen)) \subseteq TextsOf(notes)
      BY RestrictIs DEF TextsOf
    <3>3. QED
      BY <3>1, <3>2, NoTexts
  <2>3. QED
    BY <2>1, <2>2
<1>3. NS!Export
  BY <1>1, <1>2 DEF NS!Export
<1>4. QED
  BY <1>3 DEF NS!Next

LEMMA ReopenMaps == ASSUME IInv, reopen PROVE NS!Next
<1>1. ~ (\E n, m \in DOMAIN notes : n # m /\ Encoded(n) = Encoded(m))'
  BY DEF reopen, IInv, SpelledOnDisk
<1>2. NS!Reopen
  BY <1>1 DEF reopen, NS!Reopen
<1>3. QED
  BY <1>2 DEF NS!Next

LEMMA OthersStutter ==
  ASSUME find \/ recents \/ cdRoot \/ vanished \/ UNCHANGED vars
  PROVE  UNCHANGED NS!vars
<1>1. UNCHANGED <<notes, trash, disk, warned, file>>
  BY DEF find, recents, cdRoot, vanished, payload, vars
<1>2. QED
  BY <1>1 DEF NS!vars

LEMMA InitMaps == Init => NS!Init
<1> SUFFICES ASSUME Init PROVE NS!Init
  OBVIOUS
<1>1. /\ notes = <<>> /\ trash = <<>> /\ disk.notes = <<>> /\ disk.trash = <<>>
      /\ warned = FALSE
  BY DEF Init, Payload
<1>2. TextsOf(file.notes) \in SUBSET Bodies /\ TrashTextsOf(file.trash) \in SUBSET Bodies
  BY Initially, TextsTyped DEF IInv, Typing
<1>3. (\E n, m \in DOMAIN notes : n # m /\ Encoded(n) = Encoded(m)) = FALSE
  BY <1>1, EmptyMap
<1>4. QED
  BY <1>1, <1>2, <1>3, NoTexts DEF NS!Init

LEMMA StepMaps == IInv /\ [Next]_vars => [NS!Next]_(NS!vars)
<1> SUFFICES ASSUME IInv, [Next]_vars PROVE NS!Next \/ UNCHANGED NS!vars
  OBVIOUS
<1>1. QED
  BY WriteMaps, TrashMaps, RestoreMaps, PurgeMaps, ImportMaps, TouchMaps, ExportMaps,
     ReopenMaps, OthersStutter DEF Next

(* Whatever the names of the notes, and however imports rename them, a session *)
(* keeps the promise of NotesSpec about their texts.                          *)
THEOREM Refinement == Spec => ImplementsNotes
<1>1. Spec => NS!Init /\ [][NS!Next]_(NS!vars)
  BY InitMaps, StepMaps, Invariance, PTL DEF Spec
<1>2. QED
  BY <1>1 DEF ImplementsNotes, NS!Spec
=============================================================================
