----------------------------- MODULE ReplSession -----------------------------
(* A REPL session on the notes of a vault: the commands of                    *)
(* src/internal/repl/repl.go that change the notes, the trash, the recent     *)
(* list, the template, the current note or the numbered selection, with the   *)
(* operations of src/internal/store they call and the save that ends them.    *)
(*                                                                            *)
(* One action is one command as it takes effect. A command that prints        *)
(* (ls, trash, fields, template show, help, pwd), is cancelled, or is refused *)
(* changes nothing and is a stuttering step. The saved file is the payload    *)
(* of the last save that worked: how it is written is VaultFile's matter.     *)
(* Times are left out but for the second in a trash key.                      *)
EXTENDS NoteNames, Order, SequencesExt

CONSTANTS
    Bodies,       \* the texts a note can have
    NoText,       \* the template "", which stands for the built-in one
    Templates,    \* the templates the user writes
    Typed,        \* the names the user types, not yet normalised
    Seconds,      \* the seconds in which notes are trashed
    RecentMax,    \* 20: length of the recent list
    Sources,      \* the files for an import at hand when the session starts
    MaxMatches,   \* bound: notes a query of find matches
    MaxTexts,     \* bound: notes and trash entries together
    MaxSaves      \* bound: commands that save, over all the sessions

ASSUME BodiesAssumption == NoText \notin Bodies /\ Templates \subseteq Bodies
ASSUME BoundsAssumption ==
    {RecentMax, MaxMatches, MaxTexts, MaxSaves} \subseteq Nat /\ RecentMax > 0
ASSUME TypedAssumption == Typed \subseteq Name
\* The number of a "-N" tail, taken as one byte, is no other byte.
ASSUME TailsAssumption ==
    \A i \in 2..(MaxTexts + 1) : <<i>> \in NameRunes /\ i \notin DOMAIN Lower \cup {Slash}

VARIABLES
    notes, trash, recent, template,   \* the DecryptedVault in memory
    currentNote,     \* the note the user is in, <<>> at the root
    lastSelection,   \* the names numbered by the last find or recent
    disk,            \* the payload in the vault file
    warned,          \* the last save failed and the command said so
    saves,           \* how many commands have saved
    file             \* the export or bundle at hand

payload == <<notes, trash, recent, template>>
vars == <<payload, currentNote, lastSelection, disk, warned, saves, file>>

-----------------------------------------------------------------------------
(* Types. A partial function is used where Go has a map. *)

IsNotes(f) ==
    /\ f = [n \in DOMAIN f |-> f[n]]
    /\ DOMAIN f \subseteq Name /\ IsFiniteSet(DOMAIN f)
    /\ \A n \in DOMAIN f : f[n] \in Bodies

TrashKey == [of : Name, at : Seconds, n : Nat \ {0}]
TrashedNote == [original : Name, body : Bodies]

IsTrash(f) ==
    /\ f = [k \in DOMAIN f |-> f[k]]
    /\ DOMAIN f \subseteq TrashKey /\ IsFiniteSet(DOMAIN f)
    /\ \A k \in DOMAIN f : f[k] \in TrashedNote

IsPayload(p) ==
    /\ p = [notes |-> p.notes, trash |-> p.trash, recent |-> p.recent, template |-> p.template]
    /\ IsNotes(p.notes) /\ IsTrash(p.trash)
    /\ p.recent \in Seq(Name)
    /\ p.template \in Bodies \cup {NoText}

IsFile(f) ==
    /\ f = [kind |-> f.kind, notes |-> f.notes, trash |-> f.trash,
            recent |-> f.recent, template |-> f.template]
    /\ f.kind \in {"json", "bundle"}
    /\ IsNotes(f.notes) /\ IsTrash(f.trash) /\ f.recent \in Seq(Name)
    /\ f.template \in Bodies \cup {NoText}

\* What a session of kpot exports when no import has cut a name.
IsExport(f) ==
    /\ IsFile(f)
    /\ \A n \in DOMAIN f.notes : Canonical(n)
    /\ \A k \in DOMAIN f.trash : k.of = f.trash[k].original /\ Canonical(k.of)
    /\ IsInjective(f.recent) /\ Range(f.recent) \subseteq DOMAIN f.notes
    /\ Len(f.recent) <= RecentMax

ASSUME SourcesAssumption == \A f \in Sources : IsExport(f)

Payload == [notes |-> notes, trash |-> trash, recent |-> recent, template |-> template]

-----------------------------------------------------------------------------
(* Operations of the store. *)

\* The notes as JSON gives them back: of the names it spells alike, one wins.
Spelled(f) ==
    [m \in {Encoded(n) : n \in DOMAIN f} |-> f[CHOOSE n \in DOMAIN f : Encoded(n) = m]]

\* ToJSON then FromJSON: of the other names, none has a byte outside a rune.
ToJSON(p) == [p EXCEPT !.notes = Spelled(@)]

\* Get: the lookup normalises the name it is given.
Found(name) == Acceptable(LowerCase(name)) /\ LowerCase(name) \in DOMAIN notes

\* v.Notes[x] = y, and v.Trash[x] = y
With(f, x, y) == [z \in DOMAIN f \cup {x} |-> IF z = x THEN y ELSE f[z]]

Put(name, body) == notes' = With(notes, LowerCase(name), body)

TrackRecent(name) ==
    LET canon == LowerCase(name)
        list == <<canon>> \o RemoveFirst(recent, canon)
    IN recent' = SubSeq(list, 1, IF Len(list) <= RecentMax THEN Len(list) ELSE RecentMax)

\* the names of a list that are in the map f, in the order of the list
Live(list, f) ==
    LET kept == {i \in DOMAIN list : list[i] \in DOMAIN f}
    IN [n \in 1..Cardinality(kept) |-> list[Nth(kept, n)]]

ListRecent == Live(recent, notes)

\* Mutant: the same key for every removal of a second.
AnyTrashKey(canon, second, k) == k = [of |-> canon, at |-> second, n |-> 1]

\* TrashNote: <name>.deleted-<second>, then -2, -3, ... until a free one.
FreshTrashKey(canon, second, k) ==
    /\ k \in [of : {canon}, at : {second}, n : 1..(Cardinality(DOMAIN trash) + 1)]
    /\ k \notin DOMAIN trash
    /\ \A i \in 1..(k.n - 1) : [k EXCEPT !.n = i] \in DOMAIN trash

\* Mutant: the recent list is not pruned.
TrashNoteUnpruned(canon, key) ==
    /\ trash' = With(trash, key, [original |-> canon, body |-> notes[canon]])
    /\ notes' = Restrict(notes, DOMAIN notes \ {canon})
    /\ UNCHANGED recent

TrashNote(canon, key) ==
    /\ trash' = With(trash, key, [original |-> canon, body |-> notes[canon]])
    /\ notes' = Restrict(notes, DOMAIN notes \ {canon})
    /\ recent' = Live(recent, notes')

\* Mutants: the note restored overwrites a live one, or is put back with what
\* only the trash knows of it.
RestoreOver(key) ==
    /\ notes' = With(notes, trash[key].original, trash[key].body)
    /\ trash' = Restrict(trash, DOMAIN trash \ {key})
RestoreEntry(key) ==
    /\ trash[key].original \notin DOMAIN notes
    /\ notes' = With(notes, trash[key].original, trash[key])
    /\ trash' = Restrict(trash, DOMAIN trash \ {key})

\* Restore: refused while a live note has the name.
Restore(key) ==
    /\ trash[key].original \notin DOMAIN notes
    /\ notes' = With(notes, trash[key].original, trash[key].body)
    /\ trash' = Restrict(trash, DOMAIN trash \ {key})

-----------------------------------------------------------------------------
(* Helpers of the session. *)

\* persist: every command that changed the vault in memory ends with it.
persist ==
    /\ saves < MaxSaves /\ saves' = saves + 1
    /\ \/ disk' = ToJSON(Payload') /\ warned' = FALSE
       \/ disk' = disk /\ warned' = TRUE

\* resolveByNumberOrName: what an argument can stand for. A number picks from
\* the selection as it is, a name is normalised.
Resolved ==
    {LowerCase(raw) : raw \in {t \in Typed : Acceptable(LowerCase(t))}}
        \cup {lastSelection[i] : i \in DOMAIN lastSelection}

setSelection(names) == lastSelection' = names

\* bound: n more texts fit
Room(n) == Cardinality(DOMAIN notes) + Cardinality(DOMAIN trash) + n <= MaxTexts

-----------------------------------------------------------------------------
(* Commands. *)

\* note <name>: the editor returned a text to keep; the starter of a new note,
\* saved as it was, is not kept.
note ==
    \E name \in {LowerCase(raw) : raw \in Typed}, body \in Bodies :
        /\ Acceptable(name)
        /\ name \in DOMAIN notes \/ (Room(1) /\ body # template)
        /\ Put(name, body)
        /\ UNCHANGED <<trash, recent, template, currentNote, lastSelection, file>>
        /\ persist

\* Mutant: the current note is kept when it is removed.
rmKeepsContext ==
    \E name \in Resolved, second \in Seconds :
        /\ Found(name)
        /\ \E key \in [of : {LowerCase(name)}, at : {second}, n : 1..(MaxTexts + 1)] :
             /\ FreshTrashKey(LowerCase(name), second, key)
             /\ TrashNote(LowerCase(name), key)
        /\ UNCHANGED <<template, currentNote, lastSelection, file>>
        /\ persist

\* rm <name|N>, confirmed.
rm ==
    \E name \in Resolved, second \in Seconds :
        /\ Found(name)
        /\ \E key \in [of : {LowerCase(name)}, at : {second}, n : 1..(MaxTexts + 1)] :
             /\ FreshTrashKey(LowerCase(name), second, key)
             /\ TrashNote(LowerCase(name), key)
        /\ currentNote' = IF currentNote = name THEN <<>> ELSE currentNote
        /\ UNCHANGED <<template, lastSelection, file>>
        /\ persist

\* Mutant: the note restored is not saved.
restoreUnsaved ==
    \E key \in DOMAIN trash :
        /\ Restore(key)
        /\ UNCHANGED <<recent, template, currentNote, lastSelection, disk, warned, saves, file>>

\* restore <trash-name>
restore ==
    \E key \in DOMAIN trash :
        /\ Restore(key)
        /\ UNCHANGED <<recent, template, currentNote, lastSelection, file>>
        /\ persist

\* purge <trash-name>, confirmed.
purge ==
    \E key \in DOMAIN trash :
        /\ trash' = Restrict(trash, DOMAIN trash \ {key})
        /\ UNCHANGED <<notes, recent, template, currentNote, lastSelection, file>>
        /\ persist

\* purge --all, with PURGE typed.
purgeAll ==
    /\ trash # <<>>
    /\ trash' = <<>>
    /\ UNCHANGED <<notes, recent, template, currentNote, lastSelection, file>>
    /\ persist

\* find <query>: the notes that match, sorted by name.
find ==
    /\ \E matches \in {M \in SUBSET DOMAIN notes : Cardinality(M) <= MaxMatches} :
         \E list \in [1..Cardinality(matches) -> matches] :
            /\ \A i, j \in DOMAIN list : i < j => Before(list[i], list[j])
            /\ setSelection(list)
    /\ UNCHANGED <<payload, currentNote, disk, warned, saves, file>>

\* recent: most recent first.
recents ==
    /\ setSelection(ListRecent)
    /\ UNCHANGED <<payload, currentNote, disk, warned, saves, file>>

\* cd .. and cd /
cdRoot ==
    /\ currentNote # <<>> /\ currentNote' = <<>>
    /\ UNCHANGED <<payload, lastSelection, disk, warned, saves, file>>

\* cd <note|N>
cd ==
    \E name \in Resolved :
        /\ Found(name)
        /\ currentNote' = name
        /\ TrackRecent(name)
        /\ UNCHANGED <<notes, trash, template, lastSelection, file>>
        /\ persist

\* A note that is found becomes the most recent one.
visit ==
    \E name \in Resolved :
        /\ Found(name)
        /\ TrackRecent(name)
        /\ UNCHANGED <<notes, trash, template, currentNote, lastSelection, file>>
        /\ persist

\* show and cp with a note, or with a note and one of its fields.
show == visit
cp == visit

\* show, cp, fields, set or unset find the current note gone.
vanished ==
    /\ currentNote # <<>> /\ ~ Found(currentNote)
    /\ currentNote' = <<>>
    /\ UNCHANGED <<payload, lastSelection, disk, warned, saves, file>>

\* The text of the current note changes: which texts set and unset lead to is
\* NoteBody's matter.
rewrite ==
    \E body \in Bodies :
        /\ currentNote # <<>> /\ Found(currentNote)
        /\ Put(currentNote, body)
        /\ UNCHANGED <<trash, recent, template, currentNote, lastSelection, file>>
        /\ persist

set == rewrite
unset == rewrite

\* template, with an edited text, and template reset.
templateEdit ==
    \E text \in Templates \ {template} :
        /\ template' = text
        /\ UNCHANGED <<notes, trash, recent, currentNote, lastSelection, file>>
        /\ persist

templateReset ==
    /\ template # NoText /\ template' = NoText
    /\ UNCHANGED <<notes, trash, recent, currentNote, lastSelection, file>>
    /\ persist

\* export -o <path>: the whole payload, in the clear.
export ==
    /\ file' = [kind |-> "json", notes |-> Spelled(notes), trash |-> trash,
                recent |-> recent, template |-> template]
    /\ UNCHANGED <<payload, currentNote, lastSelection, disk, warned, saves>>

\* bundle <name>... -o <path>: some notes, found under their normalised names.
bundle ==
    \E chosen \in SUBSET {n \in DOMAIN notes : Canonical(n)} :
        /\ chosen # {}
        /\ file' = [kind |-> "bundle", notes |-> Restrict(notes, chosen), trash |-> <<>>,
                    recent |-> <<>>, template |-> NoText]
        /\ UNCHANGED <<payload, currentNote, lastSelection, disk, warned, saves>>

mergeNotes ==
    \E target \in MergeTargets(notes, file.notes) :
        notes' = Merged(notes, file.notes, target)

\* import <json>: merge keeps what the session has, and its template if set.
importMerge ==
    /\ file.kind = "json" /\ Room(Cardinality(DOMAIN file.notes))
    /\ mergeNotes
    /\ template' = IF template = NoText THEN file.template ELSE template
    /\ UNCHANGED <<trash, recent, currentNote, lastSelection, file>>
    /\ persist

\* import <json> --mode replace, confirmed.
importReplace ==
    /\ file.kind = "json"
    /\ notes' = file.notes /\ recent' = file.recent /\ trash' = file.trash
    /\ template' = IF file.template = NoText THEN template ELSE file.template
    /\ UNCHANGED <<currentNote, lastSelection, file>>
    /\ persist

\* import-bundle <path>, with its passphrase and confirmed.
importBundle ==
    /\ file.kind = "bundle" /\ Room(Cardinality(DOMAIN file.notes))
    /\ mergeNotes
    /\ UNCHANGED <<trash, recent, template, currentNote, lastSelection, file>>
    /\ persist

\* The session ends, by exit, idle lock or crash, and another one opens the file.
reopen ==
    /\ notes' = disk.notes /\ trash' = disk.trash
    /\ recent' = disk.recent /\ template' = disk.template
    /\ currentNote' = <<>> /\ lastSelection' = <<>>
    /\ warned' = FALSE
    /\ UNCHANGED <<disk, saves, file>>

-----------------------------------------------------------------------------

Init ==
    /\ notes = <<>> /\ trash = <<>> /\ recent = <<>> /\ template = NoText
    /\ currentNote = <<>> /\ lastSelection = <<>>
    /\ disk = Payload /\ warned = FALSE /\ saves = 0
    /\ file \in Sources

Next ==
    \/ note \/ rm \/ restore \/ purge \/ purgeAll
    \/ find \/ recents \/ cdRoot \/ cd \/ show \/ cp \/ vanished
    \/ set \/ unset \/ templateEdit \/ templateReset
    \/ export \/ bundle \/ importMerge \/ importReplace \/ importBundle \/ reopen

Spec == Init /\ [][Next]_vars

-----------------------------------------------------------------------------
(* Properties. *)

\* Every variable has its type.
TypeOK ==
    /\ IsPayload(Payload) /\ IsPayload(disk)
    /\ currentNote \in Name /\ lastSelection \in Seq(Name)
    /\ warned \in BOOLEAN /\ saves \in 0..MaxSaves
    /\ IsFile(file)

\* Unless the last command reported that saving failed, leaving the session in
\* any way and opening the file again gives the payload in memory, as JSON
\* spells it: no command that changes it goes without its save (persist,
\* repl.go:1707).
SavedUnlessWarned == ~ warned => disk = ToJSON(Payload)

\* The names an import cuts inside a rune, before or after a save has put the
\* replacement rune there.
CutInRune(name) ==
    \E i \in DOMAIN name : name[i] = Replacement \/ ~ InRune(name, i, Runes)

\* However often imports rename, trim and cut, every live note has a name that
\* Get finds (repl.go:1396-1399), except those cut inside a rune; and restore
\* brings every trashed note back under such a name.
NotesCanBeFound ==
    /\ \A n \in DOMAIN notes : Canonical(n) \/ CutInRune(n)
    /\ \A k \in DOMAIN trash : Canonical(trash[k].original)

\* The recent list names live notes only, each once and no more than RecentMax,
\* whatever was removed, restored, replaced or read back since (recent.go:21).
RecentIsLive ==
    /\ IsInjective(recent) /\ Range(recent) \subseteq DOMAIN notes
    /\ Len(recent) <= RecentMax

\* A name leaves the live notes only by going to the trash, under a key of its
\* own, with its name and its text; and a trashed note leaves the trash only by
\* being purged or by being live again (trash.go:26-79). What import --mode
\* replace puts away, and a session that ends, is gone.
NotesLeaveByTheTrash ==
    [][ \/ importReplace \/ reopen
        \/ /\ \A n \in DOMAIN notes \ DOMAIN notes' :
                \E k \in DOMAIN trash' \ DOMAIN trash :
                    trash'[k] = [original |-> n, body |-> notes[n]]
           /\ \A k \in DOMAIN trash \cap DOMAIN trash' : trash'[k] = trash[k]
           /\ \A k \in DOMAIN trash \ DOMAIN trash' :
                \/ notes' = notes
                \/ /\ trash[k].original \in DOMAIN notes' \ DOMAIN notes
                   /\ notes'[trash[k].original] = trash[k].body ]_vars

\* Only import --mode replace leaves the session in a note that is gone: rm
\* clears the current note it trashes, however it was named (repl.go:541).
ContextIsLive ==
    [][ currentNote' # <<>> /\ ~ Found(currentNote)' =>
            importReplace \/ (currentNote' = currentNote /\ ~ Found(currentNote)) ]_vars

\* An import that keeps the notes of the session keeps each as it was, and
\* every note of the file has a place of its own: two never land on one name
\* (repl.go:1400-1430).
ImportsKeepAll ==
    [][ importMerge \/ importBundle =>
            /\ \A n \in DOMAIN notes : n \in DOMAIN notes' /\ notes'[n] = notes[n]
            /\ \E place \in [DOMAIN file.notes -> DOMAIN notes' \ DOMAIN notes] :
                /\ IsInjective(place)
                /\ \A n \in DOMAIN file.notes : notes'[place[n]] = file.notes[n] ]_vars

TextsOf(f) == {f[n] : n \in DOMAIN f}
TrashTextsOf(f) == {f[k].body : k \in DOMAIN f}

NS == INSTANCE NotesSpec WITH
    Texts <- Bodies,
    live <- TextsOf(notes),
    bin <- TrashTextsOf(trash),
    saved <- [live |-> TextsOf(disk.notes), bin |-> TrashTextsOf(disk.trash)],
    warned <- warned,
    offer <- [live |-> TextsOf(file.notes), bin |-> TrashTextsOf(file.trash)],
    clash <- \E n, m \in DOMAIN notes : n # m /\ Encoded(n) = Encoded(m)

\* The session keeps the promise of NotesSpec.
ImplementsNotes == NS!Spec
=============================================================================
