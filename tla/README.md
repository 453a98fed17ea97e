# A TLA+ verification of kpot

kpot keeps notes in one encrypted file, edits them in a REPL and can serve them
read-only to a browser. This directory holds TLA+ models of its parts, TLC
configurations that check them on small instances, and TLAPS proofs.

## The system

| part (code) | state | operations | who calls it |
|---|---|---|---|
| vault file (`internal/vault`) | `<file>`, `<file>.tmp`, `<file>.bak` | Create, Open (by passphrase, recovery secret or cached key), Save, Rekey (v1), RekeyV2, all writing through `atomicWrite` | `kpot init`, `kpot open`, every REPL command that changes a note, `serve` (reads only) |
| notes store (`internal/store`) | notes, trash, recent list, template | Put, Delete, TrashNote, Restore, Purge, PurgeAll, TrackRecent, PruneRecent, NormalizeName, Find, ToJSON and FromJSON | the REPL, and `serve` for Get, Names and Find |
| REPL session (`internal/repl`) | the notes in memory, key and header, current note, numbered selection, idle timer | one method per command, most end in `persist` | the user; the idle timer in its own goroutine |
| export, bundles and imports (`repl.go`, `internal/bundle`) | the file at hand | export, bundle, import (merge or replace), import-bundle, all merging through `mergeNotes` | the REPL |
| the text of a note (`internal/fields`, `internal/notefmt`) | none | Parse, Get, Names, Set, Unset; Render and Strip | show, cp, fields, set, unset and note |
| clipboard manager (`internal/clipboard`) | the pending clear job | Copy, tryClear (timer goroutine), Close | the REPL; the idle lock |
| web sessions (`internal/serve`) | map of sessions, each with state, DEK, notes and timer; bootstrap notes | login, logout, list and read, idle expiry, mint, shutdown | HTTP handler goroutines, timer goroutines, the signal goroutine |
| login throttle (`internal/serve/ratelimit.go`) | per address: recent failures, end of the lockout | allow, recordFailure, recordSuccess | the login handler |
| key cache (`internal/keychain`) | one key per vault in the OS keychain | Get, Set, Delete | `openSession`, `serve` at startup, `passphrase` |
| recovery secrets (`internal/recovery`) | none | generate, encode and parse a recovery key or phrase | `init`, `open --recover` |

What is hard here: a write is five system calls on three names, any of which may
fail or be the last; a rotation touches the file, its backup and the session's
memory one after the other; `serve` locks a store and each session separately
and its timers run in goroutines of their own; the login check and its record
are a key derivation apart; the current note, the selection and the recent list
keep names across commands that take the notes away; names are limited in runes
by one function and cut in bytes by another, and JSON spells a cut rune anew; a
field is written at a place that need not be one where fields are read.
`PROJECT.json` lists these hazards at their lines.

What makes the parts correct: nothing acknowledged is lost and every image
opens by each of its secrets (vault file); after a rotation no file opens with
the old passphrase; memory and disk agree between commands; a note goes by way
of the trash only, and no import loses one (session); what set writes show finds,
and nothing else of the text changes (the text of a note); each key
derived by a login is wiped exactly when its last owner gives it up, expired
and logged-out sessions answer nothing, every session ends locked (web
sessions); guessing is bounded and lockouts are deserved (throttle).

## Modules

`VaultSpec` is the abstract promise: one register holding the image a user can
get back, replaced in one step or not at all.

`VaultFile` is the code: the directory as a function of the three names, the
open session (`sess`: header, key, notes), and the write in progress (`op`, and
`pc`, its next system call). Cryptography is symbolic: a key is a fresh number,
an image opens under the key it is sealed with. In a header, `wrap` is what the
passphrase leads to and `rec` what the recovery secret leads to. The notes are
one number that grows with each edit. Actions:

| action | code |
|---|---|
| CreateV2WithRecovery, DisplayRecoveryOnce, RollbackInit | `cmdInit`, `vault.CreateV2WithRecovery` |
| Open, OpenWithRecovery, Close | `openSession`, `cmdOpenWithRecovery`, `Session.Close` |
| Save | any REPL command followed by `persist` |
| Rekey, RekeyV2, DropBak, FailDropBak, Reopen, FailReopen | `Session.passphrase`, `vault.Rekey`, `vault.RekeyV2` |
| OpenTmp, FillTmp, UnlinkBak, Shelve, Commit..., FailBeforeCommit, FailCommit | `atomicWrite`, one per system call |
| Crash | the process or the machine dies |
| RestoreBackup | the user renames the backup; not kpot's code |
| OpenWithKey, ForgetCachedKey | `openSession` with the key of the OS keychain; the key removed when it does not open the vault, or by `--forget` |

`keychain` is the one cached key: `Open` may store it (`maybeCacheKey`), a v1
rotation removes it, and each of these calls may fail.

`NotesSpec` is the abstract promise of a session about the text of the notes,
whatever their names: a text leaves the live notes only when it is rewritten,
trashed or replaced, leaves the trash only when it is restored, purged or
replaced, and the file holds the texts as they were after a whole command.

`NoteNames` has the names: what `NormalizeName` accepts and returns, where
`mergeNotes` puts the notes it brings, and what JSON makes of a name. A name is a
sequence of bytes and a rune the sequence of its own, because the code counts
runes in one place and bytes in the other.

`ReplSession` has one action per command (`note`, `rm`, `restore`, `purge`,
`purgeAll`, `find`, `recents`, `cd`, `cdRoot`, `show`, `cp`, `vanished`, `set`, `unset`,
`templateEdit`, `templateReset`, `export`, `bundle`, `importMerge`,
`importReplace`, `importBundle`), each with the whole of the handler: the store's
operations, the context it clears, the recent list it prunes, and `persist`, which
succeeds or fails. `reopen` ends the session in any way and opens the file
again. `notes`, `trash`, `recent` and `template` are the `DecryptedVault` in memory,
`disk` what the last good save wrote, `file` the export or bundle at hand. Go's
maps are functions; in `mergeNotes` they are walked in every order. A command
that prints, is cancelled or is refused is a stuttering step.

`NoteBody` has the lines of one note: fields with a key as spelled and a value,
and the other kinds of lines that `fields.go` and `notefmt.go` tell apart. Its
actions are `set`, `unset` and `note` with the header of the editor kept or
deleted; `ReplSession` takes any text as their outcome.

`Order` numbers the members of a finite set of integers in order. What a loop of
the code appends to a list as it goes, `PruneRecent` the entries that are live
and `Parse` the lines that are fields, is the n-th of their indices for each n; so
stated, and not as a recursion over the list, it can be proved about.

`WebSession` has one action per critical section of the store's or a session's
mutex, for each handler goroutine, timer callback and the shutdown goroutine.
`Unlock` is the whole of `vault.Open` and the store lookup that follows, since
the former touches nothing shared. Answers that only read (`/api/status`) and
the content of notes are left out.

`EndOfSession` has the four kinds of goroutine that meet when a REPL session ends:
the command loop (`main`), the idle timer's callback and the loop's deferred
Close (`closing`), and the clipboard manager's clear jobs (`job`), with the
manager's `current` and the system clipboard `board`, which other programs write
too. Each critical section of the manager's mutex and each call of a clipboard
tool is a step; the key is live, wiped in place or dropped:

| action | code |
|---|---|
| Copy, WriteSecret, FailCopy, Register | a copying command, `Manager.Copy` |
| Edit, Marshal, Seal, CommitSave | a command followed by `persist`, `vault.Save` |
| JobStop, JobFire; JobTake, JobPaste, JobClear | `Manager.run`; `Manager.tryClear` |
| IdleFire | the timer starts `idleFire` in its goroutine |
| Quit, Panic | the loop ends, and the deferred `Session.Close` starts |
| CloseTake, ClosePaste, CloseClear; CloseWipe, CloseDrop | `Manager.Close`; the rest of `Session.Close` |
| Exit | `os.Exit` in `idleFire`, or `main` returns |
| CopyElsewhere | another program; not kpot's code |

`LoginLimiter` is the throttle for one address, with the clock, and with any
number of handlers between `allow` and the record of their outcome. `failures` is
the code's list; `failed` is the history of all failed logins, which the
properties are about.

`MC...` modules instantiate these for TLC; `...Proofs` modules hold proofs.
Operators whose comment begins with "Mutant" are plausible slips of the code;
substituting one for the definition it follows must break the property it is
listed with in `PROJECT.json`, which shows that the property looks at the code.

## Runs

| run | instance | shows |
|---|---|---|
| `vault_file` | 2 passphrases, 3 edits, 4 keys; 967 thousand states | all invariants of VaultFile, that a cached key goes on opening the vault, and that VaultFile implements VaultSpec |
| `vault_file_init` | the same with 2 edits, 3 keys | kpot can delete the last copy of a vault (violation) |
| `vault_file_rotate` | the same | a save can undo a rotation (violation) |
| `web_session` | 2 handlers, 3 requests, 2 mints; 440 thousand states | key ownership, who may answer, timers, what a shutdown wipes, and that every session ends locked |
| `web_session_logout` | 1 handler, 3 requests | a logged-out cookie is given a new session (violation) |
| `web_session_exit` | 2 handlers, 3 requests | a key can survive the shutdown (violation) |
| `end_of_session` | 2 secrets, 2 copies, 2 saves; 280 thousand states | a secret on the clipboard has somebody to clear it, and is cleared; what a session ended by its user leaves; who wipes the key under a command |
| `end_of_session_clipboard` | 2 copies, 1 save | the process can exit with a secret on the clipboard (violation) |
| `end_of_session_save` | the same | a save can seal the vault with a wiped key (violation) |
| `login_limiter` | 3 handlers, the program's own 60 s, 3 and 30 s in steps of 10 s, 120 s; 1.9 million states | the bound on failed logins, and that lockouts are earned |
| `repl_session` | names of at most 3 bytes from letters of one and of two, 2 texts, a recent list of 2, 4 saves; 120 thousand states | notes leave by the trash, imports keep all, recent list and current note name live notes, names can be found, and ReplSession implements NotesSpec |
| `note_body` | every text of at most 4 lines out of 9, and set up to 5; 33 thousand states | what set and unset change, and that the editor gives a text back |

Bounds. Three edits and four keys allow an init, a rotation, a second one and
saves before and after each, with crashes without limit in number. Three
requests allow a login, a logout and a late read or re-login through the same
cookie, two mints a second session for a cookie that was logged out; two
handlers at once give every pair of critical sections. (Four requests and one
mint were checked once as well, in six minutes.) Two copies let one job replace
another, of the same secret or a different one; two saves come before and after
the key is wiped. Two minutes of clock hold a full window before and after a
lockout. In `repl_session` the length limit is 3 instead of 128, so that the first
conflict cuts a name and can cut a rune of two bytes; three texts (`MaxTexts`), notes and
trash together, are a note, its conflict and a conflict with that, or a note
and two in the trash under one second; four saves (`MaxSaves`) allow an
import, a removal, a new note of that name and a restore, with a session that
ends, or a save that fails, before each; a selection of one note of `find`
(`MaxMatches`) or two of `recent` is enough for a number to outlive its note. In
`note_body` five lines (`MaxFirst` and one more, `MaxLines`) hold a front matter
block or a fence with a field in it and one after it; the odd keys are
arguments of `set` that are no field keys, one for each kind of line they make.

Deadlock is not checked where a bound, or a user who sends nothing more, may end
the run.

Fairness. `web_session`: each handler, timer and callback is weakly fair, as the
Go scheduler runs goroutines and an armed timer fires; new requests and signals
are not. `end_of_session`: a command that has begun, a Close and a clear job go
on; the user and the idle timer need do nothing. The other runs need none.

## What the violation runs show

1. `vault_file_init`. `README.md` promises that a crash at any step leaves a
   decryptable file. It does, as `.bak`; but opening then says "Use 'kpot
   init ...' to create it", `init` looks only at the main name, and if it cannot
   show the recovery key it removes `.bak` as well. (The next save of the new
   vault would do so too.)
2. `vault_file_rotate`. `passphrase` returns early when removing the backup or
   reopening fails, after the new image is in place. The session keeps the old
   header and its next save brings the old passphrase back, against the comment
   on that function.
3. `web_session_logout`. The comment on `Destroy` says a logged-out cookie is asked
   to log in; `resolveSession` mints a new session for it from the bootstrap.
4. `web_session_exit`. `docs/serve.md` says all keys are zeroed before exit; a
   login that looked up a session just before its logout re-arms it after,
   outside the map that `Shutdown` walks. That is the only way, if the handlers
   return in time: `OnlyLogoutsOutliveShutdown` holds.
5. `end_of_session_clipboard`. `README.md` says a secret never outlives the session.
   `tryClear` takes its job off the manager before it clears, and `Copy` registers
   a job only after writing; a Close in between finds nothing to wait for, and the
   process exits. When the user ends the session only the former can happen
   (`LastSecretIsBeingCleared`).
6. `end_of_session_save`. The comment on `idleFire` takes the loop to be blocked in
   its prompt. The timer can fire while a command runs, and `Close` then wipes the
   key in place under `persist`, which seals the notes with zeroed bytes. Without
   the idle lock no save does (`OnlyIdleLockWipesUnderCommands`).

## What the models say besides

The properties of `repl_session` and `note_body` hold, with exceptions that they
name because the code has them:

- A conflict name is cut in bytes (`mergeNotes`), so possibly inside a rune. Such a
  name is no longer one that Get accepts, although the comment at `repl.go:1396`
  is there to say that it is, and JSON writes a replacement rune for the
  rest of it. Two such names may be spelled alike by JSON, and the save keeps the
  text of one (`clash` in `NotesSpec`), against `repl.go:1313`, "so nothing is lost
  silently". `select.go:45`, "lastSelection entries are already canonical", fails then too.
- `FromJSON` does not look at names. The models import what kpot exports; a JSON
  file made by hand can bring any name.
- `set` puts a first field after the first line that starts with `#`, also
  when that line is in a code fence, where no command finds the field
  (`SetIsFound`). A key with other characters than a field's is accepted and
  written, and never found.
- `unset` can make a `---` rule the first line; what follows up to the next one is
  front matter from then on (`UnsetTakesOneField`).
- A starter template that begins with an empty line loses it in Strip, so a new
  note saved as shown counts as edited (`EditorKeepsText`).
- `import --mode replace` leaves the session in a note that may be gone; the next
  command on it says so and returns to the root (`ContextIsLive`).

## Proofs

`VaultFileProofs` proves, for every set of passphrases and with no bound on edits
or keys that matters, each invariant that `vault_file` checks and the refinement
`Spec => ImplementsRegister`, from `ConstantsAssumption` (the marker values are
not images or sessions). The invariants are not inductive alone: what a rename
leaves under a name depends on what an earlier call wrote, so `IInv` adds

- `WholeFiles`, `FilesGood`: only `.tmp` can be partial, each image on disk opens;
- `Control`: which operation is at which call, and whether a session runs it;
- `OperationGood`, `StageGood`: what the write in progress will put in place, and
  what its earlier calls have left for the later ones;
- `SessionGood`: an open session has its vault recoverable, no newer than its
  memory, with the same recovery wrap, and the same header unless a rotation was
  reported failed;
- `RotationGood`, `AckGood`: what the history variables say of operation and disk.

`Initially` and `InvStep` show it inductive, one step per action; `RegisterInit` and
`RegisterStep` map states and steps to VaultSpec's.

`WebSessionProofs` proves, for any number of handlers, requests and mints and from
`WebAssumption`, that each derived key is wiped or held, that no held key is
wiped or shared, and that active sessions are timed. Its `IInv` ties what a
handler holds to where it stands (`Handlers`: a login has a key exactly between
its derivation and its session) and says that every key in use was derived and
has one owner (`Ownership`). `Returning`, `Activating`, `HandingOver` and `Locking`
say what the building blocks do to the parts; each action is a few of them.

For `AnswersComeFromLiveSessions` it adds `Departures`: listed, logged-out and
about-to-be-listed sessions are kept apart. That no answer comes from a session
logged out before its request came follows, as an action property. For
`OnlyLogoutsOutliveShutdown` it adds `Placement`: every session ever activated is
listed, logged out, or with the one handler that is about to make it so, and a
shutdown that found no handler has only listed ones to lock.

`EndOfSessionProofs` proves that a secret on the clipboard is watched, from
`EndAssumption`. The invariant adds that no other secret can reach the clipboard
between a command's write and its registration, and that the loop's own Close
starts only when the loop is done. How sessions end takes more (`Endings`): a secret
stays watched in a process that has exited, the loop's Close leaves no pending
job, and the key is wiped by a Close that is past its clearing.

`LoginLimiterProofs` proves the throttle for any number of handlers, threshold and
times, assuming that the cool-off is no longer than the window (the code has 30 s
and 60 s). The failures the code counts are the end of the history of failures
(`LockoutIsEarned` needs that, and that a success empties both). For
`GuessingIsThrottled`, each failure of the last cool-off is counted still, or a
lockout has begun since, in which only the handlers already past `allow` can
add one each.

`ReplSessionProofs` proves, for any names, runes, texts, sources and bounds, every
property of ReplSession that `repl_session` checks. It needs two invariants, both
checked by TLC first. `IInv` adds to `SavedUnlessWarned` that the maps hold notes
(`Typing`) and that the names on disk are spelled as JSON spells them
(`SpelledOnDisk`), without which opening the file and saving it again could change
it. Every command is shown to be a save, a read or the end of the session
(`StepIs`), and these keep `IInv`. `TargetsAreApart` is what the imports rest on: the
order in which a map is walked gives each note a turn, and a name taken at one
turn is taken at the later ones.

`SInv` says what a name can be, and says it of the memory, the file on disk and the
export at hand alike (`Healthy`), since each becomes one of the others: a live name
is one that Get accepts or is cut inside a rune, the name a trashed note
goes back to is one that Get accepts, and the recent list has live names, each
once. It is inductive only with the clause on the export at hand: an import
brings names that an earlier session cut. Cutting is where the work is: a
prefix of a name that ends between two runes is a name or ends in a blank that
trimming takes off, and one that ends inside a rune stays so when a tail is
appended, when it is cut again, and, with the replacement rune for the rest, when
JSON spells it. What the proofs need of the letters is assumed, and holds of UTF-8
and of the code's constants: a byte shows whether it begins a rune, and no rune is
the beginning of another (`DecodingAssumption`); the tails that mergeNotes appends
are of one-byte runes that a name may have and that lower case leaves alone
(`SuffixAssumption`, `TailsAssumption`), and are shorter than the limit of a name.
`OrderProofs` has what `PruneRecent` keeps:
each live entry once, in the order it had.

`NotesProofs` proves that ReplSession implements NotesSpec: lemmas on the texts of
a map with an entry put, removed or merged, `TextsSpelled` on what a save keeps,
and one lemma per kind of command. The assumptions used are those of `ReplSession`
and `NoteNames`, `SourcesAssumption` (what is imported was exported by kpot) included.

`NoteBodyProofs` proves the properties of NoteBody for texts of any length, where
`note_body` has four lines. The type of the text is inductive alone; the rest
are statements about one step, and so about the functions of `fields.go` and
`notefmt.go`. They rest on comparing two texts of which one has a field more, at
line q (`Inserted`): line i of the one is line `Moved(i, q)` of the other, the front
matter is the same (`FrontStays`, and `FrontStaysWithout`, which fails when the text
had none: that is the exception `UnsetTakesOneField` names), therefore the same lines are
inside a fence (`FencesStay`, by counting the fences before them), therefore the same
lines are fields (`FieldsStay`), and they come in the same order (`RankMoved`).
`NewFieldFenced` is the exception of `SetIsFound`: the line after the insertion
point is inside a fence exactly when the title before it is. The assumptions are
`KeysAssumption` (lower case is idempotent), `KindsAssumption` (the lines that Render writes
exist) and `BoundsAssumption`.

With these every invariant and every action property of the passing runs is a
theorem, and both refinements are. Only model-checked: liveness under fairness
(`IdleSessionsLock`, `SecretsAreCleared`), which the provers here cannot do.

## Assumptions

One process writes a vault at a time, and renames reach the disk in the order
they were made; docs/serve.md says itself that no lock is taken and that two
writers would race. Cryptography is perfect and random sources do not fail.

## Not modelled

`PROJECT.json` "components" lists each part with what is left out. In particular:

- two processes writing one vault: the code promises nothing, and says so;
- the recovery codec, configuration and vault names: functions of their input
  without state, on strings character by character;
- the envelope of a bundle and the backends of the keychain: calls of the
  cryptographic primitives and of OS tools;
- v1 `Create` and the checks of single header fields: v1 vaults are an initial
  state, and a file is whole or torn;
- prompts, completion and the web page: input, display and browser code.
