----------------------------- MODULE VaultFile -----------------------------
(***************************************************************************)
(* One kpot process at a time working on one vault file: kpot init, the    *)
(* three ways to open it - a key from the OS keychain, the passphrase, the *)
(* recovery key -, every persist() of a REPL session, the two passphrase   *)
(* rotations, and atomicWrite underneath them, one step per system call.   *)
(* Any call may fail and the process may die between any two of them.      *)
(*                                                                         *)
(* Cryptography is symbolic.  A key is a number, fresh when it is drawn or *)
(* derived with a fresh salt.  An image on disk carries its header and the *)
(* key its payload is sealed with: a payload opens only under that key.    *)
(* In a header, "wrap" is the key the passphrase pw leads to (v1: the KDF  *)
(* output for pw and the salt; v2: the DEK in the passphrase wrap), and    *)
(* "rec" the DEK in the recovery wrap (v1 has none: 0).  "data" orders the *)
(* states of the notes by when they were made.                             *)
(***************************************************************************)
EXTENDS Naturals

CONSTANTS Passphrase,
          Absent,      \* no such file
          Torn,        \* a file that is not a whole vault image
          None,        \* no session, no operation, nothing acknowledged
          MaxEdits,    \* bound: edits saved by sessions, over all runs
          MaxKeys      \* bound: keys drawn, over all runs

Slot == {"main", "tmp", "bak"}
Header == [ver : {1, 2}, pw : Passphrase, wrap : Nat, rec : Nat]
Image == [hdr : Header, seal : Nat, data : Nat]
Session == [hdr : Header, key : Nat, data : Nat]
Operation == [kind : {"save", "rekey", "create"}, img : Image]
Stage == {"idle", "open", "fill", "unlink", "shelve", "commit",
          "dropbak", "reopen", "display"}

ASSUME ConstantsAssumption ==
  /\ Absent \notin Image
  /\ Torn \notin Image
  /\ Absent # Torn
  /\ None \notin Session \cup Operation \cup Passphrase \cup Nat

VARIABLES file,        \* Slot -> Image, Absent or Torn: the directory
          sess,        \* the open session: s.Hdr, s.Key, s.Vault
          op,          \* the write in progress
          pc,          \* the next system call of that write
          keys,        \* keys drawn so far
          edits,       \* edits made so far
          acked,       \* data the user was last told is stored (history)
          current,     \* passphrase of an acknowledged rotation (history)
          unsynced,    \* a rotation took effect but the session missed it (history)
          cache        \* the key the OS keychain holds for the vault

vars == <<file, sess, op, pc, keys, edits, acked, current, unsynced, cache>>
history == <<acked, current, unsynced>>

-----------------------------------------------------------------------------
(* Both wraps of a header lead to the key the payload is sealed with.      *)
Opens(img) == /\ img.hdr.wrap = img.seal
              /\ img.hdr.ver = 2 => img.hdr.rec = img.seal

Readable(slot) == file[slot] \in Image

(* What a user can get back: the file, or else its backup.                 *)
Recoverable == IF file["main"] # Absent THEN file["main"] ELSE file["bak"]

Return == /\ pc' = "idle"
          /\ op' = None

Begin(kind, img) == /\ op' = [kind |-> kind, img |-> img]
                    /\ pc' = "open"

Goto(from, to) == /\ pc = from
                  /\ pc' = to
                  /\ UNCHANGED op

V1Header(pw, k) == [ver |-> 1, pw |-> pw, wrap |-> k, rec |-> 0]
V2Header(pw, k) == [ver |-> 2, pw |-> pw, wrap |-> k, rec |-> k]

-----------------------------------------------------------------------------
(* Starting points: no vault yet, or a v1 vault of an older release.       *)
Init ==
  /\ \E pw \in Passphrase, main \in {"missing", "v1"} :
       file = [slot \in Slot |->
                 IF slot = "main" /\ main = "v1"
                 THEN [hdr |-> V1Header(pw, 1), seal |-> 1, data |-> 0]
                 ELSE Absent]
  /\ sess = None /\ op = None /\ pc = "idle"
  /\ keys = 1 /\ edits = 0
  /\ acked = None /\ current = None /\ unsynced = FALSE
  /\ cache = None

(* kpot init.  Only <file> itself is looked at, never <file>.bak.          *)
CreateV2WithRecovery(pw) ==
  /\ pc = "idle" /\ sess = None /\ keys < MaxKeys
  /\ file["main"] = Absent
  /\ keys' = keys + 1
  /\ Begin("create", [hdr |-> V2Header(pw, keys + 1), seal |-> keys + 1, data |-> 0])
  /\ current' = None
  /\ UNCHANGED <<file, sess, edits, acked, unsynced, cache>>

Enter(img, key) ==
  /\ sess' = [hdr |-> img.hdr, key |-> key, data |-> img.data]
  /\ acked' = img.data
  /\ UNCHANGED <<file, op, pc, keys, edits, current, unsynced>>

(* A cached key opens the vault if it is the key the payload is sealed     *)
(* with, whatever the passphrase has become.                               *)
OpenWithKey ==
  /\ pc = "idle" /\ sess = None /\ Readable("main")
  /\ cache = file["main"].seal
  /\ Enter(file["main"], cache)
  /\ UNCHANGED cache

(* A cached key that did not open the vault, because it is another one or  *)
(* because reading failed, is removed before the passphrase is asked for;  *)
(* --forget removes it too.                                                *)
ForgetCachedKey ==
  /\ pc = "idle" /\ sess = None /\ cache # None
  /\ cache' = None
  /\ UNCHANGED <<file, sess, op, pc, keys, edits, history>>

(* The keychain is left alone (--no-cache, the mode, the user, an error),  *)
(* or is given the key the passphrase led to.                              *)
maybeCacheKey(key) == cache' \in {cache, key}

(* The passphrase opens the vault.                                         *)
Open(pw) ==
  /\ pc = "idle" /\ sess = None /\ Readable("main")
  /\ file["main"].hdr.pw = pw
  /\ file["main"].hdr.wrap = file["main"].seal
  /\ Enter(file["main"], file["main"].hdr.wrap)
  /\ maybeCacheKey(file["main"].hdr.wrap)

OpenWithRecovery ==
  /\ pc = "idle" /\ sess = None /\ Readable("main")
  /\ file["main"].hdr.ver = 2
  /\ file["main"].hdr.rec = file["main"].seal
  /\ Enter(file["main"], file["main"].hdr.rec)
  /\ UNCHANGED cache

Close ==
  /\ pc = "idle" /\ sess # None
  /\ sess' = None /\ unsynced' = FALSE
  /\ UNCHANGED <<file, op, pc, keys, edits, acked, current, cache>>

(* A command changes the notes in memory and then persists them under the  *)
(* session's own header and key.                                           *)
Save ==
  /\ pc = "idle" /\ sess # None /\ edits < MaxEdits
  /\ edits' = edits + 1
  /\ sess' = [sess EXCEPT !.data = edits + 1]
  /\ Begin("save", [hdr |-> sess.hdr, seal |-> sess.key, data |-> edits + 1])
  /\ UNCHANGED <<file, keys, history, cache>>

(* A v1 rotation draws a new key and writes the notes in memory.           *)
Rekey(pw) ==
  /\ pc = "idle" /\ sess # None /\ sess.hdr.ver = 1 /\ keys < MaxKeys
  /\ Readable("main") /\ file["main"].hdr.ver = 1
  /\ keys' = keys + 1
  /\ Begin("rekey", [hdr |-> V1Header(pw, keys + 1), seal |-> keys + 1,
                     data |-> sess.data])
  /\ current' = None
  /\ UNCHANGED <<file, sess, edits, acked, unsynced, cache>>

(* Mutant: the notes of the backup are written back.                       *)
RekeyV2FromBackup(pw) ==
  /\ pc = "idle" /\ sess # None /\ sess.hdr.ver = 2
  /\ Readable("bak") /\ file["bak"].seal = sess.key
  /\ Begin("rekey", [hdr |-> [ver |-> 2, pw |-> pw, wrap |-> sess.key,
                              rec |-> file["bak"].hdr.rec],
                     seal |-> sess.key, data |-> file["bak"].data])
  /\ current' = None
  /\ UNCHANGED <<file, sess, keys, edits, acked, unsynced, cache>>

(* Mutant: a v2 rotation draws a new DEK.                                  *)
RekeyV2NewKey(pw) ==
  /\ pc = "idle" /\ sess # None /\ sess.hdr.ver = 2 /\ keys < MaxKeys
  /\ Readable("main") /\ file["main"].seal = sess.key
  /\ keys' = keys + 1
  /\ Begin("rekey", [hdr |-> V2Header(pw, keys + 1), seal |-> keys + 1,
                     data |-> file["main"].data])
  /\ current' = None
  /\ UNCHANGED <<file, sess, edits, acked, unsynced, cache>>

(* A v2 rotation wraps the session's DEK anew and writes back the notes it *)
(* finds on disk; the recovery wrap found there is kept.                   *)
RekeyV2(pw) ==
  /\ pc = "idle" /\ sess # None /\ sess.hdr.ver = 2
  /\ Readable("main") /\ file["main"].hdr.ver = 2
  /\ file["main"].seal = sess.key
  /\ Begin("rekey", [hdr |-> [ver |-> 2, pw |-> pw, wrap |-> sess.key,
                              rec |-> file["main"].hdr.rec],
                     seal |-> sess.key, data |-> file["main"].data])
  /\ current' = None
  /\ UNCHANGED <<file, sess, keys, edits, acked, unsynced, cache>>

-----------------------------------------------------------------------------
(* atomicWrite, one action per system call.                                *)
(* Mutant: the vault itself is opened with O_TRUNC.                        *)
OpenInPlace ==
  /\ Goto("open", "fill")
  /\ file' = [file EXCEPT !["main"] = Torn]
  /\ UNCHANGED <<sess, keys, edits, history, cache>>

OpenTmp ==
  /\ Goto("open", "fill")
  /\ file' = [file EXCEPT !["tmp"] = Torn]
  /\ UNCHANGED <<sess, keys, edits, history, cache>>

(* Write, Sync and Close succeed.  Stat(path) chooses the next step: any   *)
(* error of it, not only "no such file", skips the backup.                 *)
FillTmp ==
  /\ \/ Goto("fill", "unlink") /\ file["main"] # Absent
     \/ Goto("fill", "commit")
  /\ file' = [file EXCEPT !["tmp"] = op.img]
  /\ UNCHANGED <<sess, keys, edits, history, cache>>

(* os.Remove(bak): its error is ignored.                                   *)
UnlinkBak ==
  /\ Goto("unlink", "shelve")
  /\ file' \in {file, [file EXCEPT !["bak"] = Absent]}
  /\ UNCHANGED <<sess, keys, edits, history, cache>>

(* Mutant: the old file is removed instead of renamed.                     *)
ShelveByRemove ==
  /\ Goto("shelve", "commit")
  /\ file' = [file EXCEPT !["main"] = Absent]
  /\ UNCHANGED <<sess, keys, edits, history, cache>>

Shelve ==
  /\ Goto("shelve", "commit")
  /\ file' = [file EXCEPT !["bak"] = file["main"], !["main"] = Absent]
  /\ UNCHANGED <<sess, keys, edits, history, cache>>

(* The final rename: the write takes effect.                               *)
Commit(kind) ==
  /\ pc = "commit" /\ op.kind = kind
  /\ file' = [file EXCEPT !["main"] = file["tmp"], !["tmp"] = Absent]
  /\ UNCHANGED <<sess, keys, edits, cache>>

CommitSave ==
  /\ Commit("save")
  /\ Return
  /\ acked' = op.img.data
  /\ UNCHANGED <<current, unsynced>>

CommitRekey ==
  /\ Commit("rekey")
  /\ pc' = "dropbak" /\ UNCHANGED op
  /\ unsynced' = TRUE
  /\ UNCHANGED <<acked, current>>

(* Mutant: init goes on without its next stage being set.                  *)
CommitCreateUnstaged ==
  /\ Commit("create")
  /\ pc' = None /\ UNCHANGED op
  /\ acked' = None
  /\ UNCHANGED <<current, unsynced>>

CommitCreate ==
  /\ Commit("create")
  /\ pc' = "display" /\ UNCHANGED op
  /\ acked' = None
  /\ UNCHANGED <<current, unsynced>>

(* A call before the final rename fails.  The temporary file is removed,   *)
(* but the error of that removal is ignored; what a failed write left in   *)
(* it may be anything.                                                     *)
FailBeforeCommit ==
  /\ pc \in {"open", "fill", "shelve"}
  /\ \/ pc = "open" /\ UNCHANGED file
     \/ /\ pc = "fill"
        /\ \E left \in {Absent, Torn, op.img} : file' = [file EXCEPT !["tmp"] = left]
     \/ /\ pc = "shelve"
        /\ file' \in {file, [file EXCEPT !["tmp"] = Absent]}
  /\ Return
  /\ UNCHANGED <<sess, keys, edits, history, cache>>

(* The final rename fails: the error is returned and nothing is put back.  *)
FailCommit ==
  /\ pc = "commit"
  /\ Return
  /\ UNCHANGED <<file, sess, keys, edits, history, cache>>

-----------------------------------------------------------------------------
(* What Rekey, RekeyV2 and the passphrase command do after the write.      *)
(* Mutant: the backup of before the rotation is left.                      *)
KeepBak ==
  /\ Goto("dropbak", "reopen")
  /\ UNCHANGED <<file, sess, keys, edits, history, cache>>

DropBak ==
  /\ Goto("dropbak", "reopen")
  /\ file' = [file EXCEPT !["bak"] = Absent]
  /\ UNCHANGED <<sess, keys, edits, history, cache>>

FailDropBak ==
  /\ pc = "dropbak" /\ file["bak"] # Absent
  /\ Return
  /\ UNCHANGED <<file, sess, keys, edits, history, cache>>

(* Mutants: only the key, or nothing, is refreshed after a rotation.       *)
ReopenKeyOnly ==
  /\ pc = "reopen" /\ Readable("main")
  /\ sess' = [sess EXCEPT !.key = file["main"].hdr.wrap]
  /\ current' = op.img.hdr.pw /\ unsynced' = FALSE
  /\ Return
  /\ UNCHANGED <<file, keys, edits, acked, cache>>

ReopenForgotten ==
  /\ pc = "reopen" /\ Readable("main")
  /\ current' = op.img.hdr.pw /\ unsynced' = FALSE
  /\ Return
  /\ UNCHANGED <<file, sess, keys, edits, acked, cache>>

(* A v1 rotation has made the cached key useless: it is removed, if the    *)
(* keychain lets it.                                                       *)
OnRekey(prevVersion) ==
  cache' \in IF prevVersion = 1 THEN {cache, None} ELSE {cache}

(* The file is opened again with the new passphrase: the session takes its *)
(* header and key, and keeps its own notes.                                *)
Reopen ==
  /\ pc = "reopen" /\ Readable("main")
  /\ file["main"].hdr.pw = op.img.hdr.pw
  /\ file["main"].hdr.wrap = file["main"].seal
  /\ sess' = [sess EXCEPT !.hdr = file["main"].hdr, !.key = file["main"].hdr.wrap]
  /\ current' = op.img.hdr.pw
  /\ unsynced' = FALSE
  /\ OnRekey(sess.hdr.ver)
  /\ Return
  /\ UNCHANGED <<file, keys, edits, acked>>

FailReopen ==
  /\ pc = "reopen"
  /\ Return
  /\ UNCHANGED <<file, sess, keys, edits, history, cache>>

(* kpot init shows the recovery key, or withdraws the vault it made: the   *)
(* errors of the two removals are ignored.                                 *)
DisplayRecoveryOnce ==
  /\ pc = "display"
  /\ Return
  /\ acked' = op.img.data
  /\ UNCHANGED <<file, sess, keys, edits, current, unsynced, cache>>

RollbackInit ==
  /\ pc = "display"
  /\ \E gone \in SUBSET {"main", "bak"} :
       file' = [slot \in Slot |-> IF slot \in gone THEN Absent ELSE file[slot]]
  /\ Return
  /\ UNCHANGED <<sess, keys, edits, history, cache>>

-----------------------------------------------------------------------------
(* The process dies, by a signal or with the machine.                      *)
Crash ==
  /\ pc # "idle" \/ sess # None
  /\ Return
  /\ sess' = None /\ unsynced' = FALSE
  /\ UNCHANGED <<file, keys, edits, acked, current, cache>>

(* The user renames the backup to the vault's name (by hand, outside kpot). *)
RestoreBackup ==
  /\ pc = "idle" /\ file["main"] = Absent /\ Readable("bak")
  /\ file' = [file EXCEPT !["main"] = file["bak"], !["bak"] = Absent]
  /\ UNCHANGED <<sess, op, pc, keys, edits, history, cache>>

AtomicWrite == \/ OpenTmp \/ FillTmp \/ UnlinkBak \/ Shelve
               \/ CommitSave \/ CommitRekey \/ CommitCreate
               \/ FailBeforeCommit \/ FailCommit

AfterRekey == DropBak \/ FailDropBak \/ Reopen \/ FailReopen

AfterCreate == DisplayRecoveryOnce \/ RollbackInit

Command == \/ \E pw \in Passphrase :
                CreateV2WithRecovery(pw) \/ Open(pw) \/ Rekey(pw) \/ RekeyV2(pw)
           \/ OpenWithKey \/ OpenWithRecovery \/ ForgetCachedKey \/ Close \/ Save

Next == Command \/ AtomicWrite \/ AfterRekey \/ AfterCreate \/ Crash \/ RestoreBackup

Spec == Init /\ [][Next]_vars

-----------------------------------------------------------------------------
(* Type invariant.                                                         *)
TypeOK ==
  /\ file \in [Slot -> Image \cup {Absent, Torn}]
  /\ sess \in Session \cup {None}
  /\ op \in Operation \cup {None}
  /\ pc \in Stage
  /\ keys \in Nat /\ edits \in Nat
  /\ acked \in Nat \cup {None}
  /\ current \in Passphrase \cup {None}
  /\ unsynced \in BOOLEAN
  /\ cache \in Nat \cup {None}

(* Whatever call fails and wherever the process dies, what a user was told *)
(* is stored can be got back from <file> or <file>.bak, in a version no    *)
(* older than the one acknowledged, and through every wrap of its header   *)
(* (README "A crash at any step leaves at least one decryptable file").    *)
AckedIsRecoverable ==
  acked # None =>
    /\ Recoverable \in Image
    /\ Opens(Recoverable)
    /\ Recoverable.data >= acked

(* Every whole image kpot ever leaves under any of the three names opens   *)
(* by its passphrase and, on v2, by the recovery key: a rotation never     *)
(* strands the other wrap, a save never mixes one key with another header. *)
EveryImageOpens ==
  \A slot \in Slot : Readable(slot) => Opens(file[slot])

(* Once a rotation was reported done, no file of the vault - the backup    *)
(* and a leftover temporary file included - opens with an older            *)
(* passphrase, across saves, failures and crashes, until the next rotation *)
(* or init begins (io.go: the .bak "would otherwise hold OLD-passphrase    *)
(* ciphertext").                                                           *)
OldPassphraseRetired ==
  current # None =>
    \A slot \in Slot : Readable(slot) => file[slot].hdr.pw = current

(* Between commands an open session holds the header that is on disk,      *)
(* unless a rotation took effect and then reported an error.  Were it to   *)
(* hold another, its next save would undo a rotation.                      *)
SessionHoldsDiskHeader ==
  (sess # None /\ pc = "idle" /\ ~unsynced) =>
    Recoverable \in Image /\ sess.hdr = Recoverable.hdr

(* The backup is a previous generation: of the same vault, it is never the *)
(* more recent of the two files.                                           *)
BackupIsNotNewer ==
  (Readable("main") /\ Readable("bak")
     /\ file["main"].hdr.rec = file["bak"].hdr.rec)
  => file["bak"].data <= file["main"].data

(* A key in the keychain that opens the vault goes on opening it, whatever *)
(* is saved, rotated, lost in a crash or put back from the backup: only a  *)
(* v1 rotation, or an init over a vault that a crash left as a backup,     *)
(* makes it useless (main.go:838: "v2 rekey preserves the DEK, so the      *)
(* cached entry is still valid").                                          *)
CacheOpens == Recoverable \in Image /\ cache = Recoverable.seal

CachedKeyKeepsOpening ==
  [][ CacheOpens /\ cache' = cache =>
        \/ CacheOpens'
        \/ CommitRekey /\ sess.hdr.ver = 1
        \/ CommitCreate ]_vars

(* VaultFile implements VaultSpec: a crash, a failed call or a reader at   *)
(* any point sees the register before or after a write, never in between.  *)
Register == INSTANCE VaultSpec WITH
  Id <- LAMBDA img : img.hdr.rec,
  Revision <- LAMBDA img : img.data,
  NoVault <- Absent,
  vault <- Recoverable,
  aside <- (file["main"] = Absent /\ file["bak"] # Absent),
  confirmed <- (pc # "display")

ImplementsRegister == Register!Spec

(* Claimed, and not so: a vault that exists is never lost to kpot itself.  *)
(* No step removes the last file of a vault that opens, other than the one *)
(* an init that is being withdrawn has just made.                          *)
Holds(id, slots, dir) ==
  \E slot \in slots : dir[slot] \in Image /\ dir[slot].hdr.rec = id

LastFileIsKept ==
  [][\A slot \in {"main", "bak"} :
       (Readable(slot) /\ ~(pc = "display" /\ slot = "main"))
       => Holds(file[slot].hdr.rec, {"main", "bak"}, file')]_vars

(* Claimed, and not so: after a rotation the session's saves use the new   *)
(* passphrase.  A save leaves the vault under the passphrase it had.       *)
SaveKeepsPassphrase ==
  [][CommitSave => file'["main"].hdr.pw = Recoverable.hdr.pw]_vars
=============================================================================
