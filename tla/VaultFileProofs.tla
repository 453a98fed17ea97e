-------------------------- MODULE VaultFileProofs --------------------------
(***************************************************************************)
(* What VaultFile's runs check on a small instance, proved for every set   *)
(* of passphrases and every bound: the invariants follow from IInv, and    *)
(* each step of VaultFile is a step, or a stutter, of VaultSpec's register. *)
(***************************************************************************)
EXTENDS VaultFile, TLAPS

-----------------------------------------------------------------------------
(* The inductive invariant, by what it relates.                            *)

(* Only the temporary name can hold a partial image.                       *)
WholeFiles == file["main"] # Torn /\ file["bak"] # Torn

(* Headers are well formed, and no recovery secret is newer than keys.     *)
GoodHeader(h) == h.rec <= keys /\ (h.ver = 1 => h.rec = 0)

(* What every image on disk satisfies.                                     *)
GoodImage(img) ==
  Opens(img) /\ GoodHeader(img.hdr) /\ img.seal <= keys /\ img.data <= edits

FilesGood == \A slot \in Slot : Readable(slot) => GoodImage(file[slot])

(* An open session has its vault on disk, at most as recent as its memory. *)
SessionGood ==
  sess # None =>
    /\ GoodHeader(sess.hdr)
    /\ sess.hdr.wrap = sess.key
    /\ sess.hdr.ver = 2 => sess.hdr.rec = sess.key
    /\ sess.key <= keys
    /\ sess.data <= edits
    /\ Recoverable \in Image
    /\ Recoverable.data <= sess.data
    /\ Recoverable.hdr.ver = sess.hdr.ver
    /\ Recoverable.hdr.rec = sess.hdr.rec
    /\ unsynced \/ sess.hdr = Recoverable.hdr

(* Which operation runs at which stage, and whether a session runs it.     *)
Control ==
  /\ (pc = "idle") <=> (op = None)
  /\ op # None =>
       /\ (op.kind = "create") <=> (sess = None)
       /\ pc \in {"dropbak", "reopen"} => op.kind = "rekey"
       /\ pc = "display" => op.kind = "create"

Typed == TypeOK /\ Control

(* What the operation will write.                                          *)
OperationGood ==
  op # None =>
    /\ GoodImage(op.img)
    /\ op.kind = "save" => op.img.hdr = sess.hdr
    /\ op.kind # "create" =>
         /\ op.img.hdr.ver = sess.hdr.ver
         /\ op.img.hdr.rec = sess.hdr.rec
         /\ Recoverable.data <= op.img.data
         /\ op.img.data <= sess.data

(* What the earlier calls of atomicWrite have left for the later ones.     *)
StageGood ==
  /\ pc \in {"unlink", "shelve", "commit"} => file["tmp"] = op.img
  /\ pc \in {"unlink", "shelve"} => file["main"] # Absent
  /\ pc \in {"dropbak", "reopen", "display"} =>
       file["main"] = op.img /\ file["tmp"] = Absent
  /\ pc = "reopen" => file["bak"] = Absent
  /\ pc = "display" => acked = None
  /\ (op # None /\ op.kind = "create") =>
       /\ pc \in {"open", "fill", "commit"} => file["main"] = Absent
       /\ pc \in {"open", "fill", "commit", "display"}
       /\ Readable("bak") => file["bak"].hdr.rec < op.img.hdr.rec

(* The rotation that was acknowledged holds for memory as for the disk.    *)
RotationGood ==
  current # None =>
    /\ sess # None => sess.hdr.pw = current
    /\ op # None => op.img.hdr.pw = current

AckGood == acked # None => Recoverable \in Image /\ acked <= Recoverable.data

(* A cached key is an old one: not one that an operation has just drawn,   *)
(* nor one that a rotation the session missed has left on disk.            *)
CacheGood ==
  /\ cache # None => cache <= keys
  /\ (op # None /\ (op.kind = "create" \/ (op.kind = "rekey" /\ sess.hdr.ver = 1)))
       => cache # op.img.seal
  /\ sess # None => sess.key = Recoverable.seal \/ cache # Recoverable.seal

IInv == /\ Typed /\ WholeFiles /\ FilesGood /\ SessionGood /\ OperationGood
        /\ StageGood /\ RotationGood /\ AckGood /\ CacheGood
        /\ OldPassphraseRetired /\ BackupIsNotNewer

-----------------------------------------------------------------------------
LEMMA TypeInit == Init => Typed
<1> SUFFICES ASSUME Init PROVE Typed
  OBVIOUS
<1>1. PICK pw \in Passphrase, main \in {"missing", "v1"} :
        file = [slot \in Slot |->
                  IF slot = "main" /\ main = "v1"
                  THEN [hdr |-> V1Header(pw, 1), seal |-> 1, data |-> 0]
                  ELSE Absent]
  BY DEF Init
<1>2. V1Header(pw, 1) \in Header
  BY DEF V1Header, Header
<1>3. file \in [Slot -> Image \cup {Absent, Torn}]
  BY <1>1, <1>2 DEF Image
<1>. QED
  BY <1>3 DEF Init, Typed, TypeOK, Control, Stage

LEMMA TypeStep == Typed /\ [Next]_vars => Typed'
<1> SUFFICES ASSUME Typed, [Next]_vars PROVE Typed'
  OBVIOUS
<1> USE ConstantsAssumption
    DEF Typed, TypeOK, Control, Slot, Header, Image, Session, Operation, Stage, history
<1>1. ASSUME NEW pw \in Passphrase, CreateV2WithRecovery(pw) PROVE Typed'
  BY <1>1 DEF CreateV2WithRecovery, Begin, V2Header
<1>2. ASSUME NEW pw \in Passphrase, Open(pw) PROVE Typed'
  BY <1>2 DEF Open, maybeCacheKey, Enter, Readable
<1>3. CASE OpenWithRecovery
  BY <1>3 DEF OpenWithRecovery, Enter, Readable
<1>4. CASE Close
  BY <1>4 DEF Close
<1>5. CASE Save
  BY <1>5 DEF Save, Begin
<1>6. ASSUME NEW pw \in Passphrase, Rekey(pw) PROVE Typed'
  BY <1>6 DEF Rekey, Begin, V1Header
<1>7. ASSUME NEW pw \in Passphrase, RekeyV2(pw) PROVE Typed'
  BY <1>7 DEF RekeyV2, Begin, Readable
<1>8. CASE OpenTmp
  BY <1>8 DEF OpenTmp, Goto
<1>9. CASE FillTmp
  BY <1>9 DEF FillTmp, Goto
<1>10. CASE UnlinkBak
  BY <1>10 DEF UnlinkBak, Goto
<1>11. CASE Shelve
  BY <1>11 DEF Shelve, Goto
<1>12. CASE CommitSave
  BY <1>12 DEF CommitSave, Commit, Return
<1>13. CASE CommitRekey
  BY <1>13 DEF CommitRekey, Commit
<1>14. CASE CommitCreate
  BY <1>14 DEF CommitCreate, Commit
<1>15. CASE FailBeforeCommit
  BY <1>15 DEF FailBeforeCommit, Return
<1>16. CASE FailCommit
  BY <1>16 DEF FailCommit, Return
<1>17. CASE DropBak
  BY <1>17 DEF DropBak, Goto
<1>18. CASE FailDropBak
  BY <1>18 DEF FailDropBak, Return
<1>19. CASE Reopen
  BY <1>19 DEF Reopen, OnRekey, Return, Readable
<1>20. CASE FailReopen
  BY <1>20 DEF FailReopen, Return
<1>21. CASE DisplayRecoveryOnce
  BY <1>21 DEF DisplayRecoveryOnce, Return
<1>22. CASE RollbackInit
  BY <1>22 DEF RollbackInit, Return
<1>23. CASE Crash
  BY <1>23 DEF Crash, Return
<1>24. CASE RestoreBackup
  BY <1>24 DEF RestoreBackup
<1>25. CASE OpenWithKey
  BY <1>25 DEF OpenWithKey, Enter, Readable
<1>26. CASE ForgetCachedKey
  BY <1>26 DEF ForgetCachedKey
<1>27. CASE UNCHANGED vars
  BY <1>27 DEF vars
<1>. QED
  BY <1>1, <1>2, <1>3, <1>4, <1>5, <1>6, <1>7, <1>8, <1>9, <1>10, <1>11,
     <1>12, <1>13, <1>14, <1>15, <1>16, <1>17, <1>18, <1>19, <1>20, <1>21,
     <1>22, <1>23, <1>24, <1>25, <1>26, <1>27
  DEF Next, Command, AtomicWrite, AfterRekey, AfterCreate

LEMMA Initially == Init => IInv
<1> SUFFICES ASSUME Init PROVE IInv
  OBVIOUS
<1>1. PICK pw \in Passphrase, main \in {"missing", "v1"} :
        file = [slot \in Slot |->
                  IF slot = "main" /\ main = "v1"
                  THEN [hdr |-> V1Header(pw, 1), seal |-> 1, data |-> 0]
                  ELSE Absent]
  BY DEF Init
<1>2. \A slot \in {"tmp", "bak"} : file[slot] = Absent
  BY <1>1 DEF Slot
<1>3. file["main"] = Absent \/ file["main"] = [hdr |-> V1Header(pw, 1), seal |-> 1, data |-> 0]
  BY <1>1 DEF Slot
<1>4. Typed
  BY TypeInit
<1>. QED
  BY <1>2, <1>3, <1>4, ConstantsAssumption
  DEF Init, IInv, WholeFiles, FilesGood, SessionGood, OperationGood,
      StageGood, RotationGood, AckGood, CacheGood, OldPassphraseRetired, BackupIsNotNewer,
      Slot, Header, Image, GoodImage, GoodHeader, Opens, Readable, V1Header

LEMMA InvStep == IInv /\ [Next]_vars => IInv'
<1> SUFFICES ASSUME IInv, [Next]_vars PROVE IInv'
  OBVIOUS
<1>0. Typed /\ Typed'
  BY TypeStep DEF IInv
<1> USE ConstantsAssumption, <1>0
    DEF IInv, Typed, TypeOK, Control, WholeFiles, FilesGood, SessionGood, OperationGood,
        StageGood, RotationGood, AckGood, CacheGood, OldPassphraseRetired, BackupIsNotNewer,
        GoodImage, GoodHeader, Opens, Readable, Recoverable,
        Slot, Header, Image, Session, Operation, Stage, history
<1>1. ASSUME NEW pw \in Passphrase, CreateV2WithRecovery(pw) PROVE IInv'
  BY <1>1, SMTT(40) DEF CreateV2WithRecovery, Begin, V2Header
<1>2. ASSUME NEW pw \in Passphrase, Open(pw) PROVE IInv'
  BY <1>2, SMTT(40) DEF Open, maybeCacheKey, Enter
<1>3. CASE OpenWithRecovery
  BY <1>3, SMTT(40) DEF OpenWithRecovery, Enter
<1>4. CASE Close
  BY <1>4, SMTT(40) DEF Close
<1>5. CASE Save
  BY <1>5, SMTT(40) DEF Save, Begin
<1>6. ASSUME NEW pw \in Passphrase, Rekey(pw) PROVE IInv'
  BY <1>6, SMTT(40) DEF Rekey, Begin, V1Header
<1>7. ASSUME NEW pw \in Passphrase, RekeyV2(pw) PROVE IInv'
  BY <1>7, SMTT(40) DEF RekeyV2, Begin
<1>8. CASE OpenTmp
  BY <1>8, SMTT(40) DEF OpenTmp, Goto
<1>9. CASE FillTmp
  BY <1>9, SMTT(40) DEF FillTmp, Goto
<1>10. CASE UnlinkBak
  BY <1>10, SMTT(40) DEF UnlinkBak, Goto
<1>11. CASE Shelve
  BY <1>11, SMTT(40) DEF Shelve, Goto
<1>12. CASE CommitSave
  BY <1>12, SMTT(40) DEF CommitSave, Commit, Return
<1>13. CASE CommitRekey
  BY <1>13, SMTT(40) DEF CommitRekey, Commit
<1>14. CASE CommitCreate
  BY <1>14, SMTT(40) DEF CommitCreate, Commit
<1>15. CASE FailBeforeCommit
  BY <1>15, SMTT(40) DEF FailBeforeCommit, Return
<1>16. CASE FailCommit
  BY <1>16, SMTT(40) DEF FailCommit, Return
<1>17. CASE DropBak
  BY <1>17, SMTT(40) DEF DropBak, Goto
<1>18. CASE FailDropBak
  BY <1>18, SMTT(40) DEF FailDropBak, Return
<1>19. CASE Reopen
  BY <1>19, SMTT(40) DEF Reopen, OnRekey, Return
<1>20. CASE FailReopen
  BY <1>20, SMTT(40) DEF FailReopen, Return
<1>21. CASE DisplayRecoveryOnce
  BY <1>21, SMTT(40) DEF DisplayRecoveryOnce, Return
<1>22. CASE RollbackInit
  BY <1>22, SMTT(40) DEF RollbackInit, Return
<1>23. CASE Crash
  BY <1>23, SMTT(40) DEF Crash, Return
<1>24. CASE RestoreBackup
  BY <1>24, SMTT(40) DEF RestoreBackup
<1>25. CASE OpenWithKey
  BY <1>25, SMTT(40) DEF OpenWithKey, Enter
<1>26. CASE ForgetCachedKey
  BY <1>26, SMTT(40) DEF ForgetCachedKey
<1>27. CASE UNCHANGED vars
  BY <1>27 DEF vars
<1>. QED
  BY <1>1, <1>2, <1>3, <1>4, <1>5, <1>6, <1>7, <1>8, <1>9, <1>10, <1>11,
     <1>12, <1>13, <1>14, <1>15, <1>16, <1>17, <1>18, <1>19, <1>20, <1>21,
     <1>22, <1>23, <1>24, <1>25, <1>26, <1>27
  DEF Next, Command, AtomicWrite, AfterRekey, AfterCreate

THEOREM Invariance == Spec => []IInv
  BY Initially, InvStep, PTL DEF Spec

-----------------------------------------------------------------------------
(* The variables keep their types, for any set of passphrases and however  *)
(* many edits, keys, failures and crashes there are.                       *)
THEOREM TypeCorrect == Spec => []TypeOK
<1>1. IInv => TypeOK
  BY DEF IInv, Typed
<1>. QED
  BY <1>1, Invariance, PTL

(* What was acknowledged can always be got back: atomicWrite never has the *)
(* only good copy of the notes under the temporary name.                   *)
THEOREM AcknowledgedSurvives == Spec => []AckedIsRecoverable
<1>1. IInv => AckedIsRecoverable
  BY ConstantsAssumption
  DEF IInv, Typed, TypeOK, WholeFiles, FilesGood, AckGood, AckedIsRecoverable,
      Recoverable, Readable, GoodImage, Image, Slot
<1>. QED
  BY <1>1, Invariance, PTL

(* No operation of io.go leaves an image one of whose wraps leads nowhere. *)
THEOREM ImagesOpen == Spec => []EveryImageOpens
<1>1. IInv => EveryImageOpens
  BY DEF IInv, FilesGood, GoodImage, EveryImageOpens
<1>. QED
  BY <1>1, Invariance, PTL

(* After an acknowledged rotation no file opens with an older passphrase.  *)
THEOREM RotationRetires == Spec => []OldPassphraseRetired
<1>1. IInv => OldPassphraseRetired
  BY DEF IInv
<1>. QED
  BY <1>1, Invariance, PTL

(* A session whose rotations all returned without an error never saves     *)
(* under a header other than the one on disk.                              *)
THEOREM SessionIsCurrent == Spec => []SessionHoldsDiskHeader
<1>1. IInv => SessionHoldsDiskHeader
  BY DEF IInv, SessionGood, SessionHoldsDiskHeader
<1>. QED
  BY <1>1, Invariance, PTL

(* The .bak is never ahead of the vault it belongs to.                     *)
THEOREM BackupOrder == Spec => []BackupIsNotNewer
<1>1. IInv => BackupIsNotNewer
  BY DEF IInv
<1>. QED
  BY <1>1, Invariance, PTL

(* A key of the keychain that opens the vault is made useless by a v1      *)
(* rotation or by an init over a set-aside vault, and by nothing else.     *)
LEMMA CacheStep ==
  IInv /\ IInv' /\ [Next]_vars =>
    [ CacheOpens /\ cache' = cache =>
        \/ CacheOpens'
        \/ CommitRekey /\ sess.hdr.ver = 1
        \/ CommitCreate ]_vars
<1> SUFFICES ASSUME IInv, IInv', [Next]_vars, CacheOpens, cache' = cache,
                    ~ CommitCreate, ~ (CommitRekey /\ sess.hdr.ver = 1)
             PROVE  CacheOpens'
  BY DEF vars
<1> USE ConstantsAssumption
    DEF IInv, Typed, TypeOK, Control, WholeFiles, SessionGood, OperationGood, FilesGood,
        StageGood, CacheGood, GoodImage, Opens, Readable, Recoverable, CacheOpens,
        Slot, Header, Image, Session, Operation, history
<1>1. CASE file' = file
  BY <1>1
<1>2. ASSUME Command PROVE file' = file
  BY <1>2 DEF Command, CreateV2WithRecovery, Begin, Open, OpenWithKey, OpenWithRecovery,
              Enter, ForgetCachedKey, Close, Save, Rekey, RekeyV2
<1>3. CASE OpenTmp
  BY <1>3 DEF OpenTmp, Goto
<1>4. CASE FillTmp
  BY <1>4 DEF FillTmp, Goto
<1>5. CASE UnlinkBak
  BY <1>5 DEF UnlinkBak, Goto
<1>6. CASE Shelve
  BY <1>6 DEF Shelve, Goto
<1>7. CASE CommitSave
  BY <1>7, SMTT(40) DEF CommitSave, Commit, Return
<1>8. CASE CommitRekey
  BY <1>8, SMTT(40) DEF CommitRekey, Commit
<1>9. CASE FailBeforeCommit
  BY <1>9 DEF FailBeforeCommit, Return
<1>10. ASSUME FailCommit \/ FailDropBak \/ Reopen \/ FailReopen \/ DisplayRecoveryOnce \/ Crash
       PROVE  file' = file
  BY <1>10 DEF FailCommit, FailDropBak, Reopen, FailReopen, DisplayRecoveryOnce, Crash
<1>11. CASE DropBak
  BY <1>11 DEF DropBak, Goto
<1>12. CASE RollbackInit
  BY <1>12 DEF RollbackInit, Return
<1>13. CASE RestoreBackup
  BY <1>13 DEF RestoreBackup
<1>14. ASSUME UNCHANGED vars PROVE file' = file
  BY <1>14 DEF vars
<1>. QED
  BY <1>1, <1>2, <1>3, <1>4, <1>5, <1>6, <1>7, <1>8, <1>9, <1>10, <1>11, <1>12, <1>13, <1>14
  DEF Next, AtomicWrite, AfterRekey, AfterCreate

(* The cached DEK of a v2 vault stays valid through every rotation, save,  *)
(* failure and crash, as OnRekey assumes (main.go:837-842).                *)
THEOREM CachedKeyIsKept == Spec => CachedKeyKeepsOpening
<1>1. Spec => [][ CacheOpens /\ cache' = cache =>
                    \/ CacheOpens'
                    \/ CommitRekey /\ sess.hdr.ver = 1
                    \/ CommitCreate ]_vars
  BY CacheStep, Invariance, PTL DEF Spec
<1>. QED
  BY <1>1 DEF CachedKeyKeepsOpening

-----------------------------------------------------------------------------
(* The register.  A write is seen at its final rename, a withdrawn init at *)
(* its removals; every other step of VaultFile leaves the register as it   *)
(* was or moves it aside and back.                                         *)
LEMMA RegisterInit == Init => Register!Init
<1> SUFFICES ASSUME Init PROVE Register!Init
  OBVIOUS
<1>1. IInv
  BY Initially
<1>2. file["bak"] = Absent
  BY DEF Init, Slot
<1>. QED
  BY <1>1, <1>2, ConstantsAssumption
  DEF Register!Init, Init, IInv, WholeFiles, Typed, TypeOK, Recoverable, Slot

LEMMA RegisterStep == IInv /\ IInv' /\ [Next]_vars => [Register!Next]_(Register!vars)
<1> SUFFICES ASSUME IInv, IInv', [Next]_vars
             PROVE  [Register!Next]_(Register!vars)
  OBVIOUS
<1> USE ConstantsAssumption
    DEF IInv, Typed, TypeOK, Control, WholeFiles, FilesGood, SessionGood, OperationGood,
        StageGood, Readable, Recoverable, Slot, Header, Image, Session, Operation, history,
        Register!vars, Register!Next
<1>1. ASSUME NEW pw \in Passphrase, CreateV2WithRecovery(pw)
       PROVE  [Register!Next]_(Register!vars)
  BY <1>1, SMTT(40) DEF CreateV2WithRecovery, Begin, V2Header
<1>2. ASSUME NEW pw \in Passphrase, Open(pw)
       PROVE  [Register!Next]_(Register!vars)
  BY <1>2, SMTT(40) DEF Open, maybeCacheKey, Enter
<1>3. CASE OpenWithRecovery
  BY <1>3, SMTT(40) DEF OpenWithRecovery, Enter
<1>4. CASE Close
  BY <1>4, SMTT(40) DEF Close
<1>5. CASE Save
  BY <1>5, SMTT(40) DEF Save, Begin
<1>6. ASSUME NEW pw \in Passphrase, Rekey(pw)
       PROVE  [Register!Next]_(Register!vars)
  BY <1>6, SMTT(40) DEF Rekey, Begin, V1Header
<1>7. ASSUME NEW pw \in Passphrase, RekeyV2(pw)
       PROVE  [Register!Next]_(Register!vars)
  BY <1>7, SMTT(40) DEF RekeyV2, Begin
<1>8. CASE OpenTmp
  BY <1>8, SMTT(40) DEF OpenTmp, Goto
<1>9. CASE FillTmp
  BY <1>9, SMTT(40) DEF FillTmp, Goto
<1>10. CASE UnlinkBak
  BY <1>10, SMTT(40) DEF UnlinkBak, Goto
<1>11. CASE Shelve
  BY <1>11, SMTT(40) DEF Shelve, Goto, Register!SetAside
<1>12. CASE CommitSave
  BY <1>12, SMTT(40) DEF CommitSave, Commit, Return, Register!Replace
<1>13. CASE CommitRekey
  BY <1>13, SMTT(40) DEF CommitRekey, Commit, Register!Replace
<1>14. CASE CommitCreate
  BY <1>14, SMTT(40) DEF CommitCreate, Commit, Register!Found
<1>15. CASE FailBeforeCommit
  BY <1>15, SMTT(40) DEF FailBeforeCommit, Return
<1>16. CASE FailCommit
  BY <1>16, SMTT(40) DEF FailCommit, Return
<1>17. CASE DropBak
  BY <1>17, SMTT(40) DEF DropBak, Goto
<1>18. CASE FailDropBak
  BY <1>18, SMTT(40) DEF FailDropBak, Return
<1>19. CASE Reopen
  BY <1>19, SMTT(40) DEF Reopen, OnRekey, Return
<1>20. CASE FailReopen
  BY <1>20, SMTT(40) DEF FailReopen, Return
<1>21. CASE DisplayRecoveryOnce
  BY <1>21, SMTT(40) DEF DisplayRecoveryOnce, Return, Register!Confirm
<1>22. CASE RollbackInit
  BY <1>22, SMTT(40) DEF RollbackInit, Return, Register!Withdraw
<1>23. CASE Crash
  BY <1>23, SMTT(40) DEF Crash, Return, Register!Confirm
<1>24. CASE RestoreBackup
  BY <1>24, SMTT(40) DEF RestoreBackup, Register!PutBack
<1>25. CASE OpenWithKey
  BY <1>25, SMTT(40) DEF OpenWithKey, Enter
<1>26. CASE ForgetCachedKey
  BY <1>26, SMTT(40) DEF ForgetCachedKey
<1>27. CASE UNCHANGED vars
  BY <1>27 DEF vars
<1>. QED
  BY <1>1, <1>2, <1>3, <1>4, <1>5, <1>6, <1>7, <1>8, <1>9, <1>10, <1>11,
     <1>12, <1>13, <1>14, <1>15, <1>16, <1>17, <1>18, <1>19, <1>20, <1>21,
     <1>22, <1>23, <1>24, <1>25, <1>26, <1>27
  DEF Next, Command, AtomicWrite, AfterRekey, AfterCreate

(* VaultFile implements the register: a crash, an error return or a reader *)
(* at any point sees the vault as it was before a write or after it.       *)
THEOREM Refinement == Spec => ImplementsRegister
<1>1. Spec => Register!Init /\ [][Register!Next]_(Register!vars)
  BY RegisterInit, RegisterStep, Invariance, PTL DEF Spec
<1>. QED
  BY <1>1 DEF ImplementsRegister, Register!Spec
=============================================================================
