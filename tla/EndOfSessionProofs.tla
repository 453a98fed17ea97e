------------------------ MODULE EndOfSessionProofs ------------------------
(***************************************************************************)
(* That somebody watches over a secret on the clipboard, what may be left  *)
(* of it at exit, and who may wipe the key, proved for any set of secrets, *)
(* copies and saves.                                                       *)
(***************************************************************************)
EXTENDS EndOfSession, TLAPS

-----------------------------------------------------------------------------
(* A command that copies has a secret in hand, and room for its job.  From *)
(* its write to its registration no other secret gets onto the clipboard.  *)
CopyInHand ==
  /\ main \in {"write", "register"} => copying \in Secret /\ copies < MaxCopies
  /\ main = "register" /\ board \in Secret => board = copying

(* The clipboard, its jobs and the manager.                                *)
Clipboard ==
  /\ board \in {"empty", "other"} \cup Secret
  /\ expected \in [Job -> Secret \cup {None}]
  /\ job \in [Job -> {"unborn", "waiting", "take", "paste", "clear", "done"}]
  /\ stopped \subseteq Job
  /\ current \in Job \cup {None}
  /\ copies \in 0..MaxCopies
  /\ copying \in Secret \cup {None}

(* The session: Close runs in the command loop's goroutine only after the  *)
(* loop is done, and a save that commits has sealed something.             *)
Session ==
  /\ main \in {"prompt", "write", "register", "marshal", "seal", "commit", "done"}
  /\ closing \in [Closer -> {"no", "take", "paste", "clear", "wipe", "drop", "exit", "exited"}]
  /\ taken \in [Closer -> Job \cup {None}]
  /\ timer \in {"off", "armed", "fired"}
  /\ key \in {"live", "wiped", "dropped"}
  /\ sealed \in {"live", "wiped", None} /\ stored \in {"live", "wiped"}
  /\ (main = "commit" => sealed \in {"live", "wiped"})
  /\ (main # "done" => closing["main"] = "no")
  /\ saves \in Nat /\ failed \in BOOLEAN

IInv == Clipboard /\ Session /\ CopyInHand /\ SecretIsWatched

(* The parts are made of the type invariant's conjuncts.                   *)
LEMMA Types == IInv => TypeOK
BY DEF IInv, Clipboard, Session, TypeOK

(* A session begins with nothing of its own on the clipboard.              *)
LEMMA Initially == Init => IInv
<1> SUFFICES ASSUME Init
             PROVE  IInv
  OBVIOUS
<1>1. Clipboard
  BY EndAssumption DEF Init, Clipboard
<1>2. Session
  BY DEF Init, Session, Closer
<1>3. CopyInHand /\ SecretIsWatched
  BY EndAssumption DEF Init, CopyInHand, SecretIsWatched
<1>. QED
  BY <1>1, <1>2, <1>3 DEF IInv

-----------------------------------------------------------------------------
(* From here on the tuples of variables stand for their variables.         *)
USE DEF jobVars, closeVars, saveVars

(* A command has a secret in hand.                                         *)
LEMMA CopyStep ==
  ASSUME IInv, NEW v \in Secret, Copy(v)
  PROVE  IInv'
<1>1. Clipboard'
  BY DEF IInv, Clipboard, Copy
<1>2. Session'
  BY DEF IInv, Session, ResetIdle, Copy, Goto
<1>3. CopyInHand'
  BY DEF IInv, CopyInHand, Copy, Goto
<1>4. SecretIsWatched'
  BY DEF IInv, SecretIsWatched, Watches, Copy, Goto
<1>. QED
  BY <1>1, <1>2, <1>3, <1>4 DEF IInv

(* The secret it writes is the one it is about to register.                *)
LEMMA WriteSecretStep ==
  ASSUME IInv, WriteSecret
  PROVE  IInv'
<1>1. Clipboard'
  BY DEF IInv, Clipboard, CopyInHand, WriteSecret, Goto
<1>2. Session'
  BY DEF IInv, Session, WriteSecret, Goto
<1>3. CopyInHand'
  BY DEF IInv, CopyInHand, WriteSecret, Goto
<1>4. SecretIsWatched'
  BY DEF IInv, SecretIsWatched, WriteSecret, Goto
<1>. QED
  BY <1>1, <1>2, <1>3, <1>4 DEF IInv

(* A write that fails leaves the clipboard alone.                          *)
LEMMA FailCopyStep ==
  ASSUME IInv, FailCopy
  PROVE  IInv'
<1>1. Clipboard'
  BY DEF IInv, Clipboard, FailCopy
<1>2. Session'
  BY DEF IInv, Session, FailCopy, Goto
<1>3. CopyInHand'
  BY DEF IInv, CopyInHand, FailCopy, Goto
<1>4. SecretIsWatched'
  BY DEF IInv, SecretIsWatched, Watches, FailCopy, Goto
<1>. QED
  BY <1>1, <1>2, <1>3, <1>4 DEF IInv

(* The new job watches the clipboard in place of the one before it.        *)
LEMMA RegisterStep ==
  ASSUME IInv, NEW n \in {"prompt", "marshal"}, Register(n)
  PROVE  IInv'
<1>1. Clipboard'
  <2>1. copies + 1 \in Job /\ copies + 1 \in 0..MaxCopies /\ copying \in Secret
    BY EndAssumption DEF IInv, Clipboard, CopyInHand, Register, Goto, Job
  <2>. QED
    BY <2>1 DEF IInv, Clipboard, Register
<1>2. Session'
  BY DEF IInv, Session, CountSave, Register, Goto
<1>3. CopyInHand'
  BY DEF IInv, CopyInHand, Register, Goto
<1>4. SecretIsWatched'
  BY EndAssumption DEF IInv, SecretIsWatched, Watches, CopyInHand, Clipboard, Register,
     Goto, Job
<1>. QED
  BY <1>1, <1>2, <1>3, <1>4 DEF IInv

(* Edits and saves do not touch the clipboard.                             *)
LEMMA EditStep ==
  ASSUME IInv, Edit
  PROVE  IInv'
<1>1. Clipboard'
  BY DEF IInv, Clipboard, Edit
<1>2. Session'
  BY DEF IInv, Session, ResetIdle, CountSave, Edit, Goto
<1>3. CopyInHand'
  BY DEF IInv, CopyInHand, Edit, Goto
<1>4. SecretIsWatched'
  BY DEF IInv, SecretIsWatched, Watches, Edit, Goto
<1>. QED
  BY <1>1, <1>2, <1>3, <1>4 DEF IInv

(* A save reads the notes ...                                              *)
LEMMA MarshalStep ==
  ASSUME IInv, Marshal
  PROVE  IInv'
<1>1. Clipboard'
  BY DEF IInv, Clipboard, Marshal
<1>2. Session'
  BY DEF IInv, Session, Marshal, Goto
<1>3. CopyInHand'
  BY DEF IInv, CopyInHand, Marshal, Goto
<1>4. SecretIsWatched'
  BY DEF IInv, SecretIsWatched, Watches, Marshal, Goto
<1>. QED
  BY <1>1, <1>2, <1>3, <1>4 DEF IInv

(* ... seals them, with a key or not at all ...                            *)
LEMMA SealStep ==
  ASSUME IInv, Seal
  PROVE  IInv'
<1>1. Clipboard'
  BY DEF IInv, Clipboard, Seal
<1>2. Session'
  BY DEF IInv, Session, Seal, Goto
<1>3. CopyInHand'
  BY DEF IInv, CopyInHand, Seal, Goto
<1>4. SecretIsWatched'
  BY DEF IInv, SecretIsWatched, Watches, Seal, Goto
<1>. QED
  BY <1>1, <1>2, <1>3, <1>4 DEF IInv

(* ... and writes them.                                                    *)
LEMMA CommitSaveStep ==
  ASSUME IInv, CommitSave
  PROVE  IInv'
<1>1. Clipboard'
  BY DEF IInv, Clipboard, CommitSave
<1>2. Session'
  BY DEF IInv, Session, CommitSave, Goto
<1>3. CopyInHand'
  BY DEF IInv, CopyInHand, CommitSave, Goto
<1>4. SecretIsWatched'
  BY DEF IInv, SecretIsWatched, Watches, CommitSave, Goto
<1>. QED
  BY <1>1, <1>2, <1>3, <1>4 DEF IInv

(* The command loop ends once, and only then Close runs there.             *)
LEMMA QuitStep ==
  ASSUME IInv, Quit
  PROVE  IInv'
<1>1. Clipboard'
  BY DEF IInv, Clipboard, Quit
<1>2. Session'
  BY DEF IInv, Session, Quit, Goto
<1>3. CopyInHand'
  BY DEF IInv, CopyInHand, Quit, Goto
<1>4. SecretIsWatched'
  BY DEF IInv, SecretIsWatched, Watches, Quit, Goto, Session
<1>. QED
  BY <1>1, <1>2, <1>3, <1>4 DEF IInv

(* A panic ends it too.                                                    *)
LEMMA PanicStep ==
  ASSUME IInv, NEW m \in {"prompt", "marshal"}, Panic(m)
  PROVE  IInv'
<1>1. Clipboard'
  BY DEF IInv, Clipboard, Panic
<1>2. Session'
  BY DEF IInv, Session, Panic, Goto
<1>3. CopyInHand'
  BY DEF IInv, CopyInHand, Panic, Goto
<1>4. SecretIsWatched'
  BY DEF IInv, SecretIsWatched, Watches, Panic, Goto, Session
<1>. QED
  BY <1>1, <1>2, <1>3, <1>4 DEF IInv

(* The idle timer starts a Close elsewhere.                                *)
LEMMA IdleFireStep ==
  ASSUME IInv, IdleFire
  PROVE  IInv'
<1>1. Clipboard'
  BY DEF IInv, Clipboard, IdleFire
<1>2. Session'
  BY DEF IInv, Session, IdleFire, Closer
<1>3. CopyInHand'
  BY DEF IInv, CopyInHand, IdleFire
<1>4. SecretIsWatched'
  BY DEF IInv, SecretIsWatched, Watches, IdleFire
<1>. QED
  BY <1>1, <1>2, <1>3, <1>4 DEF IInv

(* What the user copies is no secret of kpot's.                            *)
LEMMA CopyElsewhereStep ==
  ASSUME IInv, CopyElsewhere
  PROVE  IInv'
<1>1. Clipboard'
  BY DEF IInv, Clipboard, CopyElsewhere
<1>2. Session'
  BY DEF IInv, Session, CopyElsewhere
<1>3. CopyInHand'
  BY EndAssumption DEF IInv, CopyInHand, CopyElsewhere
<1>4. SecretIsWatched'
  BY EndAssumption DEF IInv, SecretIsWatched, CopyElsewhere
<1>. QED
  BY <1>1, <1>2, <1>3, <1>4 DEF IInv

(* A Close takes the pending job over, and what the job watches ...        *)
LEMMA CloseTakeStep ==
  ASSUME IInv, NEW c \in Closer, CloseTake(c)
  PROVE  IInv'
<1>1. Clipboard'
  BY DEF IInv, Clipboard, CloseTake
<1>2. Session'
  BY DEF IInv, Clipboard, Session, CloserAt, CloseTake
<1>3. CopyInHand'
  BY DEF IInv, CopyInHand, CloseTake
<1>4. SecretIsWatched'
  BY DEF IInv, SecretIsWatched, Watches, CloserAt, CloseTake, Session
<1>. QED
  BY <1>1, <1>2, <1>3, <1>4 DEF IInv

(* ... passes on only what is another's ...                                *)
LEMMA ClosePasteStep ==
  ASSUME IInv, NEW c \in Closer, ClosePaste(c)
  PROVE  IInv'
<1>1. Clipboard'
  BY DEF IInv, Clipboard, ClosePaste
<1>2. Session'
  BY DEF IInv, Session, CloserAt, ClosePaste, Closer
<1>3. CopyInHand'
  BY DEF IInv, CopyInHand, ClosePaste
<1>4. SecretIsWatched'
  BY DEF IInv, SecretIsWatched, Watches, CloserAt, ClosePaste, Session
<1>. QED
  BY <1>1, <1>2, <1>3, <1>4 DEF IInv

(* ... clears the clipboard or fails ...                                   *)
LEMMA CloseClearStep ==
  ASSUME IInv, NEW c \in Closer, CloseClear(c)
  PROVE  IInv'
<1>1. Clipboard'
  BY DEF IInv, Clipboard, CloseClear
<1>2. Session'
  BY DEF IInv, Session, CloserAt, CloseClear, Closer
<1>3. CopyInHand'
  BY EndAssumption DEF IInv, CopyInHand, CloseClear
<1>4. SecretIsWatched'
  BY EndAssumption DEF IInv, SecretIsWatched, CloseClear
<1>. QED
  BY <1>1, <1>2, <1>3, <1>4 DEF IInv

(* ... wipes the key ...                                                   *)
LEMMA CloseWipeStep ==
  ASSUME IInv, NEW c \in Closer, CloseWipe(c)
  PROVE  IInv'
<1>1. Clipboard'
  BY DEF IInv, Clipboard, CloseWipe
<1>2. Session'
  BY DEF IInv, Session, CloserAt, CloseWipe
<1>3. CopyInHand'
  BY DEF IInv, CopyInHand, CloseWipe
<1>4. SecretIsWatched'
  BY DEF IInv, SecretIsWatched, Watches, CloserAt, CloseWipe
<1>. QED
  BY <1>1, <1>2, <1>3, <1>4 DEF IInv

(* ... forgets it ...                                                      *)
LEMMA CloseDropStep ==
  ASSUME IInv, NEW c \in Closer, CloseDrop(c)
  PROVE  IInv'
<1>1. Clipboard'
  BY DEF IInv, Clipboard, CloseDrop
<1>2. Session'
  BY DEF IInv, Session, CloserAt, CloseDrop
<1>3. CopyInHand'
  BY DEF IInv, CopyInHand, CloseDrop
<1>4. SecretIsWatched'
  BY DEF IInv, SecretIsWatched, Watches, CloserAt, CloseDrop
<1>. QED
  BY <1>1, <1>2, <1>3, <1>4 DEF IInv

(* ... and ends the process.                                               *)
LEMMA ExitStep ==
  ASSUME IInv, NEW c \in Closer, Exit(c)
  PROVE  IInv'
<1>1. Clipboard'
  BY DEF IInv, Clipboard, Exit
<1>2. Session'
  BY DEF IInv, Session, CloserAt, Exit
<1>3. CopyInHand'
  BY DEF IInv, CopyInHand, Exit
<1>4. SecretIsWatched'
  BY DEF IInv, SecretIsWatched, Watches, CloserAt, Exit
<1>. QED
  BY <1>1, <1>2, <1>3, <1>4 DEF IInv

(* A replaced job that stops watches nothing ...                           *)
LEMMA JobStopStep ==
  ASSUME IInv, NEW j \in Job, JobStop(j)
  PROVE  IInv'
<1>1. Clipboard'
  BY DEF IInv, Clipboard, JobAt, JobStop
<1>2. Session'
  BY DEF IInv, Session, JobStop
<1>3. CopyInHand'
  BY DEF IInv, CopyInHand, JobStop
<1>4. SecretIsWatched'
  BY DEF IInv, SecretIsWatched, Watches, JobAt, JobStop
<1>. QED
  BY <1>1, <1>2, <1>3, <1>4 DEF IInv

(* ... nor does one whose time has come, before it takes over.             *)
LEMMA JobFireStep ==
  ASSUME IInv, NEW j \in Job, JobFire(j)
  PROVE  IInv'
<1>1. Clipboard'
  BY DEF IInv, Clipboard, JobAt, JobFire
<1>2. Session'
  BY DEF IInv, Session, JobFire
<1>3. CopyInHand'
  BY DEF IInv, CopyInHand, JobFire
<1>4. SecretIsWatched'
  BY DEF IInv, SecretIsWatched, Watches, JobAt, JobFire
<1>. QED
  BY <1>1, <1>2, <1>3, <1>4 DEF IInv

(* A job takes over only as the pending one ...                            *)
LEMMA JobTakeStep ==
  ASSUME IInv, NEW j \in Job, JobTake(j)
  PROVE  IInv'
<1>1. Clipboard'
  BY DEF IInv, Clipboard, JobAt, JobTake
<1>2. Session'
  BY DEF IInv, Session, JobTake
<1>3. CopyInHand'
  BY DEF IInv, CopyInHand, JobTake
<1>4. SecretIsWatched'
  BY DEF IInv, SecretIsWatched, Watches, Clipboard, JobAt, JobTake
<1>. QED
  BY <1>1, <1>2, <1>3, <1>4 DEF IInv

(* ... passes on only what is another's ...                                *)
LEMMA JobPasteStep ==
  ASSUME IInv, NEW j \in Job, JobPaste(j)
  PROVE  IInv'
<1>1. Clipboard'
  BY DEF IInv, Clipboard, JobAt, JobPaste
<1>2. Session'
  BY DEF IInv, Session, JobPaste
<1>3. CopyInHand'
  BY DEF IInv, CopyInHand, JobPaste
<1>4. SecretIsWatched'
  BY DEF IInv, SecretIsWatched, Watches, Clipboard, JobAt, JobPaste
<1>. QED
  BY <1>1, <1>2, <1>3, <1>4 DEF IInv

(* ... and clears the clipboard or fails.                                  *)
LEMMA JobClearStep ==
  ASSUME IInv, NEW j \in Job, JobClear(j)
  PROVE  IInv'
<1>1. Clipboard'
  BY DEF IInv, Clipboard, JobAt, JobClear
<1>2. Session'
  BY DEF IInv, Session, JobClear
<1>3. CopyInHand'
  BY EndAssumption DEF IInv, CopyInHand, JobClear
<1>4. SecretIsWatched'
  BY EndAssumption DEF IInv, SecretIsWatched, JobClear
<1>. QED
  BY <1>1, <1>2, <1>3, <1>4 DEF IInv
-----------------------------------------------------------------------------
(* Every step keeps the invariant.                                         *)
LEMMA InvStep == IInv /\ [Next]_vars => IInv'
<1> SUFFICES ASSUME IInv, [Next]_vars
             PROVE  IInv'
  OBVIOUS
<1>1. CASE Command
  BY <1>1, CopyStep, WriteSecretStep, FailCopyStep, RegisterStep, EditStep, MarshalStep,
     SealStep, CommitSaveStep, QuitStep, PanicStep DEF Command
<1>2. CASE IdleFire \/ CopyElsewhere
  BY <1>2, IdleFireStep, CopyElsewhereStep
<1>3. ASSUME NEW c \in Closer, Close(c)
      PROVE  IInv'
  BY <1>3, CloseTakeStep, ClosePasteStep, CloseClearStep, CloseWipeStep, CloseDropStep,
     ExitStep DEF Close
<1>4. ASSUME NEW j \in Job, Clear(j)
      PROVE  IInv'
  BY <1>4, JobStopStep, JobFireStep, JobTakeStep, JobPasteStep, JobClearStep DEF Clear
<1>5. CASE UNCHANGED vars
  BY <1>5 DEF IInv, Clipboard, Session, CopyInHand, SecretIsWatched, Watches, Exited,
     vars
<1>. QED
  BY <1>1, <1>2, <1>3, <1>4, <1>5 DEF Next

LEMMA Invariance == Spec => []IInv
BY Initially, InvStep, PTL DEF Spec

(* The variables keep their types.                                         *)
THEOREM TypeCorrect == Spec => []TypeOK
BY Invariance, Types, PTL

(* A secret that kpot put on the clipboard always has a job, a Close or a  *)
(* command left that will see to it, unless a clipboard tool failed.       *)
THEOREM NoSecretIsUnwatched == Spec => []SecretIsWatched
<1>1. IInv => SecretIsWatched
  BY DEF IInv
<1>. QED
  BY <1>1, Invariance, PTL

-----------------------------------------------------------------------------
(* How sessions end.  A secret stays watched when the process exits, which *)
(* stops everything but the user.  Once the loop's own Close has taken the *)
(* pending job over there is no other, and the key is wiped only by a      *)
(* Close that is past its clearing; a command still at work meets a wiped  *)
(* key, or seals a save with one, only through the idle lock's.            *)
Watched ==
  (board \in Secret /\ ~failed) =>
    \/ Watches(current)
    \/ main = "register" /\ copying = board
    \/ \E j \in Job : job[j] = "clear" \/ (job[j] = "paste" /\ Watches(j))
    \/ \E c \in Closer :
         closing[c] = "clear" \/ (closing[c] = "paste" /\ Watches(taken[c]))

Wiping == {"drop", "exit", "exited"}

Endings ==
  /\ closing["main"] \in {"paste", "clear", "wipe"} \cup Wiping => current = None
  /\ key # "live" => \E c \in Closer : closing[c] \in Wiping
  /\ stored = "wiped" \/ (main = "commit" /\ sealed = "wiped") => closing["idle"] \in Wiping

EInv == IInv /\ Watched /\ Endings

LEMMA NothingEnded == Init => Watched /\ Endings
BY EndAssumption DEF Init, Watched, Endings

(* A command that copies, and one that edits, is at work: the loop's own   *)
(* Close has not begun.                                                    *)
LEMMA CopyEnds ==
  ASSUME EInv, NEW v \in Secret, Copy(v)
  PROVE  Watched' /\ Endings'
<1>1. Watched'
  BY EndAssumption DEF EInv, IInv, Watched, Watches, Clipboard, Session, Goto, Copy
<1>2. Endings'
  BY DEF EInv, IInv, Endings, Wiping, Session, Closer, Goto, Copy
<1>. QED
  BY <1>1, <1>2

LEMMA WriteSecretEnds ==
  ASSUME EInv, WriteSecret
  PROVE  Watched' /\ Endings'
<1>1. Watched'
  BY EndAssumption DEF EInv, IInv, Watched, Watches, Clipboard, Session, Goto,
     WriteSecret
<1>2. Endings'
  BY DEF EInv, IInv, Endings, Wiping, Session, Closer, Goto, WriteSecret
<1>. QED
  BY <1>1, <1>2

LEMMA FailCopyEnds ==
  ASSUME EInv, FailCopy
  PROVE  Watched' /\ Endings'
<1>1. Watched'
  BY EndAssumption DEF EInv, IInv, Watched, Watches, Clipboard, Session, Goto, FailCopy
<1>2. Endings'
  BY DEF EInv, IInv, Endings, Wiping, Session, Closer, Goto, FailCopy
<1>. QED
  BY <1>1, <1>2

LEMMA RegisterEnds ==
  ASSUME EInv, NEW n \in {"prompt", "marshal"}, Register(n)
  PROVE  Watched' /\ Endings'
<1>1. Watched'
  BY EndAssumption DEF EInv, IInv, Watched, Watches, Clipboard, Session, Goto, Job,
     CopyInHand, Register
<1>2. Endings'
  BY DEF EInv, IInv, Endings, Wiping, Session, Closer, Goto, Register
<1>. QED
  BY <1>1, <1>2

LEMMA EditEnds ==
  ASSUME EInv, Edit
  PROVE  Watched' /\ Endings'
<1>1. Watched'
  BY EndAssumption DEF EInv, IInv, Watched, Watches, Clipboard, Session, Goto, Edit
<1>2. Endings'
  BY DEF EInv, IInv, Endings, Wiping, Session, Closer, Goto, Edit
<1>. QED
  BY <1>1, <1>2

LEMMA MarshalEnds ==
  ASSUME EInv, Marshal
  PROVE  Watched' /\ Endings'
<1>1. Watched'
  BY EndAssumption DEF EInv, IInv, Watched, Watches, Clipboard, Session, Goto, Marshal
<1>2. Endings'
  BY DEF EInv, IInv, Endings, Wiping, Session, Closer, Goto, Marshal
<1>. QED
  BY <1>1, <1>2

(* A save sealed with a wiped key is sealed under the idle lock, and so is *)
(* what it commits.                                                        *)
LEMMA SealEnds ==
  ASSUME EInv, Seal
  PROVE  Watched' /\ Endings'
<1>1. Watched'
  BY EndAssumption DEF EInv, IInv, Watched, Watches, Clipboard, Session, Goto, Seal
<1>2. Endings'
  BY DEF EInv, IInv, Endings, Wiping, Session, Closer, Goto, Seal
<1>. QED
  BY <1>1, <1>2

LEMMA CommitSaveEnds ==
  ASSUME EInv, CommitSave
  PROVE  Watched' /\ Endings'
<1>1. Watched'
  BY EndAssumption DEF EInv, IInv, Watched, Watches, Clipboard, Session, Goto,
     CommitSave
<1>2. Endings'
  BY DEF EInv, IInv, Endings, Wiping, Session, Closer, Goto, CommitSave
<1>. QED
  BY <1>1, <1>2

(* The loop's own Close begins after the last command ...                  *)
LEMMA QuitEnds ==
  ASSUME EInv, Quit
  PROVE  Watched' /\ Endings'
<1>1. Watched'
  BY EndAssumption DEF EInv, IInv, Watched, Watches, Clipboard, Session, Goto, Quit
<1>2. Endings'
  BY DEF EInv, IInv, Endings, Wiping, Session, Closer, Goto, Quit
<1>. QED
  BY <1>1, <1>2

LEMMA PanicEnds ==
  ASSUME EInv, NEW from \in {"prompt", "marshal"}, Panic(from)
  PROVE  Watched' /\ Endings'
<1>1. Watched'
  BY EndAssumption DEF EInv, IInv, Watched, Watches, Clipboard, Session, Goto, Panic
<1>2. Endings'
  BY DEF EInv, IInv, Endings, Wiping, Session, Closer, Goto, Panic
<1>. QED
  BY <1>1, <1>2

(* ... and the idle lock's at any moment.                                  *)
LEMMA IdleFireEnds ==
  ASSUME EInv, IdleFire
  PROVE  Watched' /\ Endings'
<1>1. Watched'
  BY EndAssumption DEF EInv, IInv, Watched, Watches, Clipboard, Session, IdleFire
<1>2. Endings'
  BY DEF EInv, IInv, Endings, Wiping, Session, Closer, IdleFire
<1>. QED
  BY <1>1, <1>2

LEMMA CopyElsewhereEnds ==
  ASSUME EInv, CopyElsewhere
  PROVE  Watched' /\ Endings'
<1>1. Watched'
  BY EndAssumption DEF EInv, IInv, Watched, Watches, Clipboard, Session, CopyElsewhere
<1>2. Endings'
  BY DEF EInv, IInv, Endings, Wiping, Session, Closer, CopyElsewhere
<1>. QED
  BY <1>1, <1>2

(* A Close leaves no pending job behind, and wipes the key at its end.     *)
LEMMA CloseTakeEnds ==
  ASSUME EInv, NEW c \in Closer, CloseTake(c)
  PROVE  Watched' /\ Endings'
<1>1. Watched'
  BY EndAssumption DEF EInv, IInv, Watched, Watches, Clipboard, Session, CloserAt,
     CloseTake
<1>2. Endings'
  BY DEF EInv, IInv, Endings, Wiping, Session, Closer, CloserAt, CloseTake
<1>. QED
  BY <1>1, <1>2

LEMMA ClosePasteEnds ==
  ASSUME EInv, NEW c \in Closer, ClosePaste(c)
  PROVE  Watched' /\ Endings'
<1>1. Watched'
  BY EndAssumption DEF EInv, IInv, Watched, Watches, Clipboard, Session, CloserAt,
     ClosePaste
<1>2. Endings'
  BY DEF EInv, IInv, Endings, Wiping, Session, Closer, CloserAt, ClosePaste
<1>. QED
  BY <1>1, <1>2

LEMMA CloseClearEnds ==
  ASSUME EInv, NEW c \in Closer, CloseClear(c)
  PROVE  Watched' /\ Endings'
<1>1. Watched'
  BY EndAssumption DEF EInv, IInv, Watched, Watches, Clipboard, Session, CloserAt,
     CloseClear
<1>2. Endings'
  BY DEF EInv, IInv, Endings, Wiping, Session, Closer, CloserAt, CloseClear
<1>. QED
  BY <1>1, <1>2

LEMMA CloseWipeEnds ==
  ASSUME EInv, NEW c \in Closer, CloseWipe(c)
  PROVE  Watched' /\ Endings'
<1>1. Watched'
  BY EndAssumption DEF EInv, IInv, Watched, Watches, Clipboard, Session, CloserAt,
     CloseWipe
<1>2. Endings'
  BY DEF EInv, IInv, Endings, Wiping, Session, Closer, CloserAt, CloseWipe
<1>. QED
  BY <1>1, <1>2

LEMMA CloseDropEnds ==
  ASSUME EInv, NEW c \in Closer, CloseDrop(c)
  PROVE  Watched' /\ Endings'
<1>1. Watched'
  BY EndAssumption DEF EInv, IInv, Watched, Watches, Clipboard, Session, CloserAt,
     CloseDrop
<1>2. Endings'
  BY DEF EInv, IInv, Endings, Wiping, Session, Closer, CloserAt, CloseDrop
<1>. QED
  BY <1>1, <1>2

LEMMA ExitEnds ==
  ASSUME EInv, NEW c \in Closer, Exit(c)
  PROVE  Watched' /\ Endings'
<1>1. Watched'
  BY EndAssumption DEF EInv, IInv, Watched, Watches, Clipboard, Session, CloserAt, Exit
<1>2. Endings'
  BY DEF EInv, IInv, Endings, Wiping, Session, Closer, CloserAt, Exit
<1>. QED
  BY <1>1, <1>2

(* The clear jobs only ever take the pending job away.                     *)
LEMMA JobStopEnds ==
  ASSUME EInv, NEW j \in Job, JobStop(j)
  PROVE  Watched' /\ Endings'
<1>1. Watched'
  BY EndAssumption DEF EInv, IInv, Watched, Watches, Clipboard, Session, JobAt, JobStop
<1>2. Endings'
  BY DEF EInv, IInv, Endings, Wiping, Session, Closer, JobAt, JobStop
<1>. QED
  BY <1>1, <1>2

LEMMA JobFireEnds ==
  ASSUME EInv, NEW j \in Job, JobFire(j)
  PROVE  Watched' /\ Endings'
<1>1. Watched'
  BY EndAssumption DEF EInv, IInv, Watched, Watches, Clipboard, Session, JobAt, JobFire
<1>2. Endings'
  BY DEF EInv, IInv, Endings, Wiping, Session, Closer, JobAt, JobFire
<1>. QED
  BY <1>1, <1>2

LEMMA JobTakeEnds ==
  ASSUME EInv, NEW j \in Job, JobTake(j)
  PROVE  Watched' /\ Endings'
<1>1. Watched'
  BY EndAssumption DEF EInv, IInv, Watched, Watches, Clipboard, Session, JobAt, JobTake
<1>2. Endings'
  BY DEF EInv, IInv, Endings, Wiping, Session, Closer, JobAt, JobTake
<1>. QED
  BY <1>1, <1>2

LEMMA JobPasteEnds ==
  ASSUME EInv, NEW j \in Job, JobPaste(j)
  PROVE  Watched' /\ Endings'
<1>1. Watched'
  BY EndAssumption DEF EInv, IInv, Watched, Watches, Clipboard, Session, JobAt, JobPaste
<1>2. Endings'
  BY DEF EInv, IInv, Endings, Wiping, Session, Closer, JobAt, JobPaste
<1>. QED
  BY <1>1, <1>2

LEMMA JobClearEnds ==
  ASSUME EInv, NEW j \in Job, JobClear(j)
  PROVE  Watched' /\ Endings'
<1>1. Watched'
  BY EndAssumption DEF EInv, IInv, Watched, Watches, Clipboard, Session, JobAt, JobClear
<1>2. Endings'
  BY DEF EInv, IInv, Endings, Wiping, Session, Closer, JobAt, JobClear
<1>. QED
  BY <1>1, <1>2

-----------------------------------------------------------------------------
LEMMA EndStep == EInv /\ [Next]_vars => Watched' /\ Endings'
<1> SUFFICES ASSUME EInv, [Next]_vars
             PROVE  Watched' /\ Endings'
  OBVIOUS
<1>1. CASE Command
  BY <1>1, CopyEnds, WriteSecretEnds, FailCopyEnds, RegisterEnds, EditEnds, MarshalEnds,
     SealEnds, CommitSaveEnds, QuitEnds, PanicEnds DEF Command
<1>2. CASE IdleFire \/ CopyElsewhere
  BY <1>2, IdleFireEnds, CopyElsewhereEnds
<1>3. ASSUME NEW c \in Closer, Close(c)
      PROVE  Watched' /\ Endings'
  BY <1>3, CloseTakeEnds, ClosePasteEnds, CloseClearEnds, CloseWipeEnds, CloseDropEnds,
     ExitEnds DEF Close
<1>4. ASSUME NEW j \in Job, Clear(j)
      PROVE  Watched' /\ Endings'
  BY <1>4, JobStopEnds, JobFireEnds, JobTakeEnds, JobPasteEnds, JobClearEnds DEF Clear
<1>5. CASE UNCHANGED vars
  BY <1>5 DEF EInv, Watched, Watches, Endings, vars
<1>. QED
  BY <1>1, <1>2, <1>3, <1>4, <1>5 DEF Next

LEMMA EInvariance == Spec => []EInv
<1>1. Init => EInv
  BY Initially, NothingEnded DEF EInv
<1>2. EInv /\ [Next]_vars => EInv'
  BY InvStep, EndStep DEF EInv
<1>. QED
  BY <1>1, <1>2, PTL DEF Spec

(* What a session ended by its user leaves on the clipboard is being       *)
(* cleared by a goroutine that came before its Close.                      *)
THEOREM UserExitsClear == Spec => []LastSecretIsBeingCleared
<1>1. EInv => LastSecretIsBeingCleared
  BY DEF EInv, IInv, Watched, Watches, Endings, Wiping, Closer, Session,
     LastSecretIsBeingCleared
<1>. QED
  BY <1>1, EInvariance, PTL

(* A command meets a wiped key, and a save is sealed with one, only if the *)
(* idle lock wiped it.                                                     *)
THEOREM OnlyIdleLockWipes == Spec => []OnlyIdleLockWipesUnderCommands
<1>1. EInv => OnlyIdleLockWipesUnderCommands
  BY DEF EInv, IInv, Endings, Wiping, Closer, Session, OnlyIdleLockWipesUnderCommands
<1>. QED
  BY <1>1, EInvariance, PTL
=============================================================================
