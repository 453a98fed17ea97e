--------------------------- MODULE EndOfSession ---------------------------
(***************************************************************************)
(* How a REPL session and what it put on the clipboard come to an end: the *)
(* command loop, the idle timer, whose callback closes the session and     *)
(* exits the process from a goroutine of its own, and the clipboard        *)
(* manager's clear jobs.  The system clipboard belongs to the user, who    *)
(* may copy something else at any moment; each call of a clipboard tool is *)
(* a step, and may fail.                                                   *)
(*                                                                         *)
(* Rotations of the passphrase are left to VaultFile.                      *)
(***************************************************************************)
EXTENDS Naturals

CONSTANTS Secret,      \* note bodies and fields that commands copy
          None,
          MaxCopies,   \* bound: copies made by commands
          MaxSaves     \* bound: saves begun by commands

ASSUME EndAssumption ==
  /\ MaxCopies \in Nat /\ MaxSaves \in Nat
  /\ None \notin Secret \cup Nat
  /\ {"empty", "other"} \cap Secret = {}

Job == 1..MaxCopies
Closer == {"main", "idle"}     \* goroutines that run Session.Close

VARIABLES board,      \* the clipboard: empty, a secret, or another program's
          expected,   \* Job -> what it expects to find there
          job,        \* Job -> its goroutine's next step
          stopped,    \* jobs whose done channel is closed
          current,    \* Manager.current
          copies,     \* jobs made so far
          main,       \* the command loop: its next step
          copying,    \* the value a command is copying
          closing,    \* Closer -> next step of Session.Close
          taken,      \* Closer -> the job it took over
          timer,      \* the idle timer: off, armed or fired
          key,        \* s.Key and s.Vault: live, wiped or dropped
          sealed,     \* what a save is about to write
          stored,     \* how the vault on disk is sealed
          saves,      \* saves begun so far
          failed      \* a clear failed in the clipboard tool (history)

jobVars == <<expected, job, stopped, copies>>
closeVars == <<closing, taken>>
saveVars == <<sealed, stored, saves>>
vars == <<board, jobVars, current, main, copying, closeVars, timer, key, saveVars, failed>>

Exited == \E c \in Closer : closing[c] = "exited"

Init ==
  /\ board \in {"empty", "other"}
  /\ expected = [j \in Job |-> None]
  /\ job = [j \in Job |-> "unborn"]
  /\ stopped = {} /\ current = None /\ copies = 0
  /\ main = "prompt" /\ copying = None
  /\ closing = [c \in Closer |-> "no"]
  /\ taken = [c \in Closer |-> None]
  /\ timer \in {"off", "armed"}
  /\ key = "live" /\ sealed = None /\ stored = "live" /\ saves = 0
  /\ failed = FALSE

Goto(from, to) == ~Exited /\ main = from /\ main' = to

(* A line is entered: the idle timer starts over, even one that has fired. *)
ResetIdle == timer' = IF timer = "off" THEN "off" ELSE "armed"

CountSave(next) == /\ next = "marshal" => saves < MaxSaves
                   /\ saves' = IF next = "marshal" THEN saves + 1 ELSE saves

-----------------------------------------------------------------------------
(* Manager.Copy: the clipboard is written before the job is registered.    *)
Copy(v) ==
  /\ Goto("prompt", "write") /\ key # "dropped" /\ copies < MaxCopies
  /\ copying' = v
  /\ ResetIdle
  /\ UNCHANGED <<board, jobVars, current, closeVars, key, saveVars, failed>>

WriteSecret ==
  /\ Goto("write", "register")
  /\ board' = copying
  /\ UNCHANGED <<jobVars, current, copying, closeVars, timer, key, saveVars, failed>>

FailCopy ==
  /\ Goto("write", "prompt")
  /\ copying' = None
  /\ UNCHANGED <<board, jobVars, current, closeVars, timer, key, saveVars, failed>>

(* Mutant: the previous job is taken for done.                             *)
RegisterFirstOnly(next) ==
  /\ Goto("register", next)
  /\ copies' = copies + 1
  /\ expected' = [expected EXCEPT ![copies + 1] = copying]
  /\ job' = [job EXCEPT ![copies + 1] = "waiting"]
  /\ current' = IF current = None THEN copies + 1 ELSE current
  /\ copying' = None
  /\ CountSave(next)
  /\ UNCHANGED <<board, stopped, closeVars, timer, key, sealed, stored, failed>>

(* The job is registered; some commands then save the recent list.         *)
Register(next) ==
  /\ Goto("register", next)
  /\ copies' = copies + 1
  /\ expected' = [expected EXCEPT ![copies + 1] = copying]
  /\ job' = [job EXCEPT ![copies + 1] = "waiting"]
  /\ stopped' = stopped \cup ({current} \ {None})
  /\ current' = copies + 1
  /\ copying' = None
  /\ CountSave(next)
  /\ UNCHANGED <<board, closeVars, timer, key, sealed, stored, failed>>

(* A command changes the notes; persist() begins.                          *)
Edit ==
  /\ Goto("prompt", "marshal") /\ key # "dropped"
  /\ CountSave("marshal")
  /\ ResetIdle
  /\ UNCHANGED <<board, jobVars, current, copying, closeVars, key, sealed, stored, failed>>

(* Vault.ToJSON.                                                           *)
Marshal ==
  /\ Goto("marshal", "seal") /\ key # "dropped"
  /\ UNCHANGED <<board, jobVars, current, copying, closeVars, timer, key, saveVars, failed>>

(* A command, or ToJSON, on a nil vault panics: the deferred Close runs.   *)
Panic(from) ==
  /\ Goto(from, "done") /\ key = "dropped"
  /\ timer' = "off"
  /\ closing' = [closing EXCEPT !["main"] = "take"]
  /\ UNCHANGED <<board, jobVars, current, copying, taken, key, saveVars, failed>>

(* Mutant: the error of Seal is dropped.                                   *)
SealUnchecked ==
  /\ Goto("seal", "commit")
  /\ sealed' = IF key = "dropped" THEN None ELSE key
  /\ UNCHANGED <<board, jobVars, current, copying, closeVars, timer, key, stored, saves, failed>>

(* crypto.Seal takes any key of the right length; a nil one is an error.   *)
(* One that is wiped while it is read counts as wiped.                     *)
Seal ==
  /\ \/ Goto("seal", "commit") /\ key # "dropped" /\ sealed' = key
     \/ Goto("seal", "prompt") /\ key = "dropped" /\ UNCHANGED sealed
  /\ UNCHANGED <<board, jobVars, current, copying, closeVars, timer, key, stored, saves, failed>>

(* Mutant: the key is wiped with the plaintext of the save.                *)
CommitSaveWipesKey ==
  /\ Goto("commit", "prompt")
  /\ stored' = sealed /\ sealed' = None
  /\ key' = IF key = "live" THEN "wiped" ELSE key
  /\ UNCHANGED <<board, jobVars, current, copying, closeVars, timer, saves, failed>>

CommitSave ==
  /\ Goto("commit", "prompt")
  /\ stored' = sealed /\ sealed' = None
  /\ UNCHANGED <<board, jobVars, current, copying, closeVars, timer, key, saves, failed>>

(* exit, quit or end of input: the timer is stopped, not a callback that   *)
(* has started, and the deferred Close runs.                               *)
Quit ==
  /\ Goto("prompt", "done")
  /\ timer' = "off"
  /\ closing' = [closing EXCEPT !["main"] = "take"]
  /\ UNCHANGED <<board, jobVars, current, copying, taken, key, saveVars, failed>>

-----------------------------------------------------------------------------
(* idleFire.  A timer that was armed again fires a whole period later,     *)
(* when the first callback has ended the process.                          *)
IdleFire ==
  /\ ~Exited /\ timer = "armed" /\ closing["idle"] = "no"
  /\ timer' = "fired"
  /\ closing' = [closing EXCEPT !["idle"] = "take"]
  /\ UNCHANGED <<board, jobVars, current, main, copying, taken, key, saveVars, failed>>

(* Session.Close, with Manager.Close inside, in either goroutine.          *)
CloserAt(c, from, to) ==
  /\ ~Exited /\ closing[c] = from
  /\ closing' = [closing EXCEPT ![c] = to]

(* Mutant: the pending job is stopped, and its clearing with it.           *)
CloseTakeOnly(c) ==
  /\ CloserAt(c, "take", "wipe")
  /\ taken' = [taken EXCEPT ![c] = current]
  /\ stopped' = stopped \cup ({current} \ {None})
  /\ current' = None
  /\ UNCHANGED <<board, expected, job, copies, main, copying, timer, key, saveVars, failed>>

CloseTake(c) ==
  /\ CloserAt(c, "take", IF current = None THEN "wipe" ELSE "paste")
  /\ taken' = [taken EXCEPT ![c] = current]
  /\ stopped' = stopped \cup ({current} \ {None})
  /\ current' = None
  /\ UNCHANGED <<board, expected, job, copies, main, copying, timer, key, saveVars, failed>>

(* What Paste returns decides; if it fails the clipboard is cleared.       *)
ClosePaste(c) ==
  /\ \/ CloserAt(c, "paste", "clear")
     \/ CloserAt(c, "paste", "wipe") /\ board # expected[taken[c]]
  /\ UNCHANGED <<board, jobVars, current, main, copying, taken, timer, key, saveVars, failed>>

CloseClear(c) ==
  /\ CloserAt(c, "clear", "wipe")
  /\ \/ board' = "empty" /\ UNCHANGED failed
     \/ failed' = TRUE /\ UNCHANGED board
  /\ UNCHANGED <<jobVars, current, main, copying, taken, timer, key, saveVars>>

CloseWipe(c) ==
  /\ CloserAt(c, "wipe", "drop")
  /\ key' = IF key = "live" THEN "wiped" ELSE key
  /\ UNCHANGED <<board, jobVars, current, main, copying, taken, timer, saveVars, failed>>

CloseDrop(c) ==
  /\ CloserAt(c, "drop", "exit")
  /\ key' = "dropped"
  /\ UNCHANGED <<board, jobVars, current, main, copying, taken, timer, saveVars, failed>>

(* os.Exit in the idle callback; main returns in the other.                *)
Exit(c) ==
  /\ CloserAt(c, "exit", "exited")
  /\ UNCHANGED <<board, jobVars, current, main, copying, taken, timer, key, saveVars, failed>>

-----------------------------------------------------------------------------
(* Manager.run waits for its timer or its done channel; when both are      *)
(* ready, select takes either.                                             *)
JobAt(j, from, to) ==
  /\ ~Exited /\ job[j] = from
  /\ job' = [job EXCEPT ![j] = to]

JobStop(j) ==
  /\ JobAt(j, "waiting", "done") /\ j \in stopped
  /\ UNCHANGED <<board, expected, stopped, copies, current, main, copying, closeVars,
                 timer, key, saveVars, failed>>

JobFire(j) ==
  /\ JobAt(j, "waiting", "take")
  /\ UNCHANGED <<board, expected, stopped, copies, current, main, copying, closeVars,
                 timer, key, saveVars, failed>>

(* Mutant: a job does not ask whether it has been replaced.                *)
JobTakeAny(j) ==
  /\ JobAt(j, "take", "paste")
  /\ current' = None
  /\ UNCHANGED <<board, expected, stopped, copies, main, copying, closeVars,
                 timer, key, saveVars, failed>>

(* Manager.tryClear: a job that was replaced leaves the clipboard alone.   *)
JobTake(j) ==
  /\ JobAt(j, "take", IF current = j THEN "paste" ELSE "done")
  /\ current' = IF current = j THEN None ELSE current
  /\ UNCHANGED <<board, expected, stopped, copies, main, copying, closeVars,
                 timer, key, saveVars, failed>>

JobPaste(j) ==
  /\ \/ JobAt(j, "paste", "clear")
     \/ JobAt(j, "paste", "done") /\ board # expected[j]
  /\ UNCHANGED <<board, expected, stopped, copies, current, main, copying, closeVars,
                 timer, key, saveVars, failed>>

JobClear(j) ==
  /\ JobAt(j, "clear", "done")
  /\ \/ board' = "empty" /\ UNCHANGED failed
     \/ failed' = TRUE /\ UNCHANGED board
  /\ UNCHANGED <<expected, stopped, copies, current, main, copying, closeVars,
                 timer, key, saveVars>>

(* The user copies something in another program.                           *)
CopyElsewhere ==
  /\ board' = "other"
  /\ UNCHANGED <<jobVars, current, main, copying, closeVars, timer, key, saveVars, failed>>

-----------------------------------------------------------------------------
Command == \/ \E v \in Secret : Copy(v)
           \/ WriteSecret \/ FailCopy
           \/ \E next \in {"prompt", "marshal"} : Register(next)
           \/ Edit \/ Marshal \/ Seal \/ CommitSave \/ Quit \/ Panic("prompt") \/ Panic("marshal")

Working == \/ WriteSecret \/ FailCopy
           \/ \E next \in {"prompt", "marshal"} : Register(next)
           \/ Marshal \/ Seal \/ CommitSave \/ Panic("marshal")

Close(c) == \/ CloseTake(c) \/ ClosePaste(c) \/ CloseClear(c)
            \/ CloseWipe(c) \/ CloseDrop(c) \/ Exit(c)

Clear(j) == JobStop(j) \/ JobFire(j) \/ JobTake(j) \/ JobPaste(j) \/ JobClear(j)

Next == \/ Command \/ IdleFire \/ CopyElsewhere
        \/ \E c \in Closer : Close(c)
        \/ \E j \in Job : Clear(j)

(* A command that has begun goes on, and goroutines are scheduled; neither *)
(* the user nor the idle timer need do anything.                           *)
Fairness == /\ WF_vars(Working)
            /\ \A c \in Closer : WF_vars(Close(c))
            /\ \A j \in Job : WF_vars(Clear(j))

Spec == Init /\ [][Next]_vars
FairSpec == Spec /\ Fairness

-----------------------------------------------------------------------------
(* Type invariant.                                                         *)
TypeOK ==
  /\ board \in {"empty", "other"} \cup Secret
  /\ expected \in [Job -> Secret \cup {None}]
  /\ job \in [Job -> {"unborn", "waiting", "take", "paste", "clear", "done"}]
  /\ stopped \subseteq Job
  /\ current \in Job \cup {None} /\ copies \in 0..MaxCopies
  /\ main \in {"prompt", "write", "register", "marshal", "seal", "commit", "done"}
  /\ copying \in Secret \cup {None}
  /\ closing \in [Closer -> {"no", "take", "paste", "clear", "wipe", "drop", "exit", "exited"}]
  /\ taken \in [Closer -> Job \cup {None}]
  /\ timer \in {"off", "armed", "fired"}
  /\ key \in {"live", "wiped", "dropped"}
  /\ sealed \in {"live", "wiped", None} /\ stored \in {"live", "wiped"}
  /\ saves \in Nat /\ failed \in BOOLEAN

(* As long as the process runs, a secret that kpot put on the clipboard is *)
(* watched: by the pending job, by a job or a Close that has taken over    *)
(* the pending one, or by the Copy that is about to register a job.  A     *)
(* newer copy, an older job's late timer and Close may overlap as they     *)
(* like; only a failing clipboard tool may leave it behind.                *)
Watches(j) == j # None /\ expected[j] = board

SecretIsWatched ==
  (board \in Secret /\ ~failed /\ ~Exited) =>
    \/ Watches(current)
    \/ main = "register" /\ copying = board
    \/ \E j \in Job : job[j] = "clear" \/ (job[j] = "paste" /\ Watches(j))
    \/ \E c \in Closer :
         closing[c] = "clear" \/ (closing[c] = "paste" /\ Watches(taken[c]))

(* A session that the user ends leaves a secret on the clipboard only if   *)
(* the goroutine of its job, or of the idle lock, had taken the clearing   *)
(* over before Close came and is still about it (clipboard.go:162): Close  *)
(* itself clears what nobody else has begun to.                            *)
LastSecretIsBeingCleared ==
  (closing["main"] = "exited" /\ board \in Secret /\ ~failed) =>
    \/ \E j \in Job : job[j] = "clear" \/ (job[j] = "paste" /\ Watches(j))
    \/ closing["idle"] = "clear"
    \/ closing["idle"] = "paste" /\ Watches(taken["idle"])

(* No command finds a wiped key, and no save is sealed with one, unless    *)
(* the idle lock closed the session under it (repl.go:216): the loop's own *)
(* Close comes after its last save, a panic's included.                    *)
OnlyIdleLockWipesUnderCommands ==
  stored = "wiped" \/ (main # "done" /\ key # "live")
    => closing["idle"] \in {"drop", "exit", "exited"}

(* Once the user copies no more, the clipboard ends up without secrets or  *)
(* the process has ended (what it then leaves is SecretDiesWithSession).   *)
SecretsAreCleared == <>[](board \notin Secret \/ failed \/ Exited)

(* Claimed, and not so: "a secret never outlives the session" (README).    *)
SecretDiesWithSession == Exited => board \notin Secret \/ failed

(* Claimed, and not so: wiping the key from the timer is safe (idleFire);  *)
(* no save seals the vault with a wiped key.                               *)
SavesUseTheKey == stored = "live"
=============================================================================
