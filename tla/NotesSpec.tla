------------------------------ MODULE NotesSpec ------------------------------
(* What a kpot session promises about the text of the notes, whatever their   *)
(* names: a text leaves the live notes only when it is rewritten, moved to    *)
(* the trash or replaced by an import, and leaves the trash only when it is   *)
(* restored, purged or replaced; and the file holds the texts as they were    *)
(* after a whole command, the last one unless the user has been told that     *)
(* saving failed. One loss is part of the promise because the code has it:    *)
(* while two names of notes are spelled alike in the file, a save keeps one   *)
(* text of the two.                                                           *)
(*                                                                            *)
(* The texts are counted once however many notes hold them: taking one copy   *)
(* of several away leaves the set as it is. ReplSession implements this       *)
(* module.                                                                    *)
EXTENDS Naturals

CONSTANT Texts

VARIABLES
    live,    \* the texts of the notes in memory
    bin,     \* the texts in the trash in memory
    saved,   \* the texts of both that opening the file gives
    warned,  \* the last attempt to save failed, and the user was told
    clash,   \* two names of notes are spelled alike in the file
    offer    \* the texts of the export or bundle at hand

vars == <<live, bin, saved, warned, clash, offer>>

Init == \E S, B \in SUBSET Texts :
    /\ live = S /\ bin = B
    /\ saved = [live |-> S, bin |-> B]
    /\ warned = FALSE /\ clash = FALSE
    /\ offer \in [live : SUBSET Texts, bin : SUBSET Texts]

\* A command ends by saving everything it has in memory, or by an error.
Save ==
    /\ offer' = offer
    /\ \/ /\ warned' = FALSE
          /\ saved' = [live |-> saved'.live, bin |-> bin']
          /\ saved'.live \subseteq live'
          /\ saved'.live = live' \/ clash'
       \/ warned' = TRUE /\ saved' = saved
    /\ clash' \in BOOLEAN

Write(t) ==
    /\ live' \in {live \cup {t}} \cup {(live \ {old}) \cup {t} : old \in live}
    /\ bin' = bin /\ Save

Trash(t) ==
    /\ t \in live /\ bin' = bin \cup {t}
    /\ live' \in {live, live \ {t}} /\ Save

Restore(t) ==
    /\ t \in bin /\ live' = live \cup {t}
    /\ bin' \in {bin, bin \ {t}} /\ Save

Purge(t) ==
    /\ t \in bin /\ live' = live
    /\ bin' \in {bin, bin \ {t}} /\ Save

PurgeAll == live' = live /\ bin' = {} /\ Save

Import == live' = live \cup offer.live /\ bin' = bin /\ Save

Replace == live' = offer.live /\ bin' = offer.bin /\ Save

\* Nothing changes in the texts; recent list and template may.
Touch == live' = live /\ bin' = bin /\ Save

\* Some of the texts are put in a file, or all of them with the trash.
Export ==
    /\ \E S \in SUBSET live, B \in {bin, {}} : offer' = [live |-> S, bin |-> B]
    /\ UNCHANGED <<live, bin, saved, warned, clash>>

\* The session ends, by exit, crash or idle lock, and the file is opened again.
Reopen ==
    /\ live' = saved.live /\ bin' = saved.bin
    /\ warned' = FALSE /\ saved' = saved
    /\ clash' = FALSE /\ offer' = offer

Next ==
    \/ Touch \/ Export \/ Reopen
    \/ \E t \in Texts : Write(t) \/ Trash(t) \/ Restore(t) \/ Purge(t)
    \/ PurgeAll \/ Import \/ Replace

Spec == Init /\ [][Next]_vars
=============================================================================
