----------------------------- MODULE VaultSpec -----------------------------
(***************************************************************************)
(* What a kpot vault promises its user, without files: one register that   *)
(* holds the image of the vault that can be got back.  A write replaces it *)
(* in one step or not at all.  While it is "aside" only a backup holds it, *)
(* and nothing can be opened under the vault's own name.  VaultFile        *)
(* implements this register with <file>, <file>.tmp and <file>.bak.        *)
(***************************************************************************)
EXTENDS Naturals

CONSTANTS Image,         \* every readable vault image
          Id(_),         \* the vault an image belongs to
          Revision(_),   \* how recent the notes in an image are
          NoVault        \* nothing recoverable

VARIABLES vault,         \* the image a user can get back
          aside,         \* only the backup holds it
          confirmed      \* FALSE while a new vault's recovery key is on show

vars == <<vault, aside, confirmed>>

Init == /\ vault \in Image \cup {NoVault}
        /\ aside = FALSE
        /\ confirmed = TRUE

(* A vault is founded only where nothing answers to the name.  Whether an  *)
(* older vault was set aside there is not asked.                           *)
Found == /\ vault = NoVault \/ aside
         /\ vault' \in Image
         /\ aside' = FALSE
         /\ confirmed' = FALSE

Confirm == /\ ~confirmed
           /\ confirmed' = TRUE
           /\ UNCHANGED <<vault, aside>>

(* A founding that could not show the recovery key is withdrawn; nothing   *)
(* is promised of what it leaves.                                          *)
Withdraw == /\ ~confirmed
            /\ confirmed' = TRUE
            /\ vault' \in Image \cup {NoVault}
            /\ aside' \in BOOLEAN

(* A save or a rotation: an image of the same vault, and no older.         *)
Replace == /\ vault # NoVault
           /\ confirmed
           /\ vault' \in Image
           /\ Id(vault') = Id(vault)
           /\ Revision(vault') >= Revision(vault)
           /\ aside' = FALSE
           /\ UNCHANGED confirmed

SetAside == /\ vault # NoVault
            /\ confirmed
            /\ ~aside
            /\ aside' = TRUE
            /\ UNCHANGED <<vault, confirmed>>

PutBack == /\ aside
           /\ aside' = FALSE
           /\ UNCHANGED <<vault, confirmed>>

Next == Found \/ Confirm \/ Withdraw \/ Replace \/ SetAside \/ PutBack

Spec == Init /\ [][Next]_vars
=============================================================================
