----------------------------- MODULE MCNoteBody -----------------------------
(* A small instance of NoteBody: every text of at most MaxFirst lines.        *)
EXTENDS NoteBody, TLC

MCCanonical == ("url" :> "url") @@ ("URL" :> "url") @@ ("id" :> "id")

\* "a/b: v" is text, "#x: v" a heading and "id:x: v" the field id; "bbb" stands
\* for three backquotes, which make it a fence.
MCShape ==
    ("a/b" :> [kind |-> "text"]) @@ ("#x" :> [kind |-> "heading"])
        @@ ("bbb" :> [kind |-> "fence"])
        @@ ("id:x" :> [kind |-> "field", spelled |-> "id", value |-> 1])
=============================================================================
