----------------------------- MODULE MCRunFiles -----------------------------
(* A small instance of RunFiles: rows of which two fit into the buffer,    *)
(* one does, or none does, and one that cannot be formatted.               *)
EXTENDS RunFiles

MCHeader == <<"other", "newline">>

MCPayloads ==
  BoundedSeq(Byte, 1)
    \cup {<<"quote", "quote", "quote">>,
          <<"quote", "quote", "quote", "quote">>}

Input(path, real, parent, stem) ==
  [path |-> path, real |-> real, parent |-> parent, stem |-> stem]

(* Two files, a link to the first, and one with the name of the first in   *)
(* another directory.                                                      *)
MCInputs ==
  {Input("a", "a", "here", "a"), Input("b", "b", "here", "b"),
   Input("link", "a", "here", "link"), Input("far_a", "far_a", "there", "a")}
=============================================================================
