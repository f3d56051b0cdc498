------------------------------- MODULE MCRope -------------------------------
(***************************************************************************)
(* Two ropes.  Strings have one character, none by the default constructor *)
(* and, when a literal brings its NUL, two.                                *)
(***************************************************************************)
EXTENDS Rope

CONSTANTS a, b    \* characters

MCPieces == {<<a>>, <<b>>}
=============================================================================
