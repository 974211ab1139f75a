--------------------------- MODULE MCCommandPage ---------------------------
(***************************************************************************)
(* Two servers on one commands.bin, the first with two handlers at work.   *)
(***************************************************************************)
EXTENDS CommandPage

CONSTANTS s1, s2, h1, h2, h3

MCHome == [c \in Callers |-> IF c = h3 THEN s2 ELSE s1]

=============================================================================
