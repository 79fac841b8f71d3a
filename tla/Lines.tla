-------------------------------- MODULE Lines --------------------------------
(***************************************************************************)
(* Histories of output lines.  A line is its number in its stream, and a   *)
(* history is the sequence of the lines kept.                                *)
(***************************************************************************)
EXTENDS Naturals, Sequences

\* h ends with line n and goes back from there without a gap.
EndsWith(h, n) == \A k \in DOMAIN h : h[k] = n - Len(h) + k
=============================================================================
