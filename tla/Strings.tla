------------------------------ MODULE Strings ------------------------------
(***************************************************************************)
(* C strings, as sequences without their final NUL, and the strcmp that    *)
(* config.c, init.c, load.c and api_resolve.c each have a copy of.         *)
(***************************************************************************)
EXTENDS Sequences

\* strcmp finds no difference: it stops at the end of either string, so that a
\* string is equal to every string it begins.
Matches(s, t) == \A n \in DOMAIN s \cap DOMAIN t : s[n] = t[n]
=============================================================================
