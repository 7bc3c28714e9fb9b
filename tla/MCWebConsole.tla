---------------------------- MODULE MCWebConsole ----------------------------
(***************************************************************************)
(* Small instances of WebConsole for TLC: the constants are in the cfgs.   *)
(***************************************************************************)
EXTENDS WebConsole, TLC

\* Stop requests only differ in their names, so any permutation of them maps
\* behaviours to behaviours and leaves every safety property as it is.
StoppersAreAlike == Permutations(Stoppers)
=============================================================================
