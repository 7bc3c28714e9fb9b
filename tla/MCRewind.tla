------------------------------ MODULE MCRewind ------------------------------
(* Instances of Rewind for TLC. *)
EXTENDS Rewind, TLC

\* Contents are only ever compared.
AlikeBytes == Permutations(Bytes)
=============================================================================
