---------------------------- MODULE MCResources -----------------------------
(* Two topics and the command line on one data directory.                    *)
EXTENDS Resources, TLC

MCServers == <<"s1", "s2">>

\* The topics are interchangeable.
MCSymmetry == Permutations(Topics)
=============================================================================
