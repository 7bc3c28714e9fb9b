----------------------------- MODULE Ownership ------------------------------
(* What the data lease promises: the scopes that work on a data directory at *)
(* the same time all belong to one process.                                  *)
CONSTANTS Scopes, Home     \* Home[s]: the process of a scope

VARIABLE working           \* the scopes that hold the directory

Init == working = {}

Enter(s) ==
    /\ s \notin working
    /\ \A r \in working : Home[r] = Home[s]
    /\ working' = working \cup {s}

Leave(s) == s \in working /\ working' = working \ {s}

\* A process ends, with all that it was doing.
Exit(p) == working' = {s \in working : Home[s] # p}

Next == \/ \E s \in Scopes : Enter(s) \/ Leave(s)
        \/ \E s \in working : Exit(Home[s])

Spec == Init /\ [][Next]_working
=============================================================================
