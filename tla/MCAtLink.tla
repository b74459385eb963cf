------------------------------ MODULE MCAtLink ------------------------------
(* Small instances of AtLink: any faults of at most MaxFaults in all, at    *)
(* most two bursts of lost bytes and one of each other kind, out of Kinds.  *)
EXTENDS AtLink, FiniteSetsExt

CONSTANTS Kinds, MaxFaults

MCAllowed ==
    {f \in [Fault -> 0 .. 2] :
        /\ \A k \in Fault : f[k] > 0 => k \in Kinds
        /\ \A k \in Fault \ {"loss"} : f[k] <= 1
        /\ MapThenSumSet(LAMBDA k : f[k], Fault) <= MaxFaults}

\* The hypothesis of the theorems on short runs holds here.
ASSUME FewFaultsHere == FewFaults
=============================================================================
