------------------------------ MODULE MCLoader ------------------------------
(***************************************************************************)
(* Small instances of Loader for TLC.                                      *)
(***************************************************************************)
EXTENDS LoaderPool, LoaderInv, TLC

CONSTANTS r1, r2, r3, q1, q2, q3

MCRequests2 == {r1, r2}
MCRequests3 == {r1, r2, r3}
MCRunners2  == {q1, q2}
MCRunners3  == {q1, q2, q3}

T(m, mode) == [backend |-> "llamacpp", model |-> m, mode |-> mode]

\* Three keys for two slots.
MCTargetsPool == {T("m1", "completion"), T("m1", "embedding"), T("m1", "reranking")}
\* A mode that borrows the configuration set for completion.
MCTargetsConfig == {T("m1", "completion"), T("m1", "reranking")}
MCTargetsOne == {T("m1", "completion")}

Config(d, keepAlive) == [draft |-> d, keepAlive |-> keepAlive]
MCNoConfigs == {}
MCConfigsNever == {Config(NoDraft, Never)}
MCConfigsEager == {Config(NoDraft, 0)}
MCConfigsDraft == {Config(NoDraft, 0), Config("d1", 0)}

\* Requests and runner identities are interchangeable.
SymmetryDrafts == Permutations(MCRequests2) \cup Permutations(MCRunners3)
Symmetry2 == Permutations(MCRequests2) \cup Permutations(MCRunners2)
Symmetry3 == Permutations(MCRequests3) \cup Permutations(MCRunners2)
=============================================================================
