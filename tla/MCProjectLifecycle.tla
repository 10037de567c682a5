------------------------- MODULE MCProjectLifecycle -------------------------
(***************************************************************************)
(* Instances of ProjectLifecycle for TLC.                                  *)
(***************************************************************************)
EXTENDS ProjectLifecycle, TLC

CONSTANTS q1, q2, q3, q4

FourRequests  == {q1, q2, q3, q4}
ThreeRequests == {q1, q2, q3}
TwoRequests   == {q1, q2}


\* Requests are interchangeable: nothing orders them.
RequestSymmetry == Permutations(Requests)

Transitions(S) == [kind: {"transition"}, to: S]
Patches(S)     == [kind: {"patch"}, to: S]
Deletion       == [kind |-> "delete", to |-> "draft"]   \* names no status

\* A collection, and the status that leads back to one.
Retries == Transitions({"collecting", "failed"})

RetriesAndPatches  == Retries \cup Patches({"collecting", "archived"})
RetriesAndDeletion == Retries \cup {Deletion}
AllButPatches      == Transitions(AllStatuses) \cup {Deletion}
AllButDeletion     == Transitions(AllStatuses) \cup Patches(AllStatuses)

=============================================================================
