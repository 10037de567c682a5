------------------------- MODULE CollectionContract -------------------------
(***************************************************************************)
(* What a collection run promises to whoever reads the database: its row   *)
(* changes once, to completed, and in that very step all its documents     *)
(* appear, no two of them alike.  Nothing of a run is visible before, and  *)
(* nothing changes afterwards.                                             *)
(***************************************************************************)
CONSTANTS
  Runs,     \* collection runs
  Works,    \* works an external source can return
  Alike     \* the pairs of works the collection takes for the same document

VARIABLES
  settled,  \* runs whose row says completed
  docs      \* the documents each run has left in the project

vars == <<settled, docs>>

Init == settled = {} /\ docs = [r \in Runs |-> {}]

\* A set of works no two of which are taken for the same document.
Distinct(S) == \A v, w \in S : v # w => <<v, w>> \notin Alike

Publish(r) ==
  /\ r \notin settled
  /\ settled' = settled \cup {r}
  /\ \E S \in SUBSET Works :
       Distinct(S) /\ docs' = [docs EXCEPT ![r] = S]

Next == \E r \in Runs : Publish(r)

Spec == Init /\ [][Next]_vars

=============================================================================
