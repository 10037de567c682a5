------------------------- MODULE MCCollectionRunner -------------------------
(***************************************************************************)
(* Instances of CollectionRunner for TLC.                                  *)
(***************************************************************************)
EXTENDS CollectionRunner, TLC

CONSTANTS r1, r2, w1, w2, w3, w4

MCRuns  == {r1, r2}
MCWorks == {w1, w2, w3, w4}
MCImports == {w1}

\* w1 and w2 are two records of one publication (same DOI), w4 repeats the
\* text of w2, and neither w3 nor w4 carries an identifier.
MCSourceId == w1 :> "a" @@ w2 :> "b" @@ w3 :> "none" @@ w4 :> "none"
MCDoi      == w1 :> "x" @@ w2 :> "x" @@ w3 :> "none" @@ w4 :> "none"
MCChecksum == w1 :> "p" @@ w2 :> "q" @@ w3 :> "r" @@ w4 :> "q"

=============================================================================
