----------------------------- MODULE MCServices -----------------------------
(***************************************************************************)
(* Instances of Services for TLC.                                          *)
(***************************************************************************)
EXTENDS Services, TLC

CONSTANTS q1, q2, q3, ann, bob, p1

\* Three matches, pages of two: a full and a short page, an empty one, and a
\* limit below, at and above a page.
MCWithDoi == {1, 2}

\* Two processes whose clocks differ by one.
MCServers == {0, 1}
MCSkew    == [p \in MCServers |-> p]

\* An owner, and a superuser with a low role.
MCFounders   == {ann, bob}
MCFirstRole  == ann :> "owner" @@ bob :> "analyst"
MCFirstEmail == ann :> "a" @@ bob :> "b"

MCFirstName == p1 :> 0

\* All graphs on four nodes in which the first alone may have a loop.
MCNodes  == 1..4
MCGraphs == SUBSET ({{a, b} : a, b \in MCNodes} \ {{2}, {3}, {4}})

=============================================================================
