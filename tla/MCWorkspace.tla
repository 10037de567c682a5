---------------------------- MODULE MCWorkspace ----------------------------
(***************************************************************************)
(* Instances of Workspace for TLC.                                         *)
(***************************************************************************)
EXTENDS Workspace, TLC

CONSTANTS q1, q2, q3, s1, c1

MCRequests  == {q1, q2, q3}
MCStored    == {s1}
MCCollected == {c1}

\* A PDF, of which the document at the start is a copy, a text file, and a
\* file that is refused.
MCFiles      == {"pdf", "txt", "bad"}
MCPdfFiles   == {"pdf"}
MCBadFiles   == {"bad"}
MCStoredFile == s1 :> "pdf"

\* Two tables that any answer can fill and the one that none can.
MCTableOrder == <<"technologies", "trends", "opportunities">>
MCAnswers == {{}, {"technologies", "trends"},
              {"technologies", "trends", "opportunities"}}

Interchangeable == Permutations(MCRequests)

=============================================================================
