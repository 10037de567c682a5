------------------------------ MODULE Services ------------------------------
(***************************************************************************)
(* What surrounds the workspace of a project: sources and their previews,  *)
(* the rate limiter, accounts, names and strategies of projects, and the   *)
(* search for paths.  They share no state with each other, so a behaviour  *)
(* is one of a single part; their interleavings would show nothing more.   *)
(***************************************************************************)
EXTENDS SourceConnectors, RateLimiter, Accounts, ProjectEdits, GraphPaths

VARIABLE part

Parts == {"sources", "limiter", "accounts", "projects", "paths"}

vars == <<part, connVars, rateVars, accountVars, editVars, pathVars>>

\* Only the part at work starts in any of its initial states.
Init ==
  /\ part \in Parts
  /\ ConnInit /\ RateInit /\ AccountInit /\ EditInit /\ PathInit
  /\ part # "sources" => ~lensToken
  /\ part # "paths" => graph = {} /\ from = to /\ depth = 1
                       /\ from = CHOOSE n \in Nodes : TRUE

Sources == part = "sources" /\ ConnNext
           /\ UNCHANGED <<part, rateVars, accountVars, editVars, pathVars>>
Limiter == part = "limiter" /\ RateNext
           /\ UNCHANGED <<part, connVars, accountVars, editVars, pathVars>>
People  == part = "accounts" /\ AccountNext
           /\ UNCHANGED <<part, connVars, rateVars, editVars, pathVars>>
Edits   == part = "projects" /\ EditNext
           /\ UNCHANGED <<part, connVars, rateVars, accountVars, pathVars>>
Search  == part = "paths" /\ PathNext
           /\ UNCHANGED <<part, connVars, rateVars, accountVars, editVars>>

Next == Sources \/ Limiter \/ People \/ Edits \/ Search

\* A fetch goes on (see ConnSpec); no client has to do anything.
Spec ==
  /\ Init /\ [][Next]_vars
  /\ WF_vars(/\ part = "sources" /\ Fetching
             /\ UNCHANGED <<part, rateVars, accountVars, editVars, pathVars>>)

-----------------------------------------------------------------------------

\* The types of all parts.
TypeOK ==
  /\ part \in Parts
  /\ ConnTypeOK /\ RateTypeOK /\ AccountTypeOK /\ EditTypeOK /\ PathTypeOK

=============================================================================
