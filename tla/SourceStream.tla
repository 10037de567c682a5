---------------------------- MODULE SourceStream ----------------------------
(***************************************************************************)
(* What BaseConnector.fetch promises: a stream of the works that match a   *)
(* query, each once, in the order of the source, at most max_results of    *)
(* them (api/app/connectors/base.py).  The n-th match is named n.          *)
(***************************************************************************)
EXTENDS Naturals, Sequences

VARIABLES
  produced,  \* what the stream has yielded since it was opened
  bound,     \* no more than this is there, or wanted
  open       \* the stream can yield more

streamVars == <<produced, bound, open>>

Init == produced = <<>> /\ bound = 0 /\ open = FALSE

\* fetch(query, max_results): what was yielded before is another stream's.
Open ==
  /\ ~open
  /\ produced' = <<>> /\ bound' \in Nat /\ open' \in BOOLEAN

Yield ==
  /\ open /\ Len(produced) < bound
  /\ produced' = Append(produced, Len(produced) + 1)
  /\ UNCHANGED <<bound, open>>

\* The end of the stream, or an exception.
Close == open /\ open' = FALSE /\ UNCHANGED <<produced, bound>>

Next == Open \/ Yield \/ Close

Spec == Init /\ [][Next]_streamVars

=============================================================================
