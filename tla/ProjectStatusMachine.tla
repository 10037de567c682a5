------------------------ MODULE ProjectStatusMachine ------------------------
(***************************************************************************)
(* The transition table of surveillance projects, class                    *)
(* ProjectStatusMachine of api/app/services/project_service.py.            *)
(***************************************************************************)

\* The statuses the table has a row for.
Statuses == {"draft", "collecting", "processing", "graph_ready",
             "report_ready", "archived", "failed"}

\* Any other text: the column is a free String(20), and PATCH stores what the
\* client sends.
OtherStatus == "other"

\* A row deleted from surveillance_projects.
Deleted == "deleted"

AllStatuses == Statuses \cup {OtherStatus}

ValidTransitions ==
  [s \in Statuses |->
     CASE s = "draft"        -> {"collecting", "archived", "failed"}
       [] s = "collecting"   -> {"processing", "archived", "failed"}
       [] s = "processing"   -> {"graph_ready", "archived", "failed"}
       [] s = "graph_ready"  -> {"report_ready", "processing", "archived",
                                 "failed"}
       [] s = "report_ready" -> {"archived", "failed"}
       [] s = "archived"     -> {}
       [] s = "failed"       -> Statuses \ {"failed"}]

\* VALID_TRANSITIONS.get(from, set()): no way out of a status without a row.
CanTransition(from, to) ==
  from \in Statuses /\ to \in ValidTransitions[from]

=============================================================================
