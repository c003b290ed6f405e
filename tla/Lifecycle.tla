----------------------------- MODULE Lifecycle -----------------------------
(***************************************************************************)
(* The status machines of package domain: which status a row may hold and  *)
(* which moves the CanMoveTo methods allow.  "absent" stands for a row      *)
(* that has not been inserted yet.                                         *)
(***************************************************************************)

MissionStatus == {"absent", "draft", "scheduled", "active", "closed"}

MissionCanMoveTo(from, next) ==
  <<from, next>> \in { <<"draft", "scheduled">>,
                       <<"scheduled", "active">>, <<"scheduled", "closed">>,
                       <<"active", "closed">> }

JobStatus == {"absent", "queued", "completed", "activation_pending", "accepted",
              "in_progress", "verified", "rejected", "archived"}

JobCanMoveTo(from, next) ==
  <<from, next>> \in { <<"queued", "completed">>,
                       <<"completed", "activation_pending">>,
                       <<"activation_pending", "accepted">>,
                       <<"accepted", "in_progress">>,
                       <<"in_progress", "verified">>, <<"in_progress", "rejected">>,
                       <<"rejected", "archived">>, <<"verified", "archived">> }

WindowStatus == {"absent", "queued", "running", "completed", "cancelled"}

WindowCanMoveTo(from, next) ==
  <<from, next>> \in { <<"queued", "running">>, <<"queued", "cancelled">>,
                       <<"running", "completed">>, <<"running", "cancelled">> }

ReportStatus == {"absent", "pending", "verified", "rejected"}

IncidentStatus == {"open", "in_progress", "closed"}
=============================================================================
