------------------------------ MODULE MCConsole ------------------------------
(***************************************************************************)
(* Two requests by a mission lead and a reviewer.  Each behaviour is about *)
(* one table with soft deletion, about the moves of orders or about pages, *)
(* chosen at the start; sessions come and go in the first kind only.       *)
(***************************************************************************)
EXTENDS Console, TLC

VARIABLE part

PartOps ==
  IF part \in Kinds
  THEN {"create", "update", "delete", "list"} \X {part} \cup {<<"logout">>}
  ELSE IF part = "orders"
  THEN {<<"order", "new">>} \cup ({"move"} \X (1 .. 3) \X (1 .. 3))
  ELSE PageOps \cup {<<"order", "new">>, <<"delete", "buoy">>}

MCRoleOf == [u \in Users |-> IF u = "admin" THEN "mission_lead" ELSE "reviewer"]
MCUserOf == [t \in Tokens |-> IF t = "t1" THEN "admin" ELSE "reviewer"]

MCInit ==
  /\ Init
  /\ part \in Kinds \cup {"orders", "pages"}
  /\ \A k \in Kinds \ {part} : rows[k].state = "live"

MCNext ==
  /\ Next
  /\ \A r \in Requests : req'[r] # Idle => req'[r].op \in PartOps \cup {<<"login">>}
  /\ part \in Kinds \/ (active' = active /\ \A t \in Tokens : sessions'[t] # "expired")
  /\ part = "orders" => DOMAIN orders' \subseteq 1 .. 3
  /\ UNCHANGED part

Symmetry == Permutations(Requests)

MCSpec == MCInit /\ [][MCNext]_<<vars, part>>
=============================================================================
