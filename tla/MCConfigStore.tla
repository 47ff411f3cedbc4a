--------------------------- MODULE MCConfigStore ---------------------------
(* The desktop application and one command line process, each with one      *)
(* caller; one connection, which the old product's directory may hold.     *)
EXTENDS ConfigStore, TLC

CONSTANTS desktop, cli, d1, c1, n1, p1, p2

MCProcOf == (d1 :> desktop) @@ (c1 :> cli)

MCProfiles ==
  {[secret |-> [kd \in Kinds |-> p2], multi |-> TRUE],
   [secret |-> [kd \in Kinds |-> NoValue], multi |-> FALSE]}

MCLegacy == n1 :> [secret |-> [kd \in Kinds |-> p1], multi |-> TRUE]
=============================================================================
