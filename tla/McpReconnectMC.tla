--------------------------- MODULE McpReconnectMC ---------------------------
(***************************************************************************)
(* The instance of McpReconnect that TLC checks.  A call can rebuild once, *)
(* so that a session more than there are calls is never short.             *)
(***************************************************************************)
EXTENDS McpReconnect
=============================================================================
