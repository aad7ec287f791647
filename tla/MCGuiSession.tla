---------------------------- MODULE MCGuiSession ----------------------------
(***************************************************************************)
(* Three machines of one size, model-checked in one instance: the GUI's    *)
(* board connection, its ways out, and the connection of the MCP server.   *)
(* A behaviour is about one of them: the first two meet only where a       *)
(* restore needs a board, which ExitGuard leaves open, and the MCP server  *)
(* is a program of its own.                                                *)
(***************************************************************************)
EXTENDS BoardConnection, ExitGuard, McpConnection

VARIABLE part  \* "connection", "exit", "mcp"

\* The machines a behaviour is not about are in one state.
Init ==
  /\ part \in {"connection", "exit", "mcp"}
  /\ ConnectionInit /\ ExitInit /\ McpInit
  /\ part # "exit" => ~exploded /\ ~tray
  /\ part # "connection" => document = None /\ store = [p \in Projects |-> 0]
  /\ part # "mcp" => /\ openBoard = NoBoard /\ expected = (CHOOSE b \in Boards : TRUE)
                    /\ target = (CHOOSE s \in Spots : TRUE)
                    /\ spot = [b \in Boards |-> target]

Next ==
  /\ UNCHANGED part
  /\ \/ part = "connection" /\ ConnectionNext /\ UNCHANGED <<exitVars, mcpVars>>
     \/ part = "exit" /\ ExitNext /\ UNCHANGED <<vars, mcpVars>>
     \/ part = "mcp" /\ McpNext /\ UNCHANGED <<vars, exitVars>>

Spec == Init /\ [][Next]_<<vars, exitVars, mcpVars, part>>
=============================================================================
