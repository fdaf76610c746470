----------------------------- MODULE MCMcpGateway -----------------------------
(* The MCP gateway for TLC.  Ids are interchangeable, but liveness is checked *)
(* and forbids symmetry.                                                      *)
EXTENDS McpGateway
CONSTANTS i1, i2
==============================================================================
