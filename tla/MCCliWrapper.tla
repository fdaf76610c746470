----------------------------- MODULE MCCliWrapper -----------------------------
(* Two descendants, the second under the identifier of the first. *)
EXTENDS CliWrapper

MCStreams == <<"stdout", "stderr">>
MCPidOf == [c \in Children |-> 1]
===============================================================================
