--------------------------- MODULE MCExportPipeline ---------------------------
(* One event more than the queue holds, and a malformed one.                 *)
EXTENDS ExportPipeline

MCMalformed == {2}
=============================================================================
