---------------------------- MODULE SupportedRules ----------------------------
(***************************************************************************)
(* The supported rules (detection-rules), from which one tool derives a    *)
(* pack, and which another validates in a deployment.                      *)
(***************************************************************************)
EXTENDS Sequences

CONSTANTS Supported,  \* the rule identifiers, in their order
          Native,     \* the rules that count native file events
          None        \* nothing: no file, no alert, no answer yet

Rules == { Supported[i] : i \in DOMAIN Supported }

ASSUME SupportedAssumption == Supported \in Seq(Rules)
===============================================================================
