----------------------------- MODULE MCOnboarding -----------------------------
(* One home, for setup and for the repository-only check, and one of an      *)
(* earlier installation; two choices of --hooks; two rules and one that is   *)
(* not of the pack; one event and one other tool.                            *)
EXTENDS Onboarding

MCRules == {"WMAI-001", "WMAI-002"}
MCUnsupported == {"WMAI-900"}
MCHomes == {"home", "old"}
MCSetupHomes == {"home"}
MCCheckHomes == {"home"}
MCHookChoices == {Targets, {"codex"}}
=============================================================================
