---------------------------- MODULE MCPolicyService ----------------------------
(* Bundles of three modes, two of one version and two of one version and      *)
(* sequence; adapters that lack what the rules ask for.                       *)
EXTENDS PolicyService

MCToolClass == [p \in Payloads |-> IF p = "rm" THEN "shell" ELSE "file"]

Rule(id, effect, priority, classes, obligations) ==
  [id |-> id, effect |-> effect, priority |-> priority, agents |-> Agents,
   classes |-> classes, restricted |-> FALSE, obligations |-> obligations]

AllowAll == Rule(1, "ALLOW", 9, ToolClasses, {"CAPTURE_ARGUMENT_HASH"})
DenyShell == Rule(2, "DENY", 0, {"shell"}, {"EMIT_HIGH_SEVERITY_ALERT"})
AskFile == Rule(3, "REQUIRE_APPROVAL", 5, {"file"}, {"REQUIRE_JUSTIFICATION"})
AskShell == Rule(4, "REQUIRE_APPROVAL", 5, {"shell"}, {})
AllowMarked == [Rule(5, "MONITOR", 1, {"file"}, {}) EXCEPT !.restricted = TRUE]

\* One agent of two may not use the shell.
DenyGuest == [DenyShell EXCEPT !.agents = {"guest"}]

Policy(id, version, seq, mode, restricts, rules) ==
  [id |-> id, version |-> version, seq |-> seq, mode |-> mode,
   default |-> IF mode = "strict" THEN "DENY" ELSE "ALLOW",
   restricts |-> restricts, rules |-> rules]

Observed == Policy("b1", 1, 1, "observe", {}, {AllowAll, DenyGuest})
Restricted == Policy("b2", 1, 2, "restrict", {"write"}, {AllowAll, DenyShell, AskFile})
Strict == Policy("b3", 2, 3, "strict", {"write"}, {AskShell, AllowMarked})
Twin == [Strict EXCEPT !.id = "b4", !.restricts = {}, !.rules = {AllowAll, DenyShell}]

MCBundles == {Observed, Restricted, Strict, Twin}

GuestBundles == {Policy("b5", 1, 1, "restrict", {"write"}, {AllowAll, DenyGuest})}

Able(a) == [adapter |-> a, covers |-> ToolClasses, supports |-> Fields]

MCOffered ==
  {Able(a) : a \in Adapters} \cup
  { [Able("hook") EXCEPT !.supports = @ \ {"justification", "hashing"}],
    [Able("hook") EXCEPT !.covers = {"shell"}],
    [Able("mcp") EXCEPT !.supports = @ \ {"approval", "blocking"}],
    [Able("mcp") EXCEPT !.supports = @ \ {"pre_execution"}] }
=============================================================================
