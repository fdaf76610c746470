----------------------------- MODULE RuleImport -----------------------------
(***************************************************************************)
(* scripts/import/import_rules.py: the reviewed rule pack is imported into *)
(* Kibana, disabled, and enabled when the configuration asks for it. Each  *)
(* request is a step; it may fail, and a POST that fails may have been     *)
(* carried out, in whole or in part. Meanwhile an analyst changes rules.   *)
(***************************************************************************)
CONSTANTS
  Rules,       \* stable IDs of the supported pack
  Unsupported, \* WMAI- IDs outside the pack
  Exported     \* ENABLE_RULES in the environment: "unset", "true" or "false"

ASSUME ImportAssumption ==
  /\ Rules \cap Unsupported = {}
  /\ Exported \in {"unset", "true", "false"}

VARIABLES
  rules,  \* what Kibana holds
  job     \* the import that is running

States == {"absent", "disabled", "enabled"}

Steps == {"none", "find", "post", "verify", "enable", "count", "passed", "failed"}

NoImport == [at |-> "none", enable |-> FALSE, ids |-> {}]

ImportTypeOK ==
  /\ rules \in [Rules \cup Unsupported -> States]
  /\ job \in [at : Steps, enable : BOOLEAN, ids : SUBSET Rules]

ImportInit == /\ rules = [r \in Rules \cup Unsupported |-> "absent"]
              /\ job = NoImport

(* _config: a variable of the environment wins over the file.              *)
Asked(enable) == IF Exported = "unset" THEN enable ELSE Exported = "true"

Present(S) == {r \in S : rules[r] # "absent"}
Enabled(S) == {r \in S : rules[r] = "enabled"}

Start(enable) == job' = [NoImport EXCEPT !.at = "find", !.enable = Asked(enable)]

Goto(step) == job' = [job EXCEPT !.at = step]

(* A request raises, a file is invalid, the key cannot be read.            *)
Fail ==
  /\ job.at \in {"find", "verify", "count"}
  /\ Goto("failed")
  /\ UNCHANGED rules

(* Unexpected WatchMyAI IDs are never imported over.                       *)
Find ==
  /\ job.at = "find"
  /\ Goto(IF Present(Unsupported) = {} THEN "post" ELSE "failed")
  /\ UNCHANGED rules

\* Fault: an answer that names errors is taken for a complete one.
CompleteIfAnswered(S) == S \subseteq Rules

Complete(S) == S = Rules

(* _import?overwrite=true: an imported rule is as the pack has it, so      *)
(* disabled; anything but a complete answer is an error.                   *)
Post ==
  /\ job.at = "post"
  /\ \E S \in SUBSET Rules :
       /\ rules' = [r \in DOMAIN rules |-> IF r \in S THEN "disabled" ELSE rules[r]]
       /\ \E step \in {"verify", "failed"} :
            /\ step = "verify" => Complete(S)
            /\ Goto(step)

Verify ==
  /\ job.at = "verify"
  /\ LET off == Rules \ Enabled(Rules)
     IN IF Present(Unsupported) # {} \/ Present(Rules) # Rules
        THEN Goto("failed")
        ELSE job' = [job EXCEPT !.at = IF ~job.enable THEN "passed"
                                       ELSE IF off = {} THEN "count" ELSE "enable",
                                !.ids = IF job.enable THEN off ELSE {}]
  /\ UNCHANGED rules

(* _bulk_action on the object IDs read before; a rule deleted since then   *)
(* is reported as an error.                                                *)
Enable ==
  /\ job.at = "enable"
  /\ \E S \in SUBSET Present(job.ids) :
       /\ rules' = [r \in DOMAIN rules |-> IF r \in S THEN "enabled" ELSE rules[r]]
       /\ \E step \in {"count", "failed"} :
            /\ step = "count" => S = job.ids
            /\ Goto(step)

Count ==
  /\ job.at = "count"
  /\ Goto(IF Enabled(Rules) = Rules THEN "passed" ELSE "failed")
  /\ UNCHANGED rules

ImportStep == Fail \/ Find \/ Post \/ Verify \/ Enable \/ Count

(* An analyst in Kibana adds, deletes, enables or disables a rule.         *)
Analyst ==
  \E r \in DOMAIN rules : \E s \in States \ {rules[r]} :
    /\ rules' = [rules EXCEPT ![r] = s]
    /\ UNCHANGED job
=============================================================================
