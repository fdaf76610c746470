----------------------------- MODULE Onboarding -----------------------------
(***************************************************************************)
(* watchmyai setup, verify and uninstall (onboarding.py): one operator     *)
(* runs one command at a time, and each stage of a command is a step. A    *)
(* stage may fail and the command may die between two stages. Kibana,      *)
(* Fleet, the Elastic Agent and the owners of the hook documents go their  *)
(* own way meanwhile.                                                      *)
(***************************************************************************)
EXTENDS HookSettings, RuleImport, Naturals

CONSTANTS
  SetupHomes,  \* homes given to setup
  CheckHomes,  \* homes given to setup --repository-only
  DefaultHome, \* GatewayConfig.load().home
  OldHome,     \* the home of an earlier installation
  OldHooks,    \* targets whose documents still have its hooks
  HookChoices, \* what --hooks selects: sets of targets
  AlertRule,   \* WMAI-001
  MaxCommands, \* bound: commands run
  MaxPolls,    \* polls of Fleet before the deadline
  MaxChanges   \* bound: what analysts, agents and users change

ASSUME OnboardingAssumption ==
  /\ SetupHomes \cup CheckHomes \cup {DefaultHome, OldHome} \subseteq Homes
  /\ OldHooks \subseteq Targets
  /\ HookChoices \subseteq SUBSET Targets
  /\ AlertRule \in Rules
  /\ MaxCommands \in Nat /\ MaxPolls \in Nat /\ MaxChanges \in Nat

VARIABLES
  config,    \* .env: NoConfig, or the home, the mode and ENABLE_RULES in it
  homes,     \* the gateway homes
  hooks,     \* the hook document of each target
  assets,    \* the Elastic templates, pipeline and data stream are loaded
  endpoints, \* Elastic Defend package policies of the agent policy
  agent,     \* the local agent: online, and at the policy's revision
  cmd,       \* the command that is running, or Idle
  disturbed, \* somebody else changed something since it started
  before,    \* history: documents with a handler of ours when setup started
  commands,  \* commands run so far
  changes    \* changes made by others so far

elastic == <<rules, job, assets, endpoints, agent>>
local == <<config, homes, hooks>>
bounds == <<disturbed, before, commands, changes>>
vars == <<elastic, local, cmd, bounds>>

NoConfig == [home |-> DefaultHome, dev |-> FALSE, enable |-> FALSE, there |-> FALSE]

NoHome == [there |-> FALSE, output |-> "none", unsigned |-> FALSE, root |-> FALSE,
           active |-> FALSE, saved |-> FALSE, recorded |-> {}]

Idle == [kind |-> "none", at |-> "idle", home |-> DefaultHome, dev |-> FALSE,
         enable |-> FALSE, targets |-> {}, left |-> {}, polls |-> 0, sent |-> FALSE,
         failed |-> FALSE, purge |-> FALSE]

Stages == {"idle", "collect", "select", "init", "enroll", "activate", "assets", "endpoint",
           "fleet", "import", "hooks", "save", "emit", "fleet again", "preflight", "alert",
           "recorded", "purge", "self-check", "end"}

TypeOK ==
  /\ ImportTypeOK
  /\ config \in [there : BOOLEAN, home : Homes, dev : BOOLEAN, enable : BOOLEAN]
  /\ homes \in [Homes -> [there : BOOLEAN, output : {"none", "jsonl", "elastic"},
                          unsigned : BOOLEAN, root : BOOLEAN, active : BOOLEAN,
                          saved : BOOLEAN, recorded : SUBSET Targets]]
  /\ DOMAIN hooks = Targets
  /\ \A t \in Targets : \A e \in Events : \A i \in DOMAIN hooks[t][e] :
       \A j \in DOMAIN hooks[t][e][i] : hooks[t][e][i][j] \in Handlers
  /\ assets \in BOOLEAN /\ endpoints \in 0..MaxCommands
  /\ agent \in [online : BOOLEAN, acked : BOOLEAN]
  /\ cmd \in [kind : {"none", "setup", "check", "verify", "uninstall"}, at : Stages,
              home : Homes, dev : BOOLEAN, enable : BOOLEAN, targets : SUBSET Targets,
              left : SUBSET Targets, polls : 0..MaxPolls, sent : BOOLEAN,
              failed : BOOLEAN, purge : BOOLEAN]
  /\ disturbed \in BOOLEAN /\ before \subseteq Targets
  /\ commands \in 0..MaxCommands /\ changes \in 0..MaxChanges

Init ==
  /\ ImportInit
  /\ config = NoConfig
  /\ homes = [h \in Homes |-> NoHome]
  /\ hooks = [t \in Targets |-> IF t \in OldHooks THEN Install(NoHooks, OldHome) ELSE NoHooks]
  /\ assets = FALSE /\ endpoints = 0
  /\ agent = [online |-> TRUE, acked |-> TRUE]
  /\ cmd = Idle
  /\ disturbed = FALSE /\ before = {} /\ commands = 0 /\ changes = 0

-----------------------------------------------------------------------------
(* Commands.                                                               *)

Begin(c) ==
  /\ cmd = Idle
  /\ commands < MaxCommands /\ commands' = commands + 1
  /\ cmd' = c
  /\ disturbed' = FALSE
  /\ before' = IF c.kind = "setup" THEN {t \in Targets : ~Unhooked(hooks[t])} ELSE {}
  /\ UNCHANGED <<elastic, config, hooks, changes>>

Created(h) == [homes EXCEPT ![h].there = TRUE]

(* Signed setup is refused unless --enable-rules is given.                 *)
Setup ==
  \E h \in SetupHomes, dev, enable \in BOOLEAN, targets \in HookChoices :
    /\ ~dev => enable
    /\ Begin([Idle EXCEPT !.kind = "setup", !.at = "collect", !.home = h, !.dev = dev,
                          !.enable = enable, !.targets = targets, !.left = targets])
    /\ UNCHANGED homes

RepositoryOnly ==
  \E h \in CheckHomes :
    /\ Begin([Idle EXCEPT !.kind = "check", !.at = "init", !.home = h, !.dev = TRUE])
    /\ homes' = Created(h)

(* verify and uninstall without --home take it from the configuration.     *)
VerifyCommand ==
  /\ config.there
  /\ Begin([Idle EXCEPT !.kind = "verify", !.at = "emit", !.home = config.home,
                        !.dev = config.dev, !.enable = config.enable])
  /\ UNCHANGED homes

UninstallCommand ==
  \E purge \in BOOLEAN :
    /\ Begin([Idle EXCEPT !.kind = "uninstall", !.home = config.home, !.purge = purge,
                          !.at = IF config.there THEN "import" ELSE "recorded"])
    /\ UNCHANGED homes

-----------------------------------------------------------------------------
(* What a stage does to the command.                                       *)

At(stage) == cmd.at = stage

Proceed(stage) == cmd' = [cmd EXCEPT !.at = stage, !.polls = 0]

(* setup and verify stop at the first stage that fails ...                 *)
Stop == cmd' = [cmd EXCEPT !.at = "end", !.failed = TRUE]

(* ... uninstall notes the failure and goes on.                            *)
Note(stage) == cmd' = [cmd EXCEPT !.at = stage, !.failed = TRUE]

StageFails ==
  /\ \/ cmd.at \in {"collect", "select", "init", "enroll", "activate", "assets", "endpoint",
                    "fleet", "fleet again", "save", "emit", "preflight", "self-check"}
     \/ cmd.kind = "setup" /\ At("hooks")
  /\ Stop
  /\ UNCHANGED <<elastic, local, bounds>>

(* The home comes to be with the workspace or the key file put into it.    *)
Collect ==
  /\ At("collect") /\ Proceed("select")
  /\ config' = [there |-> TRUE, home |-> cmd.home, dev |-> cmd.dev, enable |-> cmd.enable]
  /\ homes' = Created(cmd.home)
  /\ UNCHANGED <<elastic, hooks, bounds>>

(* Selects the Fleet policy, then checks configuration and repository.     *)
Select ==
  /\ At("select") /\ Proceed("init")
  /\ UNCHANGED <<elastic, local, bounds>>

(* watchmyai init keeps what the home has; the gateway is configured anew. *)
InitializeGateway ==
  /\ At("init")
  /\ homes' = [homes EXCEPT ![cmd.home].there = TRUE,
                            ![cmd.home].output = IF cmd.kind = "check" THEN "jsonl" ELSE "elastic",
                            ![cmd.home].unsigned = cmd.dev]
  /\ Proceed(IF cmd.kind = "check" THEN "self-check"
           ELSE IF cmd.dev THEN "assets"
           ELSE IF homes[cmd.home].root THEN "activate" ELSE "enroll")
  /\ UNCHANGED <<elastic, config, hooks, bounds>>

EnrollRoot ==
  /\ At("enroll") /\ Proceed("activate")
  /\ homes' = [homes EXCEPT ![cmd.home].root = TRUE]
  /\ UNCHANGED <<elastic, config, hooks, bounds>>

ActivatePolicy ==
  /\ At("activate") /\ Proceed("assets")
  /\ homes' = [homes EXCEPT ![cmd.home].active = TRUE]
  /\ UNCHANGED <<elastic, config, hooks, bounds>>

LoadAssets ==
  /\ At("assets") /\ Proceed("endpoint")
  /\ assets' = TRUE
  /\ UNCHANGED <<rules, job, endpoints, agent, local, bounds>>

\* Fault: an integration counts once the agent runs it.
HasEndpointRunning == endpoints > 0 /\ agent.acked

(* Looked for in one page of 100 integrations: an agent policy has fewer.  *)
HasEndpoint == endpoints > 0

(* An integration that is there is kept. One that is created makes a new   *)
(* revision of the policy; the answer to the POST may be lost.             *)
EnsureEndpoint ==
  /\ At("endpoint")
  /\ IF HasEndpoint
     THEN Proceed("fleet") /\ UNCHANGED <<endpoints, agent>>
     ELSE /\ endpoints' = endpoints + 1
          /\ agent' = [agent EXCEPT !.acked = FALSE]
          /\ Proceed("fleet") \/ Stop
  /\ UNCHANGED <<rules, job, assets, local, bounds>>

AfterFleet == IF At("fleet") THEN "import" ELSE "preflight"

\* Fault: the revision the agent reports is not looked at.
AcknowledgedAny == HasEndpoint /\ agent.online

Acknowledged == HasEndpoint /\ agent.online /\ agent.acked

BeforeDeadline == cmd.polls < MaxPolls

(* verify_policy: polls until an online agent has the revision, or fails.  *)
FleetVerified ==
  /\ cmd.at \in {"fleet", "fleet again"}
  /\ Acknowledged
  /\ Proceed(AfterFleet)
  /\ UNCHANGED <<elastic, local, bounds>>

\* Fault: no deadline.
PollFleetForever ==
  /\ cmd.at \in {"fleet", "fleet again"}
  /\ ~Acknowledged
  /\ IF HasEndpoint THEN UNCHANGED cmd ELSE Stop
  /\ UNCHANGED <<elastic, local, bounds>>

PollFleet ==
  /\ cmd.at \in {"fleet", "fleet again"}
  /\ ~Acknowledged
  /\ IF HasEndpoint /\ BeforeDeadline
     THEN cmd' = [cmd EXCEPT !.polls = @ + 1]
     ELSE Stop
  /\ UNCHANGED <<elastic, local, bounds>>

-----------------------------------------------------------------------------
(* The import script runs as a process of its own.                         *)

AfterImport == IF cmd.kind = "setup" THEN "hooks" ELSE "recorded"

WantsRules == cmd.kind = "setup" /\ cmd.enable

StartImport ==
  /\ At("import") /\ job.at = "none"
  /\ Start(WantsRules)
  /\ UNCHANGED <<rules, assets, endpoints, agent, local, cmd, bounds>>

RunImport ==
  /\ At("import")
  /\ ImportStep
  /\ UNCHANGED <<assets, endpoints, agent, local, cmd, bounds>>

FinishImport ==
  /\ At("import") /\ job.at \in {"passed", "failed"}
  /\ job' = NoImport
  /\ IF job.at = "passed" THEN Proceed(AfterImport)
     ELSE IF cmd.kind = "setup" THEN Stop ELSE Note("recorded")
  /\ UNCHANGED <<rules, assets, endpoints, agent, local, bounds>>

-----------------------------------------------------------------------------
(* Hooks: claude first, then codex.                                        *)

NextTarget == IF "claude" \in cmd.left THEN "claude" ELSE "codex"

InstallHooks ==
  /\ cmd.kind = "setup" /\ At("hooks") /\ cmd.left # {}
  /\ hooks' = [hooks EXCEPT ![NextTarget] = Install(@, cmd.home)]
  /\ cmd' = [cmd EXCEPT !.left = @ \ {NextTarget}]
  /\ UNCHANGED <<elastic, config, homes, bounds>>

HooksInstalled ==
  /\ cmd.kind = "setup" /\ At("hooks") /\ cmd.left = {}
  /\ Proceed("save")
  /\ UNCHANGED <<elastic, local, bounds>>

(* setup-state.json is what this run installed, whatever it said before.   *)
SaveState ==
  /\ At("save")
  /\ homes' = [homes EXCEPT ![cmd.home].saved = TRUE, ![cmd.home].recorded = cmd.targets]
  /\ Proceed(IF cmd.kind = "check" THEN "end" ELSE "emit")
  /\ UNCHANGED <<elastic, config, hooks, bounds>>

SelfCheck ==
  /\ At("self-check") /\ Proceed("save")
  /\ UNCHANGED <<elastic, local, bounds>>

\* Fault: without a setup state there is nothing to remove.
RecordedOnly(h) == homes[h].recorded

(* Without a setup state both targets are cleaned.                         *)
Recorded(h) == IF homes[h].saved THEN homes[h].recorded ELSE Targets

ReadState ==
  /\ At("recorded")
  /\ cmd' = [cmd EXCEPT !.at = "hooks", !.targets = Recorded(cmd.home),
                        !.left = Recorded(cmd.home)]
  /\ UNCHANGED <<elastic, local, bounds>>

(* A state that cannot be read is noted, and then no hook is removed.      *)
ReadStateFails ==
  /\ At("recorded") /\ homes[cmd.home].saved
  /\ Note("hooks")
  /\ UNCHANGED <<elastic, local, bounds>>

RemoveHooks ==
  /\ cmd.kind = "uninstall" /\ At("hooks") /\ cmd.left # {}
  /\ hooks' = [hooks EXCEPT ![NextTarget] = Uninstall(NextTarget, @)]
  /\ cmd' = [cmd EXCEPT !.left = @ \ {NextTarget}]
  /\ UNCHANGED <<elastic, config, homes, bounds>>

RemoveHooksFails ==
  /\ cmd.kind = "uninstall" /\ At("hooks") /\ cmd.left # {}
  /\ cmd' = [cmd EXCEPT !.left = @ \ {NextTarget}, !.failed = TRUE]
  /\ UNCHANGED <<elastic, local, bounds>>

HooksRemoved ==
  /\ cmd.kind = "uninstall" /\ At("hooks") /\ cmd.left = {}
  /\ Proceed(IF cmd.purge THEN "purge" ELSE "end")
  /\ UNCHANGED <<elastic, local, bounds>>

(* The runtime home goes even when a stage before failed.                  *)
Purge ==
  /\ At("purge")
  /\ homes' = [homes EXCEPT ![cmd.home] = NoHome]
  /\ IF homes[cmd.home].there THEN Proceed("end") ELSE Note("end")
  /\ UNCHANGED <<elastic, config, hooks, bounds>>

-----------------------------------------------------------------------------
(* verify, on its own and as the last stage of setup.                      *)

(* The controlled event reaches Elastic only from a gateway that exports;  *)
(* the gateway's evidence makes a home of a directory that was purged.     *)
Emit ==
  /\ At("emit")
  /\ \E sent \in BOOLEAN :
       /\ sent => homes[cmd.home].output = "elastic" /\ assets
       /\ cmd' = [cmd EXCEPT !.at = "fleet again", !.sent = sent]
  /\ homes' = Created(cmd.home)
  /\ UNCHANGED <<elastic, config, hooks, bounds>>

(* check_remote_lab: the assets, the event, and the rules as configured.   *)
Preflight ==
  /\ At("preflight")
  /\ IF /\ assets /\ cmd.sent
        /\ Present(Rules) = Rules
        /\ Enabled(Rules) = IF Asked(cmd.enable) THEN Rules ELSE {}
     THEN Proceed("alert") ELSE Stop
  /\ UNCHANGED <<elastic, local, bounds>>

(* Only an enabled rule raises the alert, if it does so in time.           *)
Alert ==
  /\ At("alert")
  /\ \E found \in BOOLEAN :
       /\ found => rules[AlertRule] = "enabled"
       /\ IF found THEN Proceed("end") ELSE Stop
  /\ UNCHANGED <<elastic, local, bounds>>

Return ==
  /\ At("end")
  /\ cmd' = Idle
  /\ UNCHANGED <<elastic, local, bounds>>

CommandStep ==
  \/ Collect \/ Select \/ InitializeGateway \/ EnrollRoot \/ ActivatePolicy
  \/ LoadAssets \/ EnsureEndpoint \/ FleetVerified \/ PollFleet
  \/ StartImport \/ RunImport \/ FinishImport
  \/ InstallHooks \/ HooksInstalled \/ SaveState \/ SelfCheck
  \/ ReadState \/ RemoveHooks \/ HooksRemoved \/ Purge
  \/ Emit \/ Preflight \/ Alert \/ Return

(* The terminal is closed or interrupted: the command dies, and the import *)
(* with it. That somebody kills the command alone is left out; its import  *)
(* would go on, and could enable rules behind the back of the next one.    *)
Crash ==
  /\ cmd # Idle
  /\ cmd' = Idle
  /\ job' = NoImport
  /\ UNCHANGED <<rules, assets, endpoints, agent, local, bounds>>

-----------------------------------------------------------------------------
(* The others.                                                             *)

Change ==
  /\ changes < MaxChanges /\ changes' = changes + 1
  /\ disturbed' = TRUE
  /\ UNCHANGED <<before, commands, cmd>>

RulesChange ==
  /\ Change /\ Analyst
  /\ UNCHANGED <<assets, endpoints, agent, local>>

(* The owner of a document adds a group, an empty one or one of a tool of  *)
(* his, or puts his handler next to ours.                                  *)
UserEdits ==
  /\ Change
  /\ \E t \in Targets, e \in Events, o \in Others :
       \/ \E group \in {<<>>, <<Theirs(o)>>} :
            hooks' = [hooks EXCEPT ![t][e] = Append(@, group)]
       \/ \E i \in DOMAIN hooks[t][e] :
            hooks' = [hooks EXCEPT ![t][e][i] = <<Theirs(o)>> \o @]
  /\ UNCHANGED <<elastic, config, homes>>

AgentDrops ==
  /\ Change
  /\ agent.online /\ agent' = [agent EXCEPT !.online = FALSE]
  /\ UNCHANGED <<rules, job, assets, endpoints, local>>

(* The agent comes back, and applies the revision its policy is at.        *)
AgentReports ==
  /\ ~(agent.online /\ agent.acked)
  /\ agent' = [online |-> TRUE, acked |-> TRUE]
  /\ UNCHANGED <<rules, job, assets, endpoints, local, cmd, bounds>>

Next ==
  \/ Setup \/ RepositoryOnly \/ VerifyCommand \/ UninstallCommand
  \/ CommandStep \/ StageFails \/ ReadStateFails \/ RemoveHooksFails \/ Crash
  \/ RulesChange \/ UserEdits \/ AgentDrops \/ AgentReports

(* A stage that can go on does, sooner or later; nothing need ever fail,   *)
(* and no agent need ever report.                                          *)
Spec == Init /\ [][Next]_vars /\ WF_vars(CommandStep)

-----------------------------------------------------------------------------
(* Properties.                                                             *)

Passed(kind) == cmd.kind = kind /\ At("end") /\ ~cmd.failed

(* An import that passed, with nobody else at the rules, left exactly the  *)
(* pack: every rule there, all of them enabled or none, and no other       *)
(* WatchMyAI rule (import_rules.py main), whatever answers were lost in    *)
(* earlier imports.                                                        *)
ImportIsExact ==
  job.at = "passed" /\ ~disturbed =>
    /\ Present(Unsupported) = {}
    /\ \A r \in Rules : rules[r] = IF job.enable THEN "enabled" ELSE "disabled"

(* Whatever of ours a document runs, it runs with this home.               *)
RunsHome(doc, h) ==
  \A e \in Events : \A i \in DOMAIN doc[e] : \A j \in DOMAIN doc[e][i] :
    IsOurs(doc[e][i][j]) => doc[e][i][j] = Ours(h)

(* When setup passes (onboarding.py setup), and nobody else changed        *)
(* anything, the home is what the mode says, exports to Elastic and is     *)
(* recorded; every event of every document that was asked for has a hook   *)
(* of ours, which runs this home in a document that had none of ours when  *)
(* setup began (an older one is left alone, whatever home it runs:         *)
(* installer.py:118); the agent has the endpoint integration and the rules *)
(* are on.                                                                 *)
SetupIsComplete ==
  Passed("setup") /\ ~disturbed =>
    LET home == homes[cmd.home]
    IN /\ home.there /\ home.output = "elastic" /\ home.unsigned = cmd.dev
       /\ ~cmd.dev => home.root /\ home.active
       /\ home.saved /\ home.recorded = cmd.targets
       /\ \A t \in cmd.targets : Hooked(hooks[t])
       /\ \A t \in Targets \ before : RunsHome(hooks[t], cmd.home)
       /\ assets /\ endpoints > 0 /\ agent.acked
       /\ Enabled(Rules) = Rules

(* The home has a record, and it does not name the target: each setup of a *)
(* home, a repository-only one as well, overwrites the record.             *)
Overlooked(t) ==
  IF cmd.purge
  THEN t \notin cmd.targets
  ELSE homes[cmd.home].saved /\ t \notin homes[cmd.home].recorded

(* When uninstall passes, no handler of ours is left in a document that    *)
(* the home's record names, and none in any document when setup died       *)
(* before it made a record. When setup had got as far as a configuration,  *)
(* all rules are as an import that is not to enable them leaves them:      *)
(* disabled (docs/UNINSTALL.md, "verifies all 20 stable IDs are            *)
(* disabled"), unless an exported ENABLE_RULES=true wins over uninstall    *)
(* (onboarding.py uninstall, _environment).                                *)
UninstallIsComplete ==
  Passed("uninstall") /\ ~disturbed =>
    /\ \A t \in Targets : Unhooked(hooks[t]) \/ Overlooked(t)
    /\ config.there => Enabled(Rules) = IF Asked(FALSE) THEN Rules ELSE {}

(* However often setup is run, killed, or loses an answer, the agent       *)
(* policy gets one Elastic Defend integration (FleetClient                 *)
(* ensure_endpoint).                                                       *)
OneEndpoint == endpoints <= 1

(* Installing and removing our hooks never drops, adds or reorders a       *)
(* handler of another tool (installer.py install and uninstall, both       *)
(* adapters).                                                              *)
TheirsAreKept ==
  [][UserEdits \/ \A t \in Targets : TheirHandlers(hooks'[t]) = TheirHandlers(hooks[t])]_vars

(* Every command ends, also when the agent never reports the revision      *)
(* (onboarding.py verify_policy).                                          *)
CommandEnds == (cmd # Idle) ~> (cmd = Idle)
=============================================================================
