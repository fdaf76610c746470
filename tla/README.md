# WatchMyAI in TLA+

WatchMyAI mediates the tool calls of coding agents: a hook or an MCP proxy asks a policy, holds a
call until an operator approves it, records tamper-evident evidence, and exports telemetry to
Elastic, where a reviewed pack of rules raises alerts; a live validation plays scenarios to see that
they do. The modules here model the parts of it that keep state and are shared between processes,
threads, crashes, people and remote services. Small instances are checked with TLC; every safety
property that a passing run checks is proved with TLAPS for every value of the constants.

Every definition is taken from the code under `src/`; `PROJECT.json` ("map") names the lines.

## The system

| component | state | operations | interacts with | model |
|---|---|---|---|---|
| Approval service (`approval/service.py`) | one JSON file of approvals, replaced atomically under a thread and a file lock; evidence is emitted after the lock | `request`, `grant`, `reject`, `consume`, `sweep_expired`, `find_approved` | hooks and the operator's command line, each a process; evidence | `ApprovalStore`, `ApprovalService`; abstract: `OneTimeAuthorization` |
| Hook runtime (`runtime.py`, `cli/main.py` `cmd_hook`, `enforcement/pep.py`) | one process per tool call; the bundle it loaded, the approval it resumes | `process`: request, decision, alerts, hold or consume, enforcement, answer | policy store (read), approvals, evidence, exporter | `HookRuntime` |
| Policy decision point and capability registry (`policy/evaluator.py`, `capability/service.py`) | active bundle, decision cache, registered capabilities and their generation | `activate`, `register`, `evaluate` | runtime, distribution (activation callback) | `PolicyDecision` (values), `PolicyService` |
| Signed distribution (`distribution/*.py`, `cli/main.py` `cmd_policy`) | trusted root, highest versions and sequences, `ACTIVE` and `LAST_KNOWN_GOOD` pointers | activate, roll back, rotate root, status | file system, clock, health check, audit | `SignedRelease` (values), `Distribution` |
| Export pipeline and sinks (`exporters/*`) | bounded queue, metrics, dead-letter file | `enqueue`, `flush` with batches and retries | sinks over the network; two recording threads of the MCP proxy | `ExportPipeline` |
| Onboarding (`onboarding.py`), rule import (`scripts/import/import_rules.py`), hook installers (`adapters/*/installer.py`) | `.env`, gateway homes, hook documents, Kibana rules, Fleet policy | `setup`, `verify`, `uninstall`; an import; install and uninstall of hooks | Kibana, Fleet, Elastic Agent, other tools' settings | `RuleImport`, `HookSettings` (values), `Onboarding` |
| MCP gateway (`adapters/generic_mcp/gateway.py`) | table of pending calls and the session's agent, shared by two pump threads | client line, server line, wait for the server | runtime, evidence chain, the MCP server, the client | `McpGateway` |
| Evidence chain (`evidence/chain.py`) | SQLite table, a hash chain per session | `append`, `verify` | everything that records | `EvidenceChain` (values), run by `McpGateway`; an append is a step of `HookRuntime` |
| Rule pack tooling (`scripts/rules/reconcile_rules.py`, `detection-rules/scripts/*.py`) | the authoritative NDJSON, the tree derived from it, the three shipped files | sync, check, recover, validate, package | authors who edit source and tree; an export of alerts | `SupportedRules`, `RuleLogic` (values), `RulePack` |
| Live validation (`scripts/validate/run_supported_rules.py`, `scenarios/runners/run_scenario.py`) | the report; what earlier runs left in the indices | one run: static stages, a scenario per rule, two waits per scenario, report | Elasticsearch and its rules, other processes of the host | `SupportedRules`, `LiveValidation` |
| Generic CLI wrapper (`adapters/generic_cli/wrapper.py`, `cli/main.py` `cmd_run`) | counts of output per stream, descendants seen | start, sample, relay, join, end | the agent, its descendants, pipes, the terminal | `CliWrapper` |

Parts without a model are listed in `PROJECT.json` ("components") with the reason: they rewrite or
classify one document (normalizer, redaction, classifiers, payload parsing), turn one snapshot of
the host into events (desktop monitor, process capture, discovery), or judge one repository or
export at rest (Sigma candidates, documentation and release checks, telemetry verifiers).
Signatures, hashing and canonical JSON are compared for equality or are one Boolean where they are
used.

### What is hard, and what would make it right

- *Approvals.* Hooks that resume one call race to consume; an operator grants what another rejects;
  a process dies between the file and the event. Right means: one success, after a grant, for that
  very action, in evidence; a rejection is final; one approval per idempotency key.
- *Hooks.* A policy is activated, an approval is spent or swept, evidence breaks, all in the middle
  of `process`. Right means: no answer "allow" without the approval it needs and the events that
  tell of it.
- *Decisions.* Cached answers outlive the bundle, the capability or the agent they were made for;
  priorities and effects conflict. Right means: every answer is what the active bundle says now.
- *Distribution.* Three files that should move together are replaced one by one, a rollback is
  legal only as authorized, and commands overlap. Right means: what is trusted never goes back,
  an unhealthy candidate is undone, and what the operator is told is so.
- *Export.* A full queue, a sink that half succeeds or times out after it succeeded, two threads.
  Right means: nothing that was accepted vanishes, and no flush hangs.
- *Onboarding.* A dozen stages over two remote systems, each of which may fail after it did its
  work, then a rerun; analysts and other tools change the same objects. Right means: PASS is true,
  a rerun repairs, uninstall removes what is ours and nothing else.

- *MCP sessions.* Two threads share a table keyed by identifiers that the client may reuse, the
  server may answer before the thread that forwarded goes on, and a record that raises ends one
  thread and not the other. Right means: evidence first, in every order; the proxy ends.
- *The rule pack.* A hundred derived files, written one by one; a tool that dies inside a write;
  edits on both sides; a passing check that compares less than one thinks. Right means: a pass
  says what it seems to, a synchronization repairs, shipped files belong together.
- *Live validation.* Alerts of earlier runs and of other processes look like the awaited one;
  documents arrive late, in any order, or never. Right means: a PASS was earned by this run.
- *Wrapped agents.* Descendants hold the pipes after the agent is gone, pipes fill, threads die
  alone. Right means: the session ends, and its last event is true.

`PROJECT.json` ("hazards") has each of these at its line. Three have no property, each with a note
saying why: they are behaviour of the code as it is, which a passing run or a property leaves out
(see "Findings"), or on which the code promises nothing.

## How the modules fit

```
OneTimeAuthorization <--refines-- ApprovalService --extends--> ApprovalStore <--extends-- HookRuntime
SignedRelease <--extends-- Distribution
PolicyDecision <--extends-- PolicyService
ExportPipeline
HookSettings, RuleImport <--extends-- Onboarding
EvidenceChain <--extends-- McpGateway
SupportedRules <--extends-- RulePack, LiveValidation
RulePack, RuleLogic <--extends-- MCRulePack
CliWrapper

ApprovalProofs --extends--> ApprovalService, HookRuntime
RulesProofs --extends--> RulePack, LiveValidation
```

`<Component>Proofs` extends `<Component>`, or the two named above, with theorems and their proofs
(see "Proofs"). Where one proof module extends two components, they share a base that
declares what both use (`ApprovalStore`: the file, the clock and what was refused; `SupportedRules`:
the rules), and the names of one carry a prefix: `ServiceSpec`, `LiveSpec`.
`MC*.tla` extends a module with values for one family of runs; a `.cfg` picks among them.

**ApprovalStore** is the file as a function from the tokens drawn to approvals, and each locked
transaction as an operator on it (`Granted`, `Rejected`, `Consumed`, `Swept`, ...). Since the code
holds an inter-process lock, reloads, and replaces the file for each transaction, a transaction
is a step. **ApprovalService** adds what is not under the lock: `request` reads its clock before
the lock (`BeginRequest`, `CommitRequest`); every method emits its event after it (`Emit`), returns
to its caller later still (`TellSuccess`), and may be abandoned anywhere (`Abandon`). What the gateway
finds invalid goes to the dead-letter file, and the method does not learn of it. The clock
(`ServiceTick`) goes both ways.

**HookRuntime** is `process` step by step, one call per process, over the same store. `chain` is
the evidence; `Raise` and `Kill` happen at any stage.

**PolicyDecision** is matching, conflict resolution and the capability gap as operators on values;
**PolicyService** keeps the cache, the two copies of the bundle (the runtime's and the decision
point's) and both ways of activating. `heard` is the history of what was asked under the
active version and sequence: by whom, how it was classified, and which bundle was active. The
properties need it, as the key of the cache tells neither agents nor the bundle's metadata apart.

**SignedRelease** is what the client accepts of a release, given what it trusts; all tests that
depend only on the bytes are its Boolean `sound`. **Distribution** replaces one file per step, in
the order of the code, from the copy of the state that each command loaded when it started.

**ExportPipeline** separates the look at the queue's length from the append, as nothing locks them,
and the take of a batch from its settlement. A sink accepts, refuses, fails in part, answers too
late, or raises.

**RuleImport** is an import, a request per step; a POST that fails may have been carried out for
any part of the pack. **HookSettings** is what the installers do to a document. **Onboarding** runs
one command at a time: `cmd.at` is the stage, a failing stage stops setup and verify (`Stop`) and
is noted by uninstall (`Note`), and `Crash` ends the command and the import it runs. The hooks of an
earlier installation, of another home, may be there from the beginning (`OldHooks`), and `before`
remembers which documents had handlers of ours when a setup began. Others change rules, documents
and the agent at any moment; `disturbed` remembers that they did, since no command
can promise what somebody changes after its last look.

**EvidenceChain** is `append` and `verify` as operators on the rows of a session, an append being one
`BEGIN IMMEDIATE` transaction; a hash is the record it is the hash of, so a row that was altered or
lost is told from one that was not by comparing. **McpGateway** runs it under the two pump threads:
`cpc` and `spc` are where they stand, `pending` is the table they share, and a record, a write to a
pipe and a removal from the table are steps of their own. Each `RecordEvent` may raise, which ends the
thread that called it as the code's handlers (or their absence) say. `DamageChain` alters or loses
a row at any moment, `recorded` remembers what was appended.

**RuleLogic** is the parser and evaluator of the query language by recursive descent, and the three
kinds of detection logic on fixtures. **RulePack** takes from it what a query means, as the constant
operators `WellFormed`, `FieldsAsked` and `Fires` that `RulePack.cfg` gives; its theorems hold whatever
queries mean. It has a value per file: what it shows of its rule; metadata also has what no
synchronization derives, the fields that are only kept (`own.fields`) and the history to which an
entry is appended. A history that was cut off with the end of the file is begun anew (`Kept`), and nothing
tells it from a whole one afterwards. `Raises` has everything that ends a synchronization in the middle:
a note without structure, tags that give no category or maturity, a count that a native fixture
cannot do without, metadata or conformance files that cannot be read.
`Plan` is the order in which a synchronization writes, `After` the tree when it has written the first
n files; a run that dies leaves `After` some n, with the file it was in cut short (`Torn`). Checks
are one step, since they only read; the packager's three writes are three steps. `Edit` actions are
authors, `Recover` takes the text of a pack back from an export of alerts. `said` is what the last
tool said, and is forgotten when anything changes.

**LiveValidation** separates what the run does (`Proceed`) from what the deployment does: an event
travels, becomes visible, and raises an alert, each at its own time. It begins with the events and
alerts of an earlier run and of a busy process. A clock reading orders scenario and alert.

**CliWrapper** has the wrapper's thread, a relay thread per stream, the agent, and descendants
that inherit the pipes. A read blocks until it has `Chunk` units or the end of file; the end of file
comes only when nobody holds the pipe.

## Runs

Run `tlc -config <cfg> <module>` in this directory. A run expected to end in a violation checks what
a document, test or comment says and the code does not do; its number of states is that at which
TLC stopped.

| Run | Module, configuration | Expected | Properties | Distinct states | What it shows |
|---|---|---|---|---|---|
| approval_service | `MCApprovalService`, `ApprovalService.cfg` | pass | ServiceTypeOK, OneSuccess, EvidenceAgrees, RejectionIsFinal, ReleaseWasGranted, OneApprovalPerKey, ImplementsOneTime | 2,311,416 | Concurrent requests, grants, rejections, consumptions and sweeps over one approval file, with crashes between a commit and its event, or its event and the answer, and with an event that the evidence path finds invalid: an approval is used at most once, only as it was granted; evidence, file and what callers are told agree; the service implements a one-time authorization. |
| hook_runtime | `MCHookRuntime`, `HookRuntime.cfg` | pass | OneReleasePerApproval, ReleaseIsApproved, ReleaseIsInEvidence | 1,064,718 | Two hook processes step by step through process() while policies are activated, an operator grants and rejects, and either dies or raises anywhere: what is released is approved once and is in evidence. |
| hook_wedge | `MCHookRuntime`, `HookRuntimeWedge.cfg` | violation | HeldCallsAreHeld | about 1,850 | A retry of an action that is already held, before it is granted or after its approval is spent, is refused by an error and not held. |
| distribution | `MCDistribution`, `Distribution.cfg` | pass | OutcomeIsTrue, NothingTrustedGoesBack, LowerIsAuthorized, OneDocumentPerVersion | 613,520 | One policy command at a time, that may raise or die at any step, with releases that roll back, reuse versions or sequences, are unhealthy, or need a new root: what is trusted never goes back. |
| export_pipeline | `MCExportPipeline`, `ExportPipeline.cfg` | pass | NothingVanishes, OverflowTakesTheOldest, DeliveryIsAccounted, FlushEnds | 141,732 | The queue of one process, recorded to by one thread that flushes or by two that do not, with a sink that accepts, refuses, answers late, delivers a part or raises, and a dead-letter file that may not be writable: what was accepted is pending, settled or was in the hands of a call that raised, and a flush ends. |
| policy_service | `MCPolicyService`, `PolicyService.cfg` | pass | AnswersAreCurrent, DenialsHold, AnswersAreEnforceable | 444,788 | One decision point that two agents ask, whose bundles restrict different paths, share versions or version and sequence, and are activated upwards and by rollback, directly or through the runtime, while adapters register other capabilities: an answer is what the active bundle says now where nobody else's can be cached under its key, and what everybody is denied stays denied. |
| policy_agents | `MCPolicyService`, `PolicyServiceAgents.cfg` | violation | DenyWins | about 150 | Two agents ask through one adapter: what one was allowed is the cached answer to the other, whom a rule denies. |
| onboarding | `MCOnboarding`, `Onboarding.cfg` | pass | ImportIsExact, SetupIsComplete, UninstallIsComplete, OneEndpoint, TheirsAreKept, CommandEnds | 1,317,937 | Up to three of setup with either choice of --hooks, repository-only setup of the same home, verify and uninstall, over the hooks of an earlier installation, whose stages fail, lose answers or are killed anywhere, while analysts, agents and users of the host change one thing: a PASS means what it says, a rerun repairs, and other tools' hooks survive. |
| mcp_gateway | `MCMcpGateway`, `McpGateway.cfg` | pass | EvidenceComesFirst, AnswersAreObserved, VerifyIsRight, ProxyEnds | 658,265 | The two pump threads of one MCP session over the evidence chain, with identifiers the client reuses, requests of the server, records that raise and a row of the chain that is damaged: a call is forwarded and an answer relayed only after its evidence, what verify reports is what is wrong, and the proxy ends. |
| rule_pack | `MCRulePack`, `RulePack.cfg` | pass | PassIsExact, ValidatedIsComplete, SyncRepairs, VerifiedPackageIsWhole | 332,091 | Synchronization, check, validation, recovery and packaging of a pack of three rules in any order, with two edits or tools that die between or inside two writes: a pass means what it says, a synchronization repairs what it can and fails for known reasons only, and shipped files that match their checksums belong together. |
| live_validation | `MCLiveValidation`, `LiveValidation.cfg` | pass | ReportIsEarned, ExitIsHonest, RunsEnd | 1,105,330 | One live validation of a rule about single events and one that counts, over a deployment that keeps the events and alerts of an earlier run and of another process and shows new ones late and in any order: a PASS was earned by this run, and the run ends. |
| cli_wrapper | `MCCliWrapper`, `CliWrapper.cfg` | pass | EndTellsTheSession, RunEnds | 897,661 | A wrapped agent, two descendants that share an identifier and may outlive it, and the two threads that relay its output through pipes that fill: the end of the session tells the truth about output and descendants, and comes. |

Each property has a mutant in `PROJECT.json`: one mapped definition, changed the way a bug would
change it (the definitions marked "Fault:" in the modules), under which the run finds it violated.
`ServiceTypeOK` is checked and proved. The type invariants of the other components are no
property of a run: each is proved, as a part of its inductive invariant.
`MCRulePack` has assumptions that TLC evaluates with the run: the parser of queries against a
printer, and the sequence evaluator against a reference definition.

### Bounds

- *approval_service*: two processes, two tokens, one key with two rival requests, two attempts per
  approval, one event that the evidence path finds invalid (`MaxInvalid`). Two is enough for every race over one approval: a transaction is atomic and touches
  one token, so a third process can only repeat what one of the two may do. The clock passes the
  expiry in both directions. The proofs lift the bounds from the safety properties here, and in every
  run below for which "Proofs" lists a theorem.
- *hook_runtime*: two hooks, an action that is held and one that is denied after an activation, two
  policies, an approval left by an earlier hook. *hook_wedge* needs one hook.
- *distribution*: one command at a time, nine releases that differ in one respect each: successor,
  authorized and unauthorized rollback, reused version, reused sequence, unhealthy, new root,
  tampered. Clock 0..3 covers before and after every expiry.
- *export_pipeline*: a queue of three, five events of which one is malformed, batches of two, one
  retry: a batch that is not full, an overflow during a flush, and an event attempted twice.
- *policy_service*: four bundles in three modes, two of one version and two of one version and
  sequence, which restrict different paths; two agents, whom one of the bundles tells apart; two
  adapters with the capabilities that the rules tell apart; generation at most three, two different
  requests heard under one version and sequence (`MaxHeard`): the one that was cached, and the one
  that finds it.
- *onboarding*: two rules and one that is not of the pack, one event, one other tool, one home, used
  by setup and by the repository-only check, and the home of an earlier installation, whose hooks are in
  one of the two documents; both targets or one of them as `--hooks`. Three commands: setup, setup again,
  uninstall is the longest story the properties are about. One change by somebody else, one poll
  before the deadline. `ENABLE_RULES` is not exported; the theorems are about every value of it.
- *mcp_gateway*: two lines of the client under two identifiers, or one reused, one request of the
  server's own, pipes of one line, one fault. Two calls are enough for every race over an entry of
  the table: a third would touch another one. A pipe of one line fills, so that each side may wait.
- *rule_pack*: a rule with a threshold on native events, one with a query, of the tier whose evasion
  classes are prescribed, and one with a threshold whose fixtures the code fixes; one retired
  identifier, two changes. Two, because the properties are about a disturbance and what a second
  one (another edit, or a tool that dies while it repairs) makes of it; each tool runs any number
  of times between them.
- *live_validation*: one run over what another left, a rule of each kind, a threshold of two,
  two file events of another process, two clock readings. A second run adds nothing that the
  leftovers in `Init` do not have.
- *cli_wrapper*: two streams, up to three units each, reads of two from pipes of two, so that a
  pipe fills and a read waits; two descendants that share a process identifier, one unit of theirs.

Deadlock is not checked where the bounds make the system stop (all hooks answered, all commands
run); it is in those of PolicyService and RulePack, which never stop.

### Fairness

`ExportPipeline` assumes `WF_vars(FlushStep)`: the thread that flushes goes on running, and the sink
answers or its timeout fires; nothing is assumed of the recording threads. `Onboarding` assumes
`WF_vars(CommandStep)`: a stage that can go on does. Its children and requests have timeouts
(`_run`, `urlopen`), so this is what the code arranges. Failing stages, crashes, analysts and the
agent's reports are under no fairness: `CommandEnds` holds although no agent ever reports, because
of the deadline.

`McpGateway` has the two pumps and the main thread fair, each by itself, and the server's reading of
its input while it is up; not its answers, its exit, nor the client. `ProxyEnds` asks what happens
when the client closes: the main thread closes the server's input, waits its time and returns
whatever the server does. It exempts a server thread that has died (an exception in its pump, which
has no handler), after which both sides can wait for each other: this is the case of the hazard at
`gateway.py:134`. `LiveValidation` assumes `WF_vars(Proceed)`: stages have a timeout, searches have
one, waits have a deadline; no document need ever arrive. `CliWrapper` has the wrapper, each relay
thread and the agent fair, so it assumes an agent that exits once it could write everything and a
terminal that takes what is written; descendants are under no fairness, `JoinGivesUp` is what the
timeout of `join` allows. `RunEnds` exempts a relay thread that died of an exception, as then the
agent may wait on a full pipe that nobody reads.

The other specifications are safety only; a hook, an approval or a policy command
has no duty to be retried.

## Findings

Violation runs, each of a statement quoted in `PROJECT.json`:

- **hook_wedge** — a retry of a call that is already held is refused by an error, since the retry
  draws a new decision identifier under the same idempotency key.
- **policy_agents** — the cache key has no agent identifier although rules match on it: what one
  agent was allowed answers another that a rule denies.

Seen while modelling, and kept out of the passing runs by their constants or their wording:

- Overlapping policy commands (`Clients` of two): of two commands the one that loaded first
  writes its older state back, and `NothingTrustedGoesBack` fails; nothing locks the directory.
- A command that raises after the `ACTIVE` switch is reported as "no policy state was activated"
  with the candidate active; `OutcomeIsTrue` speaks of commands that complete.
- An exception other than `ExportError` takes the batch that was in hand with it; `NothingVanishes`
  names these events as in the hands of a call that raised.
- With `ENABLE_RULES=true` exported (`Exported`), uninstall enables the rules and prints that they
  are disabled, and nothing verifies it; `UninstallIsComplete` says what the rules are then.
- After `setup --hooks claude` and `setup --hooks codex`, or a repository-only setup of the same home,
  the record of installed hooks is overwritten, and uninstall passes with hooks left:
  `UninstallIsComplete` exempts what the record does not name (`Overlooked`), and nothing else. A setup with
  another home leaves the installed hooks at the old one: `SetupIsComplete` asks for the home of the
  hooks only in documents that had none of ours.
- The activation callback of the documentation changes the decision point's bundle and not the
  runtime's: `AnswersAreCurrent` exempts what another bundle's metadata classified (`Undisputed`).
- An event that the gateway finds invalid is dead-lettered in silence: an approval is consumed, and
  its caller told so, with no such event in evidence (`EvidenceAgrees` counts the dead letters).
- MCP: a call that fails in the parser is answered by an error with a null identifier, which no
  client can match to its call; a result under a reused identifier is recorded for the latest call
  or for none (`AnswersAreObserved` exempts reused identifiers). `verify` sees neither a truncated
  tail nor what was appended after it.
- Rule pack: metadata whose history was cut off with the end of the file gets a new one with one entry,
  which the schema accepts: `ValidatedIsComplete` asks for every field but not for the entries. A
  synchronization ends in a bare `StopIteration` on tags that give no category or maturity, with
  the tree half written, and it restores neither evasion nor conformance files; `SyncRepairs` has
  the list. The gateway contract compares only fields that are in the catalogue, so a field dropped
  from catalogue and mapping together passes; `check` compares fewer fields than `sync` writes, and
  the second derivation it makes is what finds the rest; the packager reads the source again after
  the validation; `recover` overwrites the source in place. On a
  fixture, a sequence rule takes the first event after `maxspan` for its next stage when it matches,
  late as it is (`LateEventsCount` in `MCRulePack`).
- Wrapper: `read(4096)` waits for the whole chunk, so a prompt without newline is shown when 4096
  units have come or at the end; a descendant that keeps the pipe hides the tail and makes the
  count one of what was relayed; a reused process identifier hides a descendant; an `OSError` other
  than `BrokenPipeError` kills a relay thread alone.

## Proofs

Eight modules hold theorems that TLAPS checks; each theorem is `Spec => []Property` (or
`Spec => Property` for an action property or a refinement), for every value of the constants that
the named assumptions of the modules admit.

| Module | Theorem | Property | Hypotheses |
|---|---|---|---|
| `ApprovalProofs` | `ServiceTypeCorrect` | `ServiceTypeOK` | |
| | `AtMostOneSuccess` | `OneSuccess` | |
| | `EvidenceIsTrue` | `EvidenceAgrees` | |
| | `RejectedStaysRejected` | `RejectionIsFinal` | |
| | `KeysAreUnique` | `OneApprovalPerKey` | |
| | `ReleasedWasGranted` | `ReleaseWasGranted` | |
| | `Refinement` | `ImplementsOneTime` | |
| | `ApprovalReleasesOnce` | `OneReleasePerApproval` | |
| | `ReleasesAreApproved` | `ReleaseIsApproved` | |
| | `ReleasesAreInEvidence` | `ReleaseIsInEvidence` | |
| | `HooksMoveOneTime` | each step of the hooks is one of `OneTimeAuthorization`, or none | |
| `DistributionProofs` | `TrustNeverGoesBack` | `NothingTrustedGoesBack` | `OneAtATime` |
| | `RollbacksAreAuthorized` | `LowerIsAuthorized` | `OneAtATime` |
| | `VersionsAreDocuments` | `OneDocumentPerVersion` | `OneAtATime` |
| | `ReportsAreTrue` | `OutcomeIsTrue` | `OneAtATime` |
| `ExportPipelineProofs` | `NothingIsLost` | `NothingVanishes` | |
| | `OldestGoFirst` | `OverflowTakesTheOldest` | |
| | `DeliveryAddsUp` | `DeliveryIsAccounted` | |
| `PolicyServiceProofs` | `CacheIsTransparent` | `AnswersAreCurrent` | |
| | `DenialsWin` | `DenialsHold` | |
| | `OnlyTheEnforceable` | `AnswersAreEnforceable` | |
| `McpGatewayProofs` | `EvidenceIsFirst` | `EvidenceComesFirst` | |
| | `AnswersAreInEvidence` | `AnswersAreObserved` | |
| | `VerifyIsCorrect` | `VerifyIsRight` | |
| `CliWrapperProofs` | `TheEndIsTold` | `EndTellsTheSession` | |
| `RulesProofs` | `PassesAreExact` | `PassIsExact` | |
| | `Validated` | `ValidatedIsComplete` | |
| | `Repairs` | `SyncRepairs` | |
| | `Verified` | `VerifiedPackageIsWhole` | |
| | `ReportsAreEarned` | `ReportIsEarned` | |
| | `ExitsAreHonest` | `ExitIsHonest` | |
| `OnboardingProofs` | `OneIntegration` | `OneEndpoint` | |
| | `ImportsAreExact` | `ImportIsExact` | |
| | `SetupsAreComplete` | `SetupIsComplete` | |
| | `UninstallsAreComplete` | `UninstallIsComplete` | |
| | `TheirHooksAreKept` | `TheirsAreKept` | |

For each component the types (`TypeCorrect`, `ServiceTypeCorrect`, `PackTypeCorrect`, `LiveTypeCorrect`,
`OnboardingTypeCorrect`) and an inductive invariant are proved, from which the others follow by
propositional temporal logic. `ApprovalProofs` begins with the lemmas on the locked transactions
that the approval service and the hooks share. Every inductive invariant was checked by TLC, on
the configuration of its component's run, before it was proved.

### Assumptions

Constants are assumed to be of their types and, where the code needs it, not zero (`TTL`,
`BatchSize`, `Chunk` and the sizes of pipes), and the value for "none" to be none of the others.
Beyond that:

- `TargetAssumption` (hooks): actions of one payload have one target, because the payload hash
  covers the fields that the target hash is taken from.
- `BindingsAreClosed` (hooks): the sets of bindings and keys hold those that a hook can form. It says
  that the sets are large enough and limits no behaviour.
- `PipelineAssumption` (export): the threads are finitely many, and the queue has room for one event
  of each. No caller sets `max_queue`, which is 10,000, and a process records in at most two threads.
- `BundlesAssumption` (decisions): a bundle's rules can be told apart by their identifiers, so the
  conflict order has a first.
- `RulePackAssumption`: no supported rule is a retired one, and a file that is missing, cut short or
  of another content is unlike any derived one. `LiveAssumption`: there is a supported rule.
- `OnboardingAssumption`, `ImportAssumption`: the homes and the choices of `--hooks` are among those there
  are, the rule of the alert is a rule of the pack, and `ENABLE_RULES` is exported as true or false
  or not at all.

TLC evaluates these on every run.

The four theorems of `DistributionProofs` about properties have a hypothesis that the deployment, and
not the code, has to grant: `OneAtATime`, two policy commands do not overlap. Nothing locks the
directory, so without it the properties fail (see "Findings"); `TypeCorrect` does not need it.

The others have none. Where the code promises less than one would expect, the property says
so: `AnswersAreCurrent` is about requests that nobody else's answer can be cached for, `DenialsHold` about
what everybody who asked is denied (the run *policy_agents* shows what becomes of `DenyWins`, that one
agent is denied, and why), `UninstallIsComplete` about the hooks that are on record.

### The arguments

**Approval service.** None of the properties is inductive. The count of successes moves when a
caller is told, the evidence before it, and the file moved first, when the transaction committed: in
between there may be processes that have consumed and not yet said so. `ServiceIInv` ties them
together. `Spent`: an approval with a success, or with a process that holds one, is `consumed` in the
file; no two hold one of the same approval, and none does when its caller was told. `Told`: the event of
a success that is held or told is still to be emitted, or has been through the evidence path, and only
the latter once it was told. `EvidenceOfFile`: a consumption or rejection in evidence, or on its way there,
was committed. `Void`: what an operator rejected is `rejected` or `expired` in the
file, two states that no transaction leaves for `approved`. One lemma per transaction says what
it does to the file (`GrantEffect`, `ConsumeEffect`, ...), `TameStep`, `FileUnchanged` and `ToEmitEffect`
are the frame, and there is a lemma per action. For the refinement each step is first reduced to what
it does to the abstract states (`Moves`: one approval is drawn, authorized or spent, some are
voided, or nothing), by one lemma per transaction (`PutMoves`, `GrantMoves`, ...), and `StepRefines` maps
each to a step of `OneTimeAuthorization`. `FileStep` adds the record of grants: for
`ReleasedWasGranted`, `GrantsOnRecord` says that whatever is approved or spent has its grant on record.

**Hooks.** `ReleasesConsume` says that a call released by approval has, in the file, a consumed
approval of its own action and sequence, that no other call has consumed; `EnforcedInTurn` that
nothing is enforced before its stage, so that what was found cannot have been used in the meantime.
Evidence is a debt: `Owed(c, k)` is what call c must have in evidence by its stage, `Covered` says it
is there or still to be recorded before the next stage, and an answer is given only with
nothing left to record.
The lemmas on `Moves` serve here too: `HooksMoveOneTime` is the refinement step by step, and not from
the initial state, as the file a hook begins with may hold what an earlier hook requested.

**Distribution.** `CopyIsCurrent`: the copy a command works on is the state on disk until it writes
it; this is where one command at a time is needed. `Vetted`: what is being activated was accepted
against that very state. `PointerFollows` and `ReportFollows` say where `ACTIVE` is at each stage.
Then a step either leaves the state, marks its freshness, or commits what was vetted (`SavedStep`).

**Export pipeline.** The queue is the end of the order of acceptance (`QueueIsTheEnd`), and what was
taken from it is before the cut (`OthersAreBefore`): so what overflow took is older than all the queue
holds. `Apart`: an event that is held is held once, and is neither dead nor lost. `Bounded` counts
threads: those about to pop never outnumber the events, and those about to append have made or
found room. `Sent` bounds deliveries by attempts. Lemmas `Dropped`, `ElementsAppended` and
`ElementsCounted` say what sequences without repetition hold.

**Decisions.** `Backed`: whatever is cached or answered was decided of somebody who was heard under the
active version and sequence, of this payload with this capability, though perhaps of another agent,
by another bundle and its classification. Each property then says what is true of all who were heard,
or of one. The proof never uses the registry's generation, which shows that a key with the capability
in it does not need it.

**MCP gateway.** The invariant follows a line of the client by its number, from the thread that
reads it through the table and the pipes to the answer: where it is says what is in evidence
of it (`Started`, `Numbered`, `Recorded`, `Observable`). `ChainFollows` says of a chain, damaged or
not, that its rows are of recorded events in their order, and that one with no row missing is linked
as `verify` wants it; an append, an altered row and a lost row keep it (`AppendFollows`, ...).

**Wrapper.** Output is conserved (`Conserved`): what was written to a stream is counted, in the hands of
a read, or in the pipe. A relay is done only at the end of the file, when nobody is left who could
write, and the wrapper has waited for each relay, or given up on it, before it writes the end
(`JoinedInTurn`).

**Rule pack.** Nearly all of the work is the tree: `Plan` is a sequence of writes, one after the other, and
what a synchronization leaves is `After` the last of them or, if it died, after some n. The lemmas say
that every managed path is written once, that a finished plan leaves the derived tree
(`DerivedIsExact`), and that no write turns metadata into anything but metadata, missing or cut short
(`MetadataOK`), which is what lets the next run read its own fields back. `OwnChanges` says what may become of metadata's own fields, by a synchronization, by one that dies and
by an edit. `SaidOK` carries what a tool said until something changes; the proof that a validation means a complete pack goes through
`SoundRule`, rule by rule. `PackageOK` says which of the three shipped files are of the build in hand.

**Live validation.** `ReportIsEarned` looks back from a report to alerts that were raised long before it.
`Counted` says that when the run waits for the alert of a rule that counts, the process it waits for
has reached the threshold by the time from which alerts count (`run.start`); `PassesAreEarned` then turns each
pass among the results into an alert of that run (`AlertOf`), `EarnedReport` keeps it in the
report after the next run has begun. Events and alerts only become more, so what was earned stays
earned, and the finite sets of events only grow in cardinality.

**Onboarding.** `StateOK` has the types and which command can be at which stage. The stages of setup have
an order, which the invariant needs as sets: `NotEnrolled` are those before the end of the
enrolment, and so on to `NotSaved`; `SetupOK`, `SetupLabOK`, `SetupHooksOK` and `SetupRulesOK` say what a
setup that has not failed has behind it, once it is past each of them. `ImportOK` does this for the
requests of an import, as long as nobody disturbs it. `SetupHooksOK` follows the home of the handlers, which
`EditIs` does for an edit of a document by its owner. `UninstallOK` is what uninstall has behind it: the
documents it has taken our handlers out of are those of the record it has read, which no other
command can alter while it runs. What the installers do to a document is proved of documents of
any length: `Filter` and `Flat` are recursive functions over lengths, and their lemmas take a shortest
counterexample, by the well-founded order on the naturals.

### Only model-checked

- Liveness: `FlushEnds`, `CommandEnds`, `ProxyEnds`, `RunsEnd`, `RunEnds`. Fairness and `ENABLED` are
  beyond the prover.
- The parser and evaluators of `RuleLogic`, which are mutually recursive operators: the prover has no
  SMT backend for a module that reaches one. The assumptions of `MCRulePack` check them over bounded inputs; the theorems about the pack
  take the meaning of a query as a parameter.

## Not modelled

- Text: parsing of payloads and policies, redaction, classification, normalization. Pure functions
  of one document.
- Cryptography, canonical JSON, certificate handling: values that are equal or not, Booleans.
- SQLite's and the operating system's own guarantees: an append of evidence and the replacement of a
  file are atomic; `os.replace` is durable when it returns.
- The JSON schemas of rules, the Sigma candidates and their promotion, documentation, evidence and
  release checks, telemetry verifiers: each judges one document or repository at rest, keeps
  nothing and has no second actor.
- The static stages of a live validation and the repository checks of preflight: stages that pass
  or fail.
- The offline grace period, which is computed for the operator and not consulted when a hook loads
  `ACTIVE`; temporary files left under a reused process identifier, which make the next pointer
  switch raise (that failure is `Raise`); the window between reading and writing a hook document,
  in which another tool's edit is lost.
- A command of onboarding that is killed alone, not with its terminal: the import it runs would go on
  and could enable rules after a later uninstall. `Crash` ends both.
- The paging of Fleet's answers: the lookup of the integration reads one page of 100, and the agent
  policies of this deployment have a handful.
- A client of the MCP proxy that stops reading: its pipe is never full in `McpGateway`.
- The single events of a fixture in `LiveValidation`: a scenario of several events under a threshold is one
  document, shown when the last of them would be.
- What edits and accidents do to the values of metadata's own fields, beyond their loss: a change of
  the test tier, for one, is not modelled.
- API keys and prompts of setup; the purge of a home that also holds the key a second uninstall
  would need.
- Batches and malformed lines of MCP, which are one kind of line; environment and arguments of the
  wrapped agent.

## Plan

Written, in this order, because a wrong release is the worst the system can do, a wrong policy the
next, lost telemetry after it, and a wrong installation last: approvals, hooks, distribution,
export, decisions, onboarding, then the evidence chain under the MCP gateway, the rule pack, live
validation and the wrapper. Proved: every safety invariant, action property and refinement that
a passing run checks, and that the hooks move approvals as the service does. What could follow:

1. Onboarding with a command that is killed alone, so that its import runs on under the next one.
2. The parts of onboarding that "Not modelled" lists: keys and prompts, and the purge of a home.

## Running it

```
tlc -workers 2 -config ApprovalService.cfg MCApprovalService
tlapm ApprovalProofs.tla
```
