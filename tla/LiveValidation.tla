---------------------------- MODULE LiveValidation ----------------------------
(***************************************************************************)
(* The validation of the supported rules against a connected deployment    *)
(* (scripts/validate/run_supported_rules.py with scenarios/runners/        *)
(* run_scenario.py).  A run executes the static stages; asked to, it then  *)
(* plays one scenario per rule, waits for the alert that the scenario      *)
(* should raise, and writes a report.                                      *)
(*                                                                         *)
(* Elasticsearch is the environment: documents become visible late and in  *)
(* any order, its rules raise alerts when they please, and the documents   *)
(* and alerts of earlier runs and of other processes stay.  A scenario is  *)
(* known by the pair of its run and its rule, as by its uuid; a process by *)
(* the run it is, or Other.                                                *)
(***************************************************************************)
EXTENDS SupportedRules, Naturals, FiniteSets

CONSTANTS Threshold,   \* how many of them a native rule asks for
          MaxRuns,     \* validations started
          MaxTime,     \* readings of the clock
          MaxNoise,    \* file events of other processes
          Other        \* a process that is no validation

Reports == [n : Nat, static : BOOLEAN, live : {"PASS", "FAIL", "SKIPPED"}]

ASSUME LiveAssumption ==
  /\ Threshold \in Nat \ {0}
  /\ Supported # <<>>
  /\ None \notin Reports \cup {"ok"}

VARIABLES clock,
          travelling,  \* events that are not visible yet
          index,       \* events that are: [run, entity, at, n]
          alerts,      \* [rule, run, entity, of, at]: "of" events, raised at "at"
          noise,       \* file events of other processes so far
          run,         \* the validation under way, or the last one
          report,      \* the results file
          exit         \* the exit status of the last run, None while it runs

liveVars == <<clock, travelling, index, alerts, noise, run, report, exit>>
environment == <<clock, travelling, index, alerts, noise>>

Fixture == Rules \ Native

Ready == [at |-> "done", n |-> 0, live |-> FALSE, static |-> FALSE,
          start |-> 0, evidence |-> None, results |-> <<>>]

\* The rule whose turn it is, and its scenario.
Rule == Supported[Len(run.results) + 1]
Scenario == <<run.n, Rule>>

\* What a scenario causes: a fixture's events, whose time nothing reads, and file
\* events of the validator for a native rule.  A fixture is one document here
\* even where it is several that a threshold counts: they are of one session, and
\* the rule says nothing until the last of them is visible.
EventsOf(n, r, at) ==
  IF r \in Native
  THEN { [run |-> <<n, r>>, entity |-> n, at |-> at, n |-> i] : i \in 1..Threshold }
  ELSE { [run |-> <<n, r>>, entity |-> None, at |-> 0, n |-> 1] }

\* The alert about a fixture copies its event, or what its events have in common,
\* the session; the one about file events names the process.
AlertFor(r, scenario, entity, of, at) ==
  [rule |-> r, run |-> IF r \in Native THEN None ELSE scenario, entity |-> entity, of |-> of, at |-> at]

\* A run came before, and left events, alerts and perhaps a report; another
\* process may have written enough files of its own to raise an alert.
LiveInit ==
  /\ clock = 0 /\ noise = 0
  /\ \E sent \in SUBSET Rules, busy \in BOOLEAN : \E seen \in SUBSET sent : \E raised \in SUBSET seen :
       LET others == { [run |-> None, entity |-> Other, at |-> 0, n |-> i] : i \in 1..Threshold }
       IN  /\ travelling = UNION { EventsOf(0, r, 0) : r \in sent \ seen }
           /\ index = (UNION { EventsOf(0, r, 0) : r \in seen }) \cup (IF busy THEN others ELSE {})
           /\ alerts = { IF r \in Native THEN AlertFor(r, None, 0, Threshold, 0)
                                         ELSE AlertFor(r, <<0, r>>, None, 1, 0) : r \in raised }
                       \cup { AlertFor(r, None, Other, Threshold, 0) : r \in IF busy THEN Native ELSE {} }
           /\ report \in {None, [n |-> 0, static |-> TRUE,
                                 live |-> IF raised = Rules THEN "PASS" ELSE "FAIL"]}
  /\ run = Ready
  /\ exit = None

-----------------------------------------------------------------------------
(* The validator. *)

Begin(live) ==
  /\ run.at = "done" /\ run.n < MaxRuns
  /\ run' = [Ready EXCEPT !.at = "static", !.n = run.n + 1, !.live = live]
  /\ exit' = None
  /\ UNCHANGED <<report, environment>>

\* All static stages are run, whichever fails.
StaticStages ==
  /\ run.at = "static"
  /\ \E ok \in BOOLEAN :
       run' = [run EXCEPT !.static = ok, !.at = IF run.live THEN "prerequisites" ELSE "report"]
  /\ UNCHANGED <<report, exit, environment>>

\* Configuration, preflight, and the import that enables the rules: a failure
\* ends the live part without a result.
Prerequisites ==
  /\ run.at = "prerequisites"
  /\ \/ run' = [run EXCEPT !.at = "scenario"]
     \/ run' = [run EXCEPT !.at = "report", !.static = FALSE]   \* the import's stage counts as static
     \/ run' = [run EXCEPT !.at = "report"]
  /\ UNCHANGED <<report, exit, environment>>

\* A rule's result is in; the next one's turn, or the report.
Concluded(result) ==
  [run EXCEPT !.results = Append(@, result), !.evidence = None,
              !.at = IF Len(run.results) + 1 = Len(Supported) THEN "report" ELSE "scenario"]

\* The platform has no such scenario.
SkipScenario ==
  /\ run.at = "scenario"
  /\ run' = Concluded("SKIPPED")
  /\ UNCHANGED <<report, exit, environment>>

\* The scenario is written and, for a fixture, sent.
PlayScenario ==
  /\ run.at = "scenario"
  /\ travelling' = travelling \cup EventsOf(run.n, Rule, clock)
  /\ run' = [run EXCEPT !.start = clock, !.at = IF Rule \in Native THEN "source" ELSE "alert"]
  /\ UNCHANGED <<clock, index, alerts, noise, report, exit>>

\* Writing or sending raises, before or after the events are out.
ScenarioFails ==
  /\ run.at = "scenario"
  /\ travelling' \in {travelling, travelling \cup EventsOf(run.n, Rule, clock)}
  /\ run' = Concluded("FAIL")
  /\ UNCHANGED <<clock, index, alerts, noise, report, exit>>

\* search_native_events, by the process that caused them.
SourceEvents(entity) ==
  { e \in index : e.run = Scenario /\ e.entity = entity /\ e.at >= run.start }

\* native_source_evidence: the processes with enough events.
Eligible ==
  { entity \in { e.entity : e \in index } : Cardinality(SourceEvents(entity)) >= Threshold }

PollSource ==
  /\ run.at = "source"
  /\ \/ /\ Cardinality(Eligible) > 1
        /\ run' = Concluded("FAIL")
     \/ \E entity \in Eligible :
          /\ Eligible = {entity}
          /\ \E last \in SourceEvents(entity) :
               /\ \A e \in SourceEvents(entity) : e.at <= last.at
               /\ run' = [run EXCEPT !.at = "alert", !.start = last.at, !.evidence = entity]
  /\ UNCHANGED <<report, exit, environment>>

\* Fault: an alert of the rule is enough for a fixture.
MatchesUncorrelated(a) ==
  /\ a.rule = Rule
  /\ a.at >= run.start
  /\ Rule \in Native => a.entity = run.evidence

\* search, alert_is_current and threshold_alert_matches_entity.
Matches(a) ==
  /\ a.rule = Rule
  /\ a.at >= run.start
  /\ Rule \in Fixture => a.run = Scenario
  /\ Rule \in Native => a.entity = run.evidence

PollAlert ==
  /\ run.at = "alert"
  /\ \E a \in alerts : Matches(a)
  /\ run' = Concluded("PASS")
  /\ UNCHANGED <<report, exit, environment>>

\* Fault: the source events are waited for without a deadline.
DeadlineOfAlert ==
  /\ run.at = "alert"
  /\ run' = Concluded("FAIL")
  /\ UNCHANGED <<report, exit, environment>>

\* The deadline passes, whether or not something came after the last look, or
\* a search fails: FAIL stands for ERROR too.
Deadline ==
  /\ run.at \in {"source", "alert"}
  /\ run' = Concluded("FAIL")
  /\ UNCHANGED <<report, exit, environment>>

\* Fault: complete is what has not failed.
NothingFailed == \A i \in DOMAIN run.results : run.results[i] # "FAIL"

LiveComplete == Len(run.results) = Len(Supported) /\ \A i \in DOMAIN run.results : run.results[i] = "PASS"

Report ==
  /\ run.at = "report"
  /\ report' = [n |-> run.n, static |-> run.static,
                live |-> IF ~run.live THEN "SKIPPED" ELSE IF LiveComplete THEN "PASS" ELSE "FAIL"]
  /\ exit' = IF run.static /\ (run.live => LiveComplete) THEN "ok" ELSE "invalid"
  /\ run' = [run EXCEPT !.at = "done"]
  /\ UNCHANGED environment

\* A stage or the live part raises something that nothing handles, or the run
\* is killed: an earlier report stays, unless it was being replaced.
Die ==
  /\ run.at # "done"
  /\ run' = [run EXCEPT !.at = "done"]
  /\ exit' = "died"
  /\ \/ UNCHANGED report
     \/ run.at = "report" /\ report' = None
  /\ UNCHANGED environment

-----------------------------------------------------------------------------
(* The deployment. *)

Tick ==
  /\ clock < MaxTime
  /\ clock' = clock + 1
  /\ UNCHANGED <<travelling, index, alerts, noise, run, report, exit>>

\* Another process writes among the files of the scenario.
OtherWrites ==
  /\ run.at = "source" /\ noise < MaxNoise
  /\ index' = index \cup {[run |-> Scenario, entity |-> Other, at |-> clock, n |-> noise]}
  /\ noise' = noise + 1
  /\ UNCHANGED <<clock, travelling, alerts, run, report, exit>>

\* The events of a scenario become visible.
Arrive ==
  \E scenario \in { e.run : e \in travelling } :
    LET arriving == { e \in travelling : e.run = scenario }
    IN  /\ travelling' = travelling \ arriving
        /\ index' = index \cup arriving
        /\ UNCHANGED <<clock, alerts, noise, run, report, exit>>

\* A rule that looks at a fixture's events raises its alert about them once.
RaiseForEvent ==
  \E e \in index :
    /\ e.entity = None
    /\ \A a \in alerts : a.run # e.run
    /\ alerts' = alerts \cup {AlertFor(e.run[2], e.run, None, 1, clock)}
    /\ UNCHANGED <<clock, travelling, index, noise, run, report, exit>>

\* A rule that counts names the process, wherever it wrote, and again when it
\* has written more.
RaiseForProcess ==
  \E r \in Native : \E entity \in { e.entity : e \in index } \ {None} :
    LET counted == Cardinality({ e \in index : e.entity = entity /\ (entity # Other => e.run[2] = r) })
    IN  /\ counted >= Threshold
        /\ \A a \in alerts : a.rule = r /\ a.entity = entity => a.of < counted
        /\ alerts' = alerts \cup {AlertFor(r, None, entity, counted, clock)}
        /\ UNCHANGED <<clock, travelling, index, noise, run, report, exit>>

Proceed ==
  \/ StaticStages \/ Prerequisites
  \/ SkipScenario \/ PlayScenario
  \/ PollSource \/ PollAlert \/ Deadline
  \/ Report

Validator == Proceed \/ ScenarioFails \/ Die

\* The deployment moves while scenarios are played: no other step looks at it,
\* so what happens between the runs may as well happen in the next one.
Deployment ==
  /\ run.at \in {"scenario", "source", "alert"}
  /\ Tick \/ OtherWrites \/ Arrive \/ RaiseForEvent \/ RaiseForProcess

LiveNext == (\E live \in BOOLEAN : Begin(live)) \/ Validator \/ Deployment

LiveSpec == LiveInit /\ [][LiveNext]_liveVars

\* A run keeps going: a stage returns or is stopped after its timeout, every
\* search has one, and a wait ends at its deadline.
FairLiveSpec == LiveSpec /\ WF_liveVars(Proceed)

-----------------------------------------------------------------------------
(* Properties. *)

\* A report that says PASS was earned by the run it is of: every rule has an
\* alert about that run's own scenario, or that names the process that reached
\* the threshold in its directory and is no older than those events.  Alerts of
\* earlier runs, late or ahead of their time, and of other processes never count
\* (docs/VERIFICATION.md; run_supported_rules.py: _poll_alert).
ReportIsEarned ==
  (report # None /\ report.live = "PASS") =>
    \A r \in Rules : \E a \in alerts :
      /\ a.rule = r
      /\ r \in Fixture => a.run = <<report.n, r>>
      /\ r \in Native =>
           Cardinality({ e \in index : /\ e.run = <<report.n, r>> /\ e.entity = a.entity
                                       /\ e.at <= a.at }) >= Threshold

\* A run that exits well leaves a report of itself that says so: the static
\* stages passed and, when it was asked to go live, every rule did; a skipped
\* rule, an error or a missing result is no pass (run_supported_rules.py: main).
ExitIsHonest ==
  exit = "ok" => /\ report # None /\ report.n = run.n /\ report.static
                 /\ report.live = IF run.live THEN "PASS" ELSE "SKIPPED"
                 /\ run.live => run.results = [i \in DOMAIN Supported |-> "PASS"]

\* Every run ends, whatever never arrives (run_supported_rules.py: _poll_alert,
\* _poll_native_source_evidence, _command).
RunsEnd == run.at # "done" ~> run.at = "done"
=============================================================================
