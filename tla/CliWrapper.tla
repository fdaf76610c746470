------------------------------ MODULE CliWrapper ------------------------------
(***************************************************************************)
(* "watchmyai run": the wrapper of a command-line agent                    *)
(* (adapters/generic_cli/wrapper.py, cli/main.py cmd_run).                 *)
(*                                                                         *)
(* The wrapper starts the agent, samples its descendants until it exits,   *)
(* waits a while for the two threads that relay and count its output, and  *)
(* records the end of the session.  Descendants inherit the pipes and may  *)
(* outlive the agent; output is counted in units, of which a read waits    *)
(* for Chunk.                                                              *)
(***************************************************************************)
EXTENDS Naturals, Sequences, FiniteSets

CONSTANTS Streams,    \* in the order in which their threads are joined
          Children,   \* descendants the agent may have
          PidOf,      \* their process identifiers, which may be used again
          MaxOutput,  \* units the agent writes to a stream
          MaxNoise,   \* units its descendants write
          PipeSize, Chunk,
          None

ASSUME WrapperAssumption ==
  /\ PipeSize \in Nat \ {0} /\ Chunk \in Nat \ {0}
  /\ MaxOutput \in Nat /\ MaxNoise \in Nat
  /\ Len(Streams) \in Nat \ {0} /\ DOMAIN Streams = 1..Len(Streams)

VARIABLES
  at,        \* the wrapper's place
  joined,    \* the relays it has waited for
  agent,
  todo,      \* what the agent has yet to write, per stream
  children,  \* descendants that live
  born,      \* descendants that were started
  noise,
  pipe, buffer,  \* units in the pipe, and in the hands of a read
  written,       \* history: units ever written
  relay, counted,
  late,      \* history: the relays a join gave up on
  seen,      \* process identifiers that were reported
  sampled,   \* history: descendants that a sample could read
  ended      \* what the end of the session says

wrapper == <<at, joined, late, seen, sampled, ended>>
relays == <<buffer, relay, counted>>
processes == <<agent, todo, children, born, noise>>
output == <<pipe, written>>
vars == <<wrapper, relays, processes, output>>

Names == { Streams[i] : i \in DOMAIN Streams }
Piped == \A s \in Names : relay[s] # "none"
Over == at \in {"returned", "raised"}

Init ==
  /\ at = "start" /\ joined = 0 /\ late = {} /\ seen = {} /\ sampled = {} /\ ended = None
  /\ agent = "none" /\ todo \in [Names -> 0..MaxOutput]
  /\ children = {} /\ born = {} /\ noise = 0
  /\ pipe = [s \in Names |-> 0] /\ written = pipe
  /\ buffer = pipe /\ counted = pipe
  /\ relay = [s \in Names |-> "none"]

-----------------------------------------------------------------------------
(* The wrapper.  Whatever cannot be recorded raises and ends it. *)

StartSession ==
  /\ at = "start" /\ at' \in {"spawn", "raised"}
  /\ UNCHANGED <<joined, late, seen, sampled, ended, relays, processes, output>>

\* With --passthrough the agent inherits the terminal.
Spawn(passthrough) ==
  /\ at = "spawn" /\ at' = "sample"
  /\ agent' = "running"
  /\ relay' = [s \in Names |-> IF passthrough THEN "none" ELSE "reading"]
  /\ UNCHANGED <<joined, late, seen, sampled, ended, buffer, counted, todo, children, born, noise, output>>

SpawnFails ==
  /\ at = "spawn" /\ at' = "raised"
  /\ UNCHANGED <<joined, late, seen, sampled, ended, relays, processes, output>>

\* Fault: a descendant counts as seen before it could be read.
SampleSeenFirst ==
  /\ at = "sample" /\ agent = "running"
  /\ \E readable \in SUBSET children :
       /\ seen' = seen \cup { PidOf[c] : c \in children }
       /\ sampled' = sampled \cup readable
       /\ at' \in IF \E c \in readable : PidOf[c] \notin seen THEN {"sample", "raised"} ELSE {"sample"}
  /\ UNCHANGED <<joined, late, ended, relays, processes, output>>

\* Descendants that are gone or denied are skipped, those seen before too.
Sample ==
  /\ at = "sample" /\ agent = "running"
  /\ \E readable \in SUBSET children :
       /\ seen' = seen \cup { PidOf[c] : c \in readable }
       /\ sampled' = sampled \cup readable
       /\ at' \in IF \E c \in readable : PidOf[c] \notin seen THEN {"sample", "raised"} ELSE {"sample"}
  /\ UNCHANGED <<joined, late, ended, relays, processes, output>>

AgentIsGone ==
  /\ at = "sample" /\ agent = "exited"
  /\ at' = IF Piped THEN "join" ELSE "end"
  /\ UNCHANGED <<joined, late, seen, sampled, ended, relays, processes, output>>

Joining == Streams[joined + 1]

NextJoin ==
  /\ joined' = joined + 1
  /\ at' = IF joined' = Len(Streams) THEN "end" ELSE "join"
  /\ UNCHANGED <<seen, sampled, ended, relays, processes, output>>

Join == at = "join" /\ relay[Joining] \in {"done", "dead"} /\ late' = late /\ NextJoin

\* Fault: the threads are joined without a timeout.
JoinForEver == FALSE

\* Five seconds: a thread whose pipe a descendant holds needs longer, one whose
\* reader does not read, and perhaps one that still has much to relay.
JoinGivesUp ==
  /\ at = "join" /\ relay[Joining] \in {"reading", "writing"}
  /\ late' = late \cup {Joining}
  /\ NextJoin

EndSession ==
  /\ at = "end"
  /\ \/ at' = "returned" /\ ended' = [output |-> counted, children |-> Cardinality(seen)]
     \/ at' = "raised" /\ ended' = None
  /\ UNCHANGED <<joined, late, seen, sampled, relays, processes, output>>

-----------------------------------------------------------------------------
(* A relay thread, which is a daemon: it ends with the wrapper. *)

EndOfFile(s) == pipe[s] = 0 /\ agent = "exited" /\ children = {}

Fill(s) ==
  /\ relay[s] = "reading" /\ pipe[s] > 0 /\ buffer[s] < Chunk
  /\ pipe' = [pipe EXCEPT ![s] = @ - 1]
  /\ buffer' = [buffer EXCEPT ![s] = @ + 1]
  /\ UNCHANGED <<relay, counted, written, wrapper, processes>>

\* read returns when it has a whole chunk, or what there is at the end.
Read(s) ==
  /\ relay[s] = "reading"
  /\ buffer[s] = Chunk \/ (buffer[s] > 0 /\ EndOfFile(s))
  /\ counted' = [counted EXCEPT ![s] = @ + buffer[s]]
  /\ buffer' = [buffer EXCEPT ![s] = 0]
  /\ relay' = [relay EXCEPT ![s] = "writing"]
  /\ UNCHANGED <<wrapper, processes, output>>

\* Nobody there to read is no reason to stop; any other failure ends the thread.
Write(s) ==
  /\ relay[s] = "writing" /\ relay' = [relay EXCEPT ![s] = "reading"]
  /\ UNCHANGED <<buffer, counted, wrapper, processes, output>>

WriteRaises(s) ==
  /\ relay[s] = "writing" /\ relay' = [relay EXCEPT ![s] = "dead"]
  /\ UNCHANGED <<buffer, counted, wrapper, processes, output>>

Finish(s) ==
  /\ relay[s] = "reading" /\ buffer[s] = 0 /\ EndOfFile(s)
  /\ relay' = [relay EXCEPT ![s] = "done"]
  /\ UNCHANGED <<buffer, counted, wrapper, processes, output>>

-----------------------------------------------------------------------------
(* The agent and its descendants. *)

Put(s) ==
  /\ relay[s] # "none" /\ pipe[s] < PipeSize
  /\ pipe' = [pipe EXCEPT ![s] = @ + 1]
  /\ written' = [written EXCEPT ![s] = @ + 1]
  /\ UNCHANGED <<wrapper, relays>>

AgentWrites(s) ==
  /\ agent = "running" /\ todo[s] > 0 /\ Put(s)
  /\ todo' = [todo EXCEPT ![s] = @ - 1]
  /\ UNCHANGED <<agent, children, born, noise>>

\* It exits when it has written everything.
AgentExits ==
  /\ agent = "running"
  /\ Piped => \A s \in Names : todo[s] = 0
  /\ agent' = "exited"
  /\ UNCHANGED <<todo, children, born, noise, wrapper, relays, output>>

AgentKilled ==
  /\ agent = "running" /\ agent' = "exited"
  /\ UNCHANGED <<todo, children, born, noise, wrapper, relays, output>>

Fork(c) ==
  /\ agent = "running" \/ children # {}
  /\ c \notin born /\ \A d \in children : PidOf[d] # PidOf[c]
  /\ children' = children \cup {c} /\ born' = born \cup {c}
  /\ UNCHANGED <<agent, todo, noise, wrapper, relays, output>>

ChildWrites(s) ==
  /\ children # {} /\ noise < MaxNoise /\ Put(s)
  /\ noise' = noise + 1
  /\ UNCHANGED <<agent, todo, children, born>>

ChildExits(c) ==
  /\ c \in children /\ children' = children \ {c}
  /\ UNCHANGED <<agent, todo, born, noise, wrapper, relays, output>>

-----------------------------------------------------------------------------
WrapperStep ==
  \/ StartSession \/ (\E passthrough \in BOOLEAN : Spawn(passthrough)) \/ SpawnFails
  \/ Sample \/ AgentIsGone \/ Join \/ JoinGivesUp \/ EndSession

RelayStep(s) == ~Over /\ (Fill(s) \/ Read(s) \/ Write(s) \/ Finish(s))
AgentStep == ~Over /\ (AgentExits \/ \E s \in Names : AgentWrites(s))

Environment ==
  /\ ~Over
  /\ \/ AgentKilled
     \/ \E s \in Names : WriteRaises(s) \/ ChildWrites(s)
     \/ \E c \in Children : Fork(c) \/ ChildExits(c)

Next == WrapperStep \/ (\E s \in Names : RelayStep(s)) \/ AgentStep \/ Environment

Spec == Init /\ [][Next]_vars

\* Threads run, the terminal takes what is written to it, and the agent exits
\* once it could write everything; its descendants need not.
FairSpec ==
  /\ Spec
  /\ WF_vars(WrapperStep) /\ WF_vars(AgentStep)
  /\ \A s \in Names : WF_vars(RelayStep(s))

-----------------------------------------------------------------------------
(* Properties. *)

TypeOK ==
  /\ at \in {"start", "spawn", "sample", "join", "end", "returned", "raised"}
  /\ joined \in 0..Len(Streams)
  /\ agent \in {"none", "running", "exited"}
  /\ todo \in [Names -> 0..MaxOutput] /\ noise \in 0..MaxNoise
  /\ children \subseteq born /\ born \subseteq Children
  /\ pipe \in [Names -> 0..PipeSize] /\ buffer \in [Names -> 0..Chunk]
  /\ written \in [Names -> Nat] /\ counted \in [Names -> Nat]
  /\ relay \in [Names -> {"none", "reading", "writing", "done", "dead"}]
  /\ late \subseteq Names /\ sampled \subseteq Children

\* The end of a session comes after the agent's, and what it says is so: the
\* counts are of all that was written, except where a thread died or the wait
\* for it was given up, because a descendant kept the pipe, the terminal did not
\* take what was written or the time was short, and then of no more; every
\* descendant that a sample could read was reported under its identifier
\* (generic_cli/wrapper.py: run_wrapped).
EndTellsTheSession ==
  ended # None =>
    /\ agent = "exited"
    /\ \A s \in Names : /\ ended.output[s] <= written[s]
                        /\ relay[s] # "dead" /\ s \notin late => ended.output[s] = written[s]
    /\ { PidOf[c] : c \in sampled } = seen /\ ended.children = Cardinality(seen)

\* A wrapped session ends, whatever descendants do with its pipes and however
\* much is written, unless a relay thread died and left the agent with a full
\* pipe (generic_cli/wrapper.py: _relay, run_wrapped).
RunEnds == at = "start" ~> (Over \/ \E s \in Names : relay[s] = "dead")
===============================================================================
