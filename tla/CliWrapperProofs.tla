--------------------------- MODULE CliWrapperProofs ---------------------------
(***************************************************************************)
(* That the end of a wrapped session says what happened, for any streams,  *)
(* any descendants and any amount of output.                               *)
(*                                                                         *)
(* Output is conserved: what was written to a stream is counted, in the    *)
(* hands of a read, or in the pipe.  A relay is done only at the end of    *)
(* the file, after which nobody can write to it again; the wrapper has     *)
(* waited for every relay, or given up on it, before it writes the end.    *)
(***************************************************************************)
EXTENDS CliWrapper, TLAPS

\* Nobody is left who could write.
Silent == agent = "exited" /\ children = {}

Conserved ==
  \A s \in Names :
    /\ written[s] = counted[s] + buffer[s] + pipe[s]
    /\ relay[s] = "none" => written[s] = 0
    /\ relay[s] = "done" => pipe[s] = 0 /\ buffer[s] = 0 /\ Silent

\* --passthrough is for all of the streams.
Together == Piped \/ \A s \in Names : relay[s] = "none"

AgentFirst ==
  /\ at \in {"start", "spawn"} =>
       agent = "none" /\ children = {} /\ \A s \in Names : relay[s] = "none"
  /\ at \in {"join", "end", "returned"} => agent = "exited"

WaitedFor(s) == relay[s] \in {"done", "dead"} \/ s \in late

JoinedInTurn ==
  /\ at \in {"start", "spawn", "sample"} => joined = 0
  /\ at = "join" => Piped /\ joined < Len(Streams)
  /\ at \in {"end", "returned"} /\ Piped => joined = Len(Streams)
  /\ \A i \in 1..joined : WaitedFor(Streams[i])

Told ==
  /\ seen = {PidOf[c] : c \in sampled}
  /\ ended # None =>
       at = "returned" /\ ended = [output |-> counted, children |-> Cardinality(seen)]

CInv == TypeOK /\ Conserved /\ Together /\ AgentFirst /\ JoinedInTurn /\ Told

LEMMA InitInv == Init => CInv
<1> SUFFICES ASSUME Init PROVE CInv
  OBVIOUS
<1> USE WrapperAssumption DEF Init
<1>1. TypeOK
  BY DEF TypeOK, Names
<1>2. Conserved
  BY DEF Conserved
<1>3. Together /\ AgentFirst /\ JoinedInTurn /\ Told
  BY DEF Together, AgentFirst, JoinedInTurn, Told
<1> QED
  BY <1>1, <1>2, <1>3 DEF CInv

-----------------------------------------------------------------------------
(* The wrapper. *)

LEMMA JoinInv ==
  ASSUME CInv, Join \/ JoinGivesUp
  PROVE  CInv'
<1> USE DEF CInv
<1>1. /\ at = "join" /\ NextJoin /\ late \subseteq late' /\ late' \subseteq late \cup {Joining}
      /\ relay[Joining] \in {"done", "dead"} \/ Joining \in late'
  BY DEF Join, JoinGivesUp
<1>2. /\ joined' = joined + 1
      /\ at' = IF joined' = Len(Streams) THEN "end" ELSE "join"
      /\ UNCHANGED <<seen, sampled, ended, relays, processes, output>>
  BY <1>1 DEF NextJoin
<1>3. joined \in Nat /\ Len(Streams) \in Nat /\ joined < Len(Streams) /\ Piped
  BY <1>1, WrapperAssumption DEF TypeOK, JoinedInTurn
<1>4. joined' \in 0..Len(Streams) /\ joined + 1 \in DOMAIN Streams
  <2> DEFINE n == Len(Streams)
  <2>1. n \in Nat /\ joined < n /\ DOMAIN Streams = 1..n
    BY <1>3, WrapperAssumption
  <2> HIDE DEF n
  <2>2. joined' \in 0..n /\ joined + 1 \in 1..n
    BY <1>2, <1>3, <2>1
  <2> QED
    BY <2>1, <2>2 DEF n
<1>5. late' \subseteq Names
  BY <1>1, <1>4 DEF TypeOK, Names, Joining
<1>6. TypeOK'
  BY <1>2, <1>4, <1>5 DEF TypeOK, relays, processes, output
<1>7. Conserved' /\ Together' /\ AgentFirst'
  BY <1>1, <1>2 DEF Conserved, Silent, Together, Piped, AgentFirst, relays, processes, output
<1>8. ASSUME NEW i \in 1..joined' PROVE WaitedFor(Streams[i])'
  <2>1. i \in 1..joined \/ Streams[i] = Joining
    BY <1>2, <1>3 DEF Joining
  <2>2. relay' = relay
    BY <1>2 DEF relays
  <2> QED
    BY <1>1, <2>1, <2>2 DEF JoinedInTurn, WaitedFor
<1>9. JoinedInTurn'
  <2>1. Piped'
    BY <1>2, <1>3 DEF Piped, relays
  <2>2. at' = "join" => joined' < Len(Streams)
    BY <1>2, <1>3
  <2> QED
    BY <1>2, <1>8, <2>1, <2>2 DEF JoinedInTurn
<1>10. Told'
  BY <1>1, <1>2 DEF Told
<1> QED
  BY <1>6, <1>7, <1>9, <1>10

\* What is seen of some descendants and of others is seen of all of them.
LEMMA IdentifiersJoined ==
  ASSUME NEW some, NEW others
  PROVE  {PidOf[c] : c \in some \cup others}
           = {PidOf[c] : c \in some} \cup {PidOf[c] : c \in others}
  OBVIOUS

LEMMA WrapperInv ==
  ASSUME CInv, WrapperStep
  PROVE  CInv'
<1> USE WrapperAssumption
<1> USE DEF CInv, TypeOK, Conserved, Together, AgentFirst, JoinedInTurn, Told, Piped,
            WaitedFor, Silent, wrapper, relays, processes, output
<1>1. CASE StartSession
  BY <1>1 DEF StartSession
<1>2. CASE \E passthrough \in BOOLEAN : Spawn(passthrough)
  <2>1. PICK passthrough \in BOOLEAN : Spawn(passthrough)
    BY <1>2
  <2>2. relay' \in [Names -> {"none", "reading"}]
    BY <2>1 DEF Spawn
  <2>3. TypeOK'
    BY <2>1, <2>2 DEF Spawn
  <2>4. Conserved'
    BY <2>1, <2>2 DEF Spawn
  <2>5. Together'
    BY <2>1 DEF Spawn
  <2>6. AgentFirst' /\ JoinedInTurn' /\ Told'
    BY <2>1 DEF Spawn
  <2> QED
    BY <2>3, <2>4, <2>5, <2>6
<1>3. CASE SpawnFails
  BY <1>3 DEF SpawnFails
<1>4. CASE Sample
  <2>1. PICK readable \in SUBSET children :
          /\ seen' = seen \cup {PidOf[c] : c \in readable}
          /\ sampled' = sampled \cup readable
          /\ at' \in {"sample", "raised"}
    BY <1>4 DEF Sample
  <2>2. seen' = {PidOf[c] : c \in sampled'}
    <3>1. seen = {PidOf[c] : c \in sampled}
      OBVIOUS
    <3> QED
      BY <2>1, <3>1, IdentifiersJoined
  <2>3. TypeOK'
    <3>1. at' \in {"sample", "raised"} /\ sampled' \subseteq Children
      BY <2>1
    <3>2. UNCHANGED <<joined, late, ended, relay, buffer, agent, todo, children, born, noise,
                      pipe, written, counted>>
      BY <1>4 DEF Sample
    <3> QED
      BY <3>1, <3>2
  <2>4. Conserved' /\ Together' /\ AgentFirst'
    BY <1>4, <2>1 DEF Sample
  <2>5. JoinedInTurn'
    BY <1>4, <2>1 DEF Sample
  <2>6. Told'
    BY <1>4, <2>1, <2>2 DEF Sample
  <2> QED
    BY <2>3, <2>4, <2>5, <2>6
<1>5. CASE AgentIsGone
  BY <1>5 DEF AgentIsGone
<1>6. CASE Join \/ JoinGivesUp
  BY <1>6, JoinInv DEF CInv
<1>7. CASE EndSession
  BY <1>7 DEF EndSession
<1> QED
  BY <1>1, <1>2, <1>3, <1>4, <1>5, <1>6, <1>7 DEF WrapperStep

-----------------------------------------------------------------------------
(* The relays, the agent and its descendants leave the wrapper alone. *)

\* What is left of the invariant when the wrapper does nothing and no relay
\* that was waited for comes back.
LEMMA WrapperWaits ==
  ASSUME CInv, ~Over, UNCHANGED wrapper, TypeOK', Conserved',
         \A s \in Names : /\ relay'[s] = "none" <=> relay[s] = "none"
                          /\ relay[s] \in {"done", "dead"} => relay'[s] = relay[s],
         agent' = agent \/ agent = "running",
         agent = "none" /\ children = {} => children' = {}
  PROVE  CInv'
<1> USE WrapperAssumption
<1> USE DEF CInv, Over, wrapper
<1>1. Together'
  BY DEF Together, Piped
<1>2. AgentFirst'
  BY DEF AgentFirst, TypeOK
<1>3. JoinedInTurn'
  <2>1. ASSUME NEW i \in 1..joined PROVE Streams[i] \in Names
    <3>1. joined \in 0..Len(Streams)
      BY DEF TypeOK
    <3>2. i \in DOMAIN Streams
      BY <3>1
    <3> QED
      BY <3>2 DEF Names
  <2> QED
    BY <2>1 DEF JoinedInTurn, WaitedFor, Piped, TypeOK
<1>4. Told'
  BY DEF Told
<1> QED
  BY <1>1, <1>2, <1>3, <1>4

LEMMA RelayInv ==
  ASSUME CInv, ~Over, NEW s \in Names, Fill(s) \/ Read(s) \/ Write(s) \/ WriteRaises(s) \/ Finish(s)
  PROVE  CInv'
<1> USE WrapperAssumption
<1> USE DEF CInv, TypeOK, Conserved, Silent, processes, output
<1>1. /\ pipe' \in [Names -> 0..PipeSize] /\ buffer' \in [Names -> 0..Chunk]
      /\ counted' \in [Names -> Nat] /\ relay' \in [Names -> {"none", "reading", "writing", "done", "dead"}]
      /\ Conserved' /\ UNCHANGED <<written, processes, wrapper>>
  <2>1. CASE Fill(s)
    <3>1. /\ pipe[s] \in 0..PipeSize /\ pipe[s] > 0 /\ buffer[s] \in 0..Chunk /\ buffer[s] < Chunk
          /\ relay[s] = "reading"
          /\ pipe' = [pipe EXCEPT ![s] = pipe[s] - 1]
          /\ buffer' = [buffer EXCEPT ![s] = buffer[s] + 1]
          /\ UNCHANGED <<relay, counted, written, processes, wrapper>>
      BY <2>1 DEF Fill
    <3>2. pipe[s] - 1 \in 0..PipeSize /\ buffer[s] + 1 \in 0..Chunk
      BY <3>1, WrapperAssumption
    <3>3. pipe' \in [Names -> 0..PipeSize] /\ buffer' \in [Names -> 0..Chunk]
      BY <3>1, <3>2
    <3>4. ASSUME NEW r \in Names
          PROVE  /\ written'[r] = counted'[r] + buffer'[r] + pipe'[r]
                 /\ relay'[r] = "none" => written'[r] = 0
                 /\ relay'[r] = "done" => pipe'[r] = 0 /\ buffer'[r] = 0 /\ Silent'
      <4>1. /\ {written[r], counted[r], buffer[r], pipe[r]} \subseteq Nat
            /\ written[r] = counted[r] + buffer[r] + pipe[r]
        OBVIOUS
      <4>2. CASE r = s
        BY <3>1, <4>1, <4>2
      <4>3. CASE r # s
        BY <3>1, <4>1, <4>3
      <4> QED
        BY <4>2, <4>3
    <3> QED
      BY <3>1, <3>3, <3>4
  <2>2. CASE Read(s)
    <3>1. /\ counted[s] \in Nat /\ buffer[s] \in 0..Chunk /\ relay[s] = "reading"
          /\ counted' = [counted EXCEPT ![s] = counted[s] + buffer[s]]
          /\ buffer' = [buffer EXCEPT ![s] = 0]
          /\ relay' = [relay EXCEPT ![s] = "writing"]
          /\ UNCHANGED <<pipe, written, processes, wrapper>>
      BY <2>2 DEF Read
    <3>2. counted[s] + buffer[s] \in Nat /\ 0 \in 0..Chunk
      BY <3>1, WrapperAssumption
    <3>3. counted' \in [Names -> Nat] /\ buffer' \in [Names -> 0..Chunk]
      BY <3>1, <3>2
    <3>4. ASSUME NEW r \in Names
          PROVE  /\ written'[r] = counted'[r] + buffer'[r] + pipe'[r]
                 /\ relay'[r] = "none" => written'[r] = 0
                 /\ relay'[r] = "done" => pipe'[r] = 0 /\ buffer'[r] = 0 /\ Silent'
      <4>1. /\ {written[r], counted[r], buffer[r], pipe[r]} \subseteq Nat
            /\ written[r] = counted[r] + buffer[r] + pipe[r]
        OBVIOUS
      <4>2. CASE r = s
        BY <3>1, <4>1, <4>2
      <4>3. CASE r # s
        BY <3>1, <4>1, <4>3
      <4> QED
        BY <4>2, <4>3
    <3> QED
      BY <3>1, <3>3, <3>4
  <2>3. CASE Write(s) \/ WriteRaises(s)
    BY <2>3 DEF Write, WriteRaises
  <2>4. CASE Finish(s)
    BY <2>4 DEF Finish, EndOfFile
  <2> QED
    BY <2>1, <2>2, <2>3, <2>4
<1>3. TypeOK'
  BY <1>1 DEF wrapper
<1>2. /\ UNCHANGED wrapper /\ agent' = agent /\ children' = children
      /\ relay' = relay \/ \E r \in {"reading", "writing", "done", "dead"} :
                             relay' = [relay EXCEPT ![s] = r] /\ relay[s] \in {"reading", "writing"}
  BY DEF Fill, Read, Write, WriteRaises, Finish
<1> QED
  BY <1>1, <1>2, <1>3, WrapperWaits

\* Nobody writes to a pipe that is at its end.
LEMMA PutKeeps ==
  ASSUME TypeOK, Conserved, NEW s \in Names, Put(s), ~Silent
  PROVE  /\ pipe' \in [Names -> 0..PipeSize] /\ buffer' \in [Names -> 0..Chunk]
         /\ written' \in [Names -> Nat] /\ counted' \in [Names -> Nat]
         /\ \A r \in Names :
              /\ written'[r] = counted'[r] + buffer'[r] + pipe'[r]
              /\ relay'[r] = "none" => written'[r] = 0
              /\ relay'[r] # "done"
<1>1. /\ pipe[s] \in 0..PipeSize /\ pipe[s] < PipeSize /\ written[s] \in Nat
      /\ UNCHANGED <<buffer, relay, counted>> /\ relay[s] # "none"
  BY DEF TypeOK, Put, relays
<1>2. pipe[s] + 1 \in 0..PipeSize /\ written[s] + 1 \in Nat
  BY <1>1, WrapperAssumption
<1>3. /\ pipe' = [pipe EXCEPT ![s] = pipe[s] + 1]
      /\ written' = [written EXCEPT ![s] = written[s] + 1]
  BY DEF Put
<1>4. pipe' \in [Names -> 0..PipeSize] /\ written' \in [Names -> Nat]
  BY <1>2, <1>3 DEF TypeOK
<1>5. ASSUME NEW r \in Names
      PROVE  /\ written'[r] = counted'[r] + buffer'[r] + pipe'[r]
             /\ relay'[r] = "none" => written'[r] = 0
             /\ relay'[r] # "done"
  <2>1. /\ written[r] \in Nat /\ counted[r] \in Nat /\ buffer[r] \in Nat /\ pipe[r] \in Nat
        /\ written[r] = counted[r] + buffer[r] + pipe[r]
        /\ relay[r] = "none" => written[r] = 0
        /\ relay[r] # "done"
    BY WrapperAssumption DEF TypeOK, Conserved
  <2>2. /\ written'[r] = IF r = s THEN written[r] + 1 ELSE written[r]
        /\ pipe'[r] = IF r = s THEN pipe[r] + 1 ELSE pipe[r]
        /\ counted'[r] = counted[r] /\ buffer'[r] = buffer[r] /\ relay'[r] = relay[r]
    BY <1>1, <1>3 DEF TypeOK
  <2> QED
    BY <1>1, <2>1, <2>2
<1> QED
  BY <1>1, <1>4, <1>5 DEF TypeOK

LEMMA ProcessesInv ==
  ASSUME CInv, ~Over, AgentStep \/ Environment
  PROVE  CInv'
<1> USE DEF CInv
<1>1. CASE AgentExits \/ AgentKilled
  <2>1. /\ agent = "running" /\ agent' = "exited"
        /\ UNCHANGED <<todo, children, born, noise, wrapper, relays, output>>
    BY <1>1 DEF AgentExits, AgentKilled
  <2>2. TypeOK' /\ Conserved'
    BY <2>1 DEF TypeOK, Conserved, Silent, wrapper, relays, output
  <2> QED
    BY <2>1, <2>2, WrapperWaits DEF relays
<1>2. CASE \E s \in Names : AgentWrites(s)
  <2>1. PICK s \in Names : AgentWrites(s)
    BY <1>2
  <2>2. Put(s) /\ ~Silent /\ UNCHANGED <<wrapper, relay, agent, children, born, noise>>
    BY <2>1 DEF AgentWrites, Silent, Put, relays
  <2>3. Conserved'
    BY <2>2, PutKeeps DEF Conserved
  <2>4. TypeOK'
    <3>1. todo' \in [Names -> 0..MaxOutput]
      <4>1. todo[s] \in 0..MaxOutput /\ todo[s] > 0 /\ todo' = [todo EXCEPT ![s] = todo[s] - 1]
        BY <2>1 DEF AgentWrites, TypeOK
      <4>2. todo[s] - 1 \in 0..MaxOutput
        BY <4>1, WrapperAssumption
      <4> QED
        BY <4>1, <4>2 DEF TypeOK
    <3> QED
      BY <2>2, <3>1, PutKeeps DEF TypeOK, wrapper
  <2> QED
    BY <2>2, <2>3, <2>4, WrapperWaits
<1>3. CASE \E s \in Names : ChildWrites(s)
  <2>1. PICK s \in Names : ChildWrites(s)
    BY <1>3
  <2>2. Put(s) /\ ~Silent /\ UNCHANGED <<wrapper, relay, agent, children, born, todo>>
    BY <2>1 DEF ChildWrites, Silent, Put, relays
  <2>3. Conserved'
    BY <2>2, PutKeeps DEF Conserved
  <2>4. TypeOK'
    <3>1. noise' \in 0..MaxNoise
      BY <2>1, WrapperAssumption DEF ChildWrites, TypeOK
    <3> QED
      BY <2>2, <3>1, PutKeeps DEF TypeOK, wrapper
  <2> QED
    BY <2>2, <2>3, <2>4, WrapperWaits
<1>4. CASE \E s \in Names : WriteRaises(s)
  BY <1>4, RelayInv
<1>5. CASE \E c \in Children : Fork(c)
  <2>1. PICK c \in Children : Fork(c)
    BY <1>5
  <2>2. ~Silent /\ UNCHANGED <<agent, todo, noise, wrapper, relays, output>>
    BY <2>1 DEF Fork, Silent, TypeOK
  <2>3. TypeOK' /\ Conserved'
    BY <2>1, <2>2 DEF TypeOK, Conserved, Fork, wrapper, relays, output
  <2> QED
    BY <2>1, <2>2, <2>3, WrapperWaits DEF Fork, relays
<1>6. CASE \E c \in Children : ChildExits(c)
  <2>1. PICK c \in Children : ChildExits(c)
    BY <1>6
  <2>2. /\ children' = children \ {c}
        /\ UNCHANGED <<agent, todo, born, noise, wrapper, relays, output>>
    BY <2>1 DEF ChildExits
  <2>3. TypeOK' /\ Conserved'
    BY <2>2 DEF TypeOK, Conserved, Silent, wrapper, relays, output
  <2> QED
    BY <2>2, <2>3, WrapperWaits DEF relays
<1> QED
  BY <1>1, <1>2, <1>3, <1>4, <1>5, <1>6 DEF AgentStep, Environment

LEMMA StutterInv == ASSUME CInv, UNCHANGED vars PROVE CInv'
  BY DEF CInv, TypeOK, Conserved, Silent, Together, Piped, AgentFirst, JoinedInTurn,
         WaitedFor, Told, vars, wrapper, relays, processes, output

\* What the end of a session needs, in every reachable state.
THEOREM Invariance == Spec => []CInv
<1>1. Init => CInv
  BY InitInv
<1>2. CInv /\ [Next]_vars => CInv'
  <2>1. ASSUME CInv, Next PROVE CInv'
    BY <2>1, WrapperInv, RelayInv, ProcessesInv DEF Next, RelayStep, AgentStep, Environment
  <2> QED
    BY <2>1, StutterInv
<1> QED
  BY <1>1, <1>2, PTL DEF Spec

\* The state is as it is declared.
THEOREM TypeCorrect == Spec => []TypeOK
<1>1. CInv => TypeOK
  BY DEF CInv
<1> QED
  BY <1>1, Invariance, PTL

\* The end of a wrapped session comes after the agent's, and its counts are of
\* all that was written, except where a thread died or a join gave up, and of
\* every descendant that a sample could read.
THEOREM TheEndIsTold == Spec => []EndTellsTheSession
<1>1. ASSUME CInv PROVE EndTellsTheSession
  <2> SUFFICES ASSUME ended # None PROVE EndTellsTheSession
    BY DEF EndTellsTheSession
  <2>1. /\ at = "returned" /\ agent = "exited"
        /\ ended = [output |-> counted, children |-> Cardinality(seen)]
        /\ seen = {PidOf[c] : c \in sampled}
    BY <1>1 DEF CInv, Told, AgentFirst
  <2>2. ASSUME NEW s \in Names
        PROVE  /\ counted[s] <= written[s]
               /\ relay[s] # "dead" /\ s \notin late => counted[s] = written[s]
    <3> USE <1>1 DEF CInv
    <3>1. /\ written[s] \in Nat /\ counted[s] \in Nat /\ buffer[s] \in Nat /\ pipe[s] \in Nat
          /\ written[s] = counted[s] + buffer[s] + pipe[s]
      BY DEF TypeOK, Conserved
    <3>2. CASE Piped
      <4>1. PICK i \in 1..Len(Streams) : Streams[i] = s
        BY WrapperAssumption DEF Names
      <4>2. WaitedFor(s)
        BY <2>1, <3>2, <4>1 DEF JoinedInTurn
      <4> QED
        BY <3>1, <4>2 DEF WaitedFor, Conserved
    <3>3. CASE ~Piped
      <4>1. written[s] = 0
        BY <3>3 DEF Together, Conserved
      <4> QED
        BY <3>1, <4>1
    <3> QED
      BY <3>2, <3>3
  <2> QED
    BY <2>1, <2>2 DEF EndTellsTheSession
<1> QED
  BY <1>1, Invariance, PTL

=============================================================================
