---------------------------- MODULE ExportPipeline ----------------------------
(***************************************************************************)
(* The export pipeline of one process (watchmyai/exporters/base.py): a     *)
(* bounded queue, a flush that sends it in batches with bounded retries,   *)
(* and a dead-letter file.                                                 *)
(*                                                                         *)
(* A command, a hook for one, enqueues in one thread and flushes before it *)
(* exits. The MCP gateway enqueues in two threads, that share the queue    *)
(* with nothing locking it, and never flushes. Single operations on the    *)
(* queue are atomic; an enqueue is several of them.                        *)
(***************************************************************************)
EXTENDS Integers, Sequences, FiniteSets

CONSTANTS
  MaxEvents,   \* bound: events the process records, numbered as it does
  Threads,
  Malformed,   \* events json.dumps does not take
  None,
  MaxQueue,    \* max_queue
  BatchSize,   \* batch_size
  MaxRetries   \* max_retries

Events == 1..MaxEvents

ASSUME PipelineAssumption ==
  /\ MaxEvents \in Nat
  /\ IsFiniteSet(Threads) /\ Threads # {}
  /\ Malformed \subseteq Events
  /\ None \notin Events
  /\ MaxQueue \in Nat /\ MaxQueue >= Cardinality(Threads)
  /\ BatchSize \in Nat \ {0} /\ MaxRetries \in Nat

VARIABLES
  recorders,  \* threads that enqueue
  queue,
  at,         \* per thread: where in enqueue it is
  event,      \* per thread: what it enqueues
  victim,     \* per thread: what it has taken out to make room
  flushing,   \* where in flush the process is
  hand,       \* the batch flush has taken
  attempt,
  delivered,  \* the sink: how often it got each event
  dead,       \* dead-letter file: [event, reason]
  exported,   \* metrics["exported"]
  accepted,   \* history: events in the order they were appended
  raised,     \* history: events that were in the hands of a call that raised
  running

threadVars == <<at, event, victim>>
flushVars == <<flushing, hand, attempt>>
vars == <<recorders, queue, threadVars, flushVars, delivered, dead, exported,
          accepted, raised, running>>

Reasons == {"unserializable_event", "queue_overflow", "delivery_failed_after_retries"}

ElementsOf(s) == {s[i] : i \in DOMAIN s}

TypeOK ==
  /\ recorders \subseteq Threads
  /\ queue \in Seq(Events)
  /\ at \in [Threads -> {"idle", "pop", "bury", "append"}]
  /\ event \in [Threads -> Events \cup {None}]
  /\ victim \in [Threads -> Events \cup {None}]
  /\ flushing \in {"no", "taking", "sending", "burying"}
  /\ hand \in Seq(Events) /\ Len(hand) <= BatchSize
  /\ attempt \in 0..MaxRetries
  /\ delivered \in [Events -> Nat]
  /\ dead \subseteq [event : Events, reason : Reasons]
  /\ exported \in Nat
  /\ accepted \in Seq(Events)
  /\ raised \subseteq Events
  /\ running \in BOOLEAN

\* A command, of one thread, or the MCP gateway.
Init ==
  /\ recorders \in {{t} : t \in Threads} \cup {Threads}
  /\ queue = <<>>
  /\ at = [t \in Threads |-> "idle"]
  /\ event = [t \in Threads |-> None]
  /\ victim = [t \in Threads |-> None]
  /\ flushing = "no"
  /\ hand = <<>>
  /\ attempt = 0
  /\ delivered = [e \in Events |-> 0]
  /\ dead = {}
  /\ exported = 0
  /\ accepted = <<>>
  /\ raised = {}
  /\ running = TRUE

(***************************************************************************)
(* enqueue                                                                 *)
(***************************************************************************)
Seen(e) ==
  \/ e \in ElementsOf(accepted) \cup raised
  \/ \E t \in Threads : event[t] = e
  \/ \E d \in dead : d.event = e

\* Each event is recorded once, in the order of their numbers.
Fresh(e) == ~Seen(e) /\ \A earlier \in 1..(e - 1) : Seen(earlier)

Full(q) == Len(q) >= MaxQueue

Enqueue(t, e) ==
  /\ running /\ flushing = "no"
  /\ t \in recorders /\ at[t] = "idle"
  /\ Fresh(e) /\ e \notin Malformed
  /\ event' = [event EXCEPT ![t] = e]
  /\ at' = [at EXCEPT ![t] = IF Full(queue) THEN "pop" ELSE "append"]
  /\ UNCHANGED <<recorders, queue, victim, flushVars, delivered, dead, exported,
                 accepted, raised, running>>

EnqueueMalformed(t, e) ==
  /\ running /\ flushing = "no"
  /\ t \in recorders /\ at[t] = "idle"
  /\ Fresh(e) /\ e \in Malformed
  /\ \/ /\ dead' = dead \cup {[event |-> e, reason |-> "unserializable_event"]}
        /\ UNCHANGED raised
     \/ /\ raised' = raised \cup {e}
        /\ UNCHANGED dead
  /\ UNCHANGED <<recorders, queue, threadVars, flushVars, delivered, exported,
                 accepted, running>>

\* Fault: the newest event makes room.
NewestFirst(q) == [oldest |-> q[Len(q)], rest |-> SubSeq(q, 1, Len(q) - 1)]

OldestFirst(q) == [oldest |-> Head(q), rest |-> Tail(q)]

Pop(t) ==
  /\ running /\ at[t] = "pop"
  /\ victim' = [victim EXCEPT ![t] = OldestFirst(queue).oldest]
  /\ queue' = OldestFirst(queue).rest
  /\ at' = [at EXCEPT ![t] = "bury"]
  /\ UNCHANGED <<recorders, event, flushVars, delivered, dead, exported, accepted,
                 raised, running>>

\* The dead-letter file takes the oldest event, or cannot be written: then the
\* oldest is gone, and the new one is not accepted.
BuryOldest(t) ==
  /\ running /\ at[t] = "bury"
  /\ victim' = [victim EXCEPT ![t] = None]
  /\ \/ /\ dead' = dead \cup {[event |-> victim[t], reason |-> "queue_overflow"]}
        /\ at' = [at EXCEPT ![t] = "append"]
        /\ UNCHANGED <<event, raised>>
     \/ /\ raised' = raised \cup {victim[t], event[t]}
        /\ at' = [at EXCEPT ![t] = "idle"]
        /\ event' = [event EXCEPT ![t] = None]
        /\ UNCHANGED dead
  /\ UNCHANGED <<recorders, queue, flushVars, delivered, exported, accepted, running>>

AppendEvent(t) ==
  /\ running /\ at[t] = "append"
  /\ queue' = Append(queue, event[t])
  /\ accepted' = Append(accepted, event[t])
  /\ event' = [event EXCEPT ![t] = None]
  /\ at' = [at EXCEPT ![t] = "idle"]
  /\ UNCHANGED <<recorders, victim, flushVars, delivered, dead, exported, raised,
                 running>>

(***************************************************************************)
(* flush: only commands, in the thread that records.                       *)
(***************************************************************************)
Flush ==
  /\ running /\ flushing = "no"
  /\ \E t \in recorders : recorders = {t} /\ at[t] = "idle"
  /\ flushing' = "taking"
  /\ UNCHANGED <<recorders, queue, threadVars, hand, attempt, delivered, dead,
                 exported, accepted, raised, running>>

TakeSize(q) == IF Len(q) < BatchSize THEN Len(q) ELSE BatchSize

Take ==
  /\ running /\ flushing = "taking"
  /\ \/ /\ queue # <<>>
        /\ hand' = SubSeq(queue, 1, TakeSize(queue))
        /\ queue' = SubSeq(queue, TakeSize(queue) + 1, Len(queue))
        /\ attempt' = 0
        /\ flushing' = "sending"
     \/ /\ queue = <<>>
        /\ flushing' = "no"
        /\ UNCHANGED <<queue, hand, attempt>>
  /\ UNCHANGED <<recorders, threadVars, delivered, dead, exported, accepted, raised,
                 running>>

Delivery(got) ==
  [e \in Events |-> IF e \in got THEN delivered[e] + 1 ELSE delivered[e]]

SendAccepted ==
  /\ running /\ flushing = "sending"
  /\ delivered' = Delivery(ElementsOf(hand))
  /\ exported' = exported + Len(hand)
  /\ hand' = <<>> /\ attempt' = 0
  /\ flushing' = "taking"
  /\ UNCHANGED <<recorders, queue, threadVars, dead, accepted, raised, running>>

RetriesLeft(n) == n < MaxRetries

NextAttempt(n) == n + 1

\* An ExportError that may be retried: a part of the batch, or all of it, may
\* have arrived (a partial bulk failure, lines written before the disk was
\* full, an answer that timed out).
SendRetryable(got) ==
  /\ running /\ flushing = "sending"
  /\ got \subseteq ElementsOf(hand)
  /\ delivered' = Delivery(got)
  /\ \/ /\ RetriesLeft(attempt)
        /\ attempt' = NextAttempt(attempt)
        /\ UNCHANGED flushing
     \/ /\ ~RetriesLeft(attempt)
        /\ flushing' = "burying"
        /\ UNCHANGED attempt
  /\ UNCHANGED <<recorders, queue, threadVars, hand, dead, exported, accepted, raised,
                 running>>

\* Fault: what is sent is counted whatever becomes of it.
SendRefusedCounted ==
  /\ running /\ flushing = "sending"
  /\ exported' = exported + Len(hand)
  /\ flushing' = "burying"
  /\ UNCHANGED <<recorders, queue, threadVars, hand, attempt, delivered, dead,
                 accepted, raised, running>>

\* Fault: what is refused is put back into the queue.
SendRefusedRequeued ==
  /\ running /\ flushing = "sending"
  /\ queue' = hand \o queue
  /\ hand' = <<>>
  /\ flushing' = "taking"
  /\ UNCHANGED <<recorders, threadVars, attempt, delivered, dead, exported, accepted,
                 raised, running>>

\* Refused before anything is sent, or by a status that is final.
SendRefused ==
  /\ running /\ flushing = "sending"
  /\ flushing' = "burying"
  /\ UNCHANGED <<recorders, queue, threadVars, hand, attempt, delivered, dead, exported,
                 accepted, raised, running>>

\* An exception that is no ExportError leaves flush with the batch in its
\* hands: a connection the server closes before it answers is none.
SendRaises(got) ==
  /\ running /\ flushing = "sending"
  /\ got \subseteq ElementsOf(hand)
  /\ delivered' = Delivery(got)
  /\ raised' = raised \cup ElementsOf(hand)
  /\ hand' = <<>> /\ attempt' = 0
  /\ flushing' = "no"
  /\ UNCHANGED <<recorders, queue, threadVars, dead, exported, accepted, running>>

\* Fault: a failed batch is left at its first event.
BuryFirst ==
  /\ running /\ flushing = "burying"
  /\ dead' = dead \cup {[event |-> Head(hand), reason |-> "delivery_failed_after_retries"]}
  /\ hand' = <<>> /\ attempt' = 0
  /\ flushing' = "taking"
  /\ UNCHANGED <<recorders, queue, threadVars, delivered, exported, accepted, raised,
                 running>>

\* One event after the other; a write that raises leaves flush with the rest.
Bury ==
  /\ running /\ flushing = "burying"
  /\ \/ /\ dead' = dead \cup
             {[event |-> Head(hand), reason |-> "delivery_failed_after_retries"]}
        /\ hand' = Tail(hand)
        /\ \/ Len(hand) > 1 /\ UNCHANGED <<flushing, attempt>>
           \/ Len(hand) = 1 /\ flushing' = "taking" /\ attempt' = 0
        /\ UNCHANGED raised
     \/ /\ raised' = raised \cup ElementsOf(hand)
        /\ hand' = <<>> /\ attempt' = 0
        /\ flushing' = "no"
        /\ UNCHANGED dead
  /\ UNCHANGED <<recorders, queue, threadVars, delivered, exported, accepted, running>>

\* The process ends, at any point: returned, raised or killed.
Exit ==
  /\ running
  /\ running' = FALSE
  /\ UNCHANGED <<recorders, queue, threadVars, flushVars, delivered, dead, exported,
                 accepted, raised>>

FlushStep ==
  \/ Take
  \/ SendAccepted
  \/ SendRefused
  \/ \E got \in SUBSET ElementsOf(hand) : SendRetryable(got) \/ SendRaises(got)
  \/ Bury

Next ==
  \/ \E t \in Threads :
       \/ \E e \in Events : Enqueue(t, e) \/ EnqueueMalformed(t, e)
       \/ Pop(t)
       \/ BuryOldest(t)
       \/ AppendEvent(t)
  \/ Flush
  \/ FlushStep
  \/ Exit

\* A flush runs: every sink answers or times out, every sleep ends. Nothing
\* makes anything be recorded, and nothing makes a process live on.
Spec == Init /\ [][Next]_vars /\ WF_vars(FlushStep)

(***************************************************************************)
(* Properties                                                              *)
(***************************************************************************)
\* Where an event that was accepted may be.
Pending(e) ==
  \/ e \in ElementsOf(queue) \cup ElementsOf(hand)
  \/ \E t \in Threads : victim[t] = e

Settled(e) == delivered[e] > 0 \/ \E d \in dead : d.event = e

\* An event is queued, in the hands of a flush, on its way to the dead-letter
\* file, there, or with the sink, unless something raised with it: retries,
\* partial deliveries and overflow lose none.
NothingVanishes ==
  \A e \in ElementsOf(accepted) : Pending(e) \/ Settled(e) \/ e \in raised

\* "when the queue is full the oldest events are dead-lettered so memory stays
\* bounded" (exporters/base.py): nothing older than what overflowed is still
\* queued, and each thread that has looked at the length before another appended
\* adds at most one beyond the bound.
OverflowTakesTheOldest ==
  /\ Len(queue) < MaxQueue + Cardinality(recorders)
  /\ \A i, j \in DOMAIN accepted :
       /\ [event |-> accepted[i], reason |-> "queue_overflow"] \in dead
       /\ accepted[j] \in ElementsOf(queue)
       => i < j

\* What the health report calls exported is with the sink, and is what is
\* neither dead-lettered nor lost: a batch that was delivered in part and then
\* failed counts as dead.  The sink may get an event more than once, no more
\* often than a batch is attempted, and never one that overflow dead-lettered.
DeliveryIsAccounted ==
  /\ exported = Cardinality({e \in ElementsOf(accepted) :
                               /\ delivered[e] > 0
                               /\ ~Pending(e) /\ e \notin raised
                               /\ \A d \in dead : d.event # e})
  /\ \A e \in Events :
       /\ delivered[e] <= MaxRetries + 1
       /\ [event |-> e, reason |-> "queue_overflow"] \in dead => delivered[e] = 0

\* A flush ends, whatever the sink does.
FlushEnds == (flushing # "no") ~> (flushing = "no" \/ ~running)
=============================================================================
