-------------------------- MODULE ExportPipelineProofs --------------------------
(***************************************************************************)
(* Where an event is, and what is counted of it, for any number of events, *)
(* any threads, and any sizes of the queue, the batches and the retries.   *)
(*                                                                         *)
(* The queue is the end of the order in which events were accepted; what   *)
(* was taken from it is before the cut.  An event is in one place only,    *)
(* and an event that is anywhere is neither dead nor lost.                 *)
(***************************************************************************)
EXTENDS ExportPipeline, FiniteSetTheorems, SequenceTheorems, TLAPS

-----------------------------------------------------------------------------
(* The invariant. *)

\* How many of the accepted events have left the queue, and which.
Cut == Len(accepted) - Len(queue)
Past(e) == \E i \in 1..Cut : accepted[i] = e

Victims == {victim[t] : t \in Threads} \ {None}
Held == ElementsOf(queue) \cup ElementsOf(hand) \cup Victims
DeadEvents == {d.event : d \in dead}
Overflow(e) == [event |-> e, reason |-> "queue_overflow"] \in dead

\* What a thread holds by where it is; a flush has the process to itself.
Threaded ==
  /\ recorders # {}
  /\ \A t \in Threads :
       /\ at[t] # "idle" => t \in recorders
       /\ event[t] = None <=> at[t] = "idle"
       /\ victim[t] = None <=> at[t] # "bury"
  /\ flushing # "no" => \A t \in Threads : at[t] = "idle"
  /\ hand = <<>> <=> flushing \in {"no", "taking"}

Popping == {t \in Threads : at[t] = "pop"}
Adding == {t \in Threads : at[t] \in {"bury", "append"}}

\* A thread that is to pop finds something, and one that is to append has made
\* room or found it.
Bounded ==
  /\ Cardinality(Popping) <= Len(queue)
  /\ Len(queue) + Cardinality(Adding) < MaxQueue + Cardinality(recorders)

QueueIsTheEnd ==
  /\ \A i, j \in 1..Len(accepted) : accepted[i] = accepted[j] => i = j
  /\ Len(queue) <= Len(accepted)
  /\ \A k \in 1..Len(queue) : queue[k] = accepted[Cut + k]

OthersAreBefore ==
  /\ \A e \in ElementsOf(hand) \cup Victims : Past(e)
  /\ \A e \in Events : Overflow(e) => Past(e)

\* An event that is held is so once, and is neither dead nor lost; one that is
\* being enqueued has not been anywhere.
Apart ==
  /\ \A i, j \in 1..Len(hand) : hand[i] = hand[j] => i = j
  /\ \A t, u \in Threads : victim[t] = victim[u] /\ victim[t] # None => t = u
  /\ \A e \in Held : e \notin raised /\ e \notin DeadEvents
  /\ \A t, u \in Threads : event[t] = event[u] /\ event[t] # None => t = u
  /\ \A t \in Threads : event[t] # None =>
       event[t] \notin ElementsOf(accepted) \cup raised \cup DeadEvents

Sent ==
  /\ \A e \in Events : delivered[e] <= MaxRetries + 1
  /\ \A e \in ElementsOf(hand) : flushing = "sending" => delivered[e] <= attempt
  /\ \A e \in Events :
       Overflow(e) \/ e \in ElementsOf(queue) \cup Victims \/ e \notin ElementsOf(accepted)
         => delivered[e] = 0

\* What is with the sink and nowhere else.
Exported ==
  {e \in ElementsOf(accepted) :
     delivered[e] > 0 /\ e \notin Held /\ e \notin raised /\ e \notin DeadEvents}

Found == \A e \in ElementsOf(accepted) :
  e \in Held \/ delivered[e] > 0 \/ e \in DeadEvents \/ e \in raised

EInv ==
  /\ TypeOK /\ Threaded /\ Bounded /\ QueueIsTheEnd /\ OthersAreBefore /\ Apart /\ Sent
  /\ exported = Cardinality(Exported)
  /\ Found

-----------------------------------------------------------------------------
(* Sequences and their elements. *)

LEMMA ElementsAppended ==
  ASSUME NEW S, NEW q \in Seq(S), NEW e \in S
  PROVE  ElementsOf(Append(q, e)) = ElementsOf(q) \cup {e}
<1> DEFINE p == Append(q, e)
<1>1. /\ Len(q) \in Nat /\ DOMAIN q = 1..Len(q) /\ DOMAIN p = 1..(Len(q) + 1)
      /\ p[Len(q) + 1] = e /\ \A i \in 1..Len(q) : p[i] = q[i]
  BY AppendProperties, LenProperties
<1> HIDE DEF p
<1> QED
  BY <1>1 DEF ElementsOf, p

\* A sequence without its first k elements.
LEMMA Dropped ==
  ASSUME NEW S, NEW q \in Seq(S), NEW k \in 1..Len(q), NEW r, r = SubSeq(q, k + 1, Len(q))
  PROVE  /\ r \in Seq(S) /\ Len(r) \in Nat /\ Len(r) = Len(q) - k
         /\ \A i \in 1..Len(r) : r[i] = q[k + i]
         /\ ElementsOf(q) = ElementsOf(r) \cup {q[i] : i \in 1..k}
<1>1. Len(q) \in Nat /\ DOMAIN q = 1..Len(q) /\ k \in 1..Len(q) /\ \A i \in 1..Len(q) : q[i] \in S
  BY LenProperties, ElementOfSeq
<1> DEFINE n == Len(q)
<1> HIDE DEF n
<1>2. n \in Nat /\ k \in Nat /\ k >= 1 /\ k <= n /\ k + 1 \in Int
  BY <1>1 DEF n
<1>3. \A i \in (k + 1)..n : q[i] \in S
  BY <1>1, <1>2 DEF n
<1>4. /\ r \in Seq(S)
      /\ Len(r) = IF k + 1 <= n THEN n - (k + 1) + 1 ELSE 0
      /\ \A i \in 1..(n - (k + 1) + 1) : r[i] = q[k + 1 + i - 1]
  BY <1>2, <1>3, SubSeqProperties DEF n
<1>5. Len(r) = n - k /\ \A i \in 1..(n - k) : r[i] = q[k + i]
  BY <1>2, <1>4
<1>6. DOMAIN r = 1..(n - k)
  BY <1>4, <1>5, LenProperties
<1>7. ASSUME NEW i \in 1..n PROVE i \in 1..k \/ (i - k \in 1..(n - k) /\ r[i - k] = q[i])
  <2>1. i \in 1..k \/ (i - k \in 1..(n - k) /\ k + (i - k) = i)
    BY <1>2
  <2>2. ASSUME i - k \in 1..(n - k), k + (i - k) = i PROVE r[i - k] = q[i]
    <3>1. r[i - k] = q[k + (i - k)]
      BY <1>5, <2>2
    <3> QED
      BY <2>2, <3>1
  <2> QED
    BY <2>1, <2>2
<1>8. \A i \in 1..(n - k) : k + i \in 1..n /\ r[i] = q[k + i]
  BY <1>2, <1>5
<1>9. ElementsOf(q) = ElementsOf(r) \cup {q[i] : i \in 1..k}
  <2>1. ElementsOf(q) = {q[i] : i \in 1..n} /\ ElementsOf(r) = {r[i] : i \in 1..(n - k)}
    BY <1>1, <1>6 DEF ElementsOf, n
  <2>2. \A i \in 1..k : i \in 1..n
    BY <1>2
  <2> QED
    BY <1>7, <1>8, <2>1, <2>2
<1> QED
  BY <1>2, <1>4, <1>5, <1>9 DEF n

\* The number of elements of a sequence without repetition is its length.
LEMMA ElementsCounted ==
  ASSUME NEW S, NEW q \in Seq(S), \A i, j \in 1..Len(q) : q[i] = q[j] => i = j
  PROVE  IsFiniteSet(ElementsOf(q)) /\ Cardinality(ElementsOf(q)) = Len(q)
<1> DEFINE n == Len(q)
<1>1. n \in Nat /\ DOMAIN q = 1..n /\ q \in [1..n -> S]
  BY LenProperties
<1> HIDE DEF n
<1>2. IsFiniteSet(1..n) /\ Cardinality(1..n) = n
  BY <1>1, FS_Interval
<1>3. q \in [1..n -> ElementsOf(q)] /\ \A e \in ElementsOf(q) : \E i \in 1..n : q[i] = e
  BY <1>1 DEF ElementsOf
<1>4. q \in Surjection(1..n, ElementsOf(q))
  BY <1>3 DEF Surjection
<1>5. q \in Injection(1..n, ElementsOf(q))
  <2>1. \A i, j \in 1..n : q[i] = q[j] => i = j
    BY DEF n
  <2> QED
    BY <1>3, <2>1 DEF Injection, IsInjective
<1> QED
  BY <1>2, <1>4, <1>5, FS_Surjection DEF n

LEMMA EventsAreFinite == IsFiniteSet(Events)
  BY PipelineAssumption, FS_Interval DEF Events

\* Who may pop or append is one of finitely many.
LEMMA ThreadsCounted ==
  ASSUME TypeOK
  PROVE  /\ IsFiniteSet(Threads) /\ IsFiniteSet(recorders) /\ IsFiniteSet(Popping)
         /\ IsFiniteSet(Adding)
         /\ Cardinality(recorders) \in Nat /\ Cardinality(recorders) <= MaxQueue
         /\ Cardinality(Popping) \in Nat /\ Cardinality(Adding) \in Nat
<1>1. IsFiniteSet(Threads) /\ recorders \in SUBSET Threads /\ Popping \in SUBSET Threads
      /\ Adding \in SUBSET Threads /\ MaxQueue \in Nat /\ Cardinality(Threads) <= MaxQueue
  BY PipelineAssumption DEF TypeOK, Popping, Adding
<1>2. /\ IsFiniteSet(recorders) /\ Cardinality(recorders) <= Cardinality(Threads)
      /\ IsFiniteSet(Popping) /\ IsFiniteSet(Adding)
  BY <1>1, FS_Subset
<1>3. /\ Cardinality(recorders) \in Nat /\ Cardinality(Threads) \in Nat
      /\ Cardinality(Popping) \in Nat /\ Cardinality(Adding) \in Nat
  BY <1>1, <1>2, FS_CardinalityType
<1> QED
  BY <1>1, <1>2, <1>3

\* What follows of the places.
LEMMA Places ==
  ASSUME EInv
  PROVE  /\ Held \subseteq ElementsOf(accepted) /\ ElementsOf(accepted) \subseteq Events
         /\ \A e : Past(e) => e \in ElementsOf(accepted)
         /\ \A e \in ElementsOf(queue) : ~Past(e)
         /\ None \notin Events
<1> USE DEF EInv
<1> DEFINE a == Len(accepted)
           q == Len(queue)
<1>1. /\ a \in Nat /\ q \in Nat /\ q <= a /\ DOMAIN accepted = 1..a /\ DOMAIN queue = 1..q
      /\ Cut = a - q /\ \A i \in 1..a : accepted[i] \in Events
      /\ \A k \in 1..q : queue[k] = accepted[(a - q) + k]
      /\ \A i, j \in 1..a : accepted[i] = accepted[j] => i = j
  BY LenProperties, ElementOfSeq DEF TypeOK, QueueIsTheEnd, Cut
<1> HIDE DEF a, q
<1>2. ElementsOf(accepted) = {accepted[i] : i \in 1..a} /\ ElementsOf(queue) = {queue[k] : k \in 1..q}
  BY <1>1 DEF ElementsOf
<1>3. \A e : Past(e) => e \in ElementsOf(accepted)
  <2>1. \A i \in 1..(a - q) : i \in 1..a
    BY <1>1
  <2> QED
    BY <1>1, <1>2, <2>1 DEF Past
<1>4. ASSUME NEW e \in ElementsOf(queue) PROVE e \in ElementsOf(accepted) /\ ~Past(e)
  <2>1. PICK k \in 1..q : e = queue[k]
    BY <1>2
  <2>2. (a - q) + k \in 1..a /\ e = accepted[(a - q) + k]
    BY <1>1, <2>1
  <2>3. \A i \in 1..(a - q) : i \in 1..a /\ i # (a - q) + k
    BY <1>1
  <2> QED
    BY <1>1, <1>2, <2>2, <2>3 DEF Past
<1>5. Held \subseteq ElementsOf(accepted)
  BY <1>3, <1>4 DEF Held, OthersAreBefore
<1> QED
  BY <1>1, <1>2, <1>3, <1>4, <1>5, PipelineAssumption

LEMMA InitInv == Init => EInv
<1> SUFFICES ASSUME Init PROVE EInv
  OBVIOUS
<1> USE PipelineAssumption
<1>1. TypeOK
  BY DEF Init, TypeOK
<1>2. /\ ElementsOf(queue) = {} /\ ElementsOf(accepted) = {} /\ ElementsOf(hand) = {}
      /\ Victims = {} /\ DeadEvents = {} /\ Held = {}
  BY DEF Init, ElementsOf, Victims, DeadEvents, Held
<1>3. Threaded
  BY DEF Init, Threaded
<1>4. Bounded
  <2>1. Popping = {} /\ Adding = {}
    BY DEF Init, Popping, Adding
  <2>2. Cardinality({}) = 0
    BY FS_EmptySet
  <2>3. Cardinality(recorders) # 0
    BY <1>1, <1>3, ThreadsCounted, FS_EmptySet DEF Threaded
  <2> QED
    BY <1>1, <2>1, <2>2, <2>3, ThreadsCounted DEF Init, Bounded
<1>5. QueueIsTheEnd
  BY DEF Init, QueueIsTheEnd
<1>6. OthersAreBefore /\ Apart /\ Sent
  BY <1>2 DEF Init, OthersAreBefore, Overflow, Apart, Sent
<1>7. exported = Cardinality(Exported)
  <2>1. Exported = {}
    BY <1>2 DEF Exported
  <2> QED
    BY <2>1, FS_EmptySet DEF Init
<1>8. Found
  BY <1>2 DEF Found
<1> QED
  BY <1>1, <1>3, <1>4, <1>5, <1>6, <1>7, <1>8 DEF EInv

-----------------------------------------------------------------------------
(* Steps that leave the queue. *)

LEMMA SameQueue ==
  ASSUME UNCHANGED <<queue, accepted>>
  PROVE  /\ QueueIsTheEnd => QueueIsTheEnd'
         /\ \A e : Past(e)' <=> Past(e)
         /\ Cut' = Cut
  BY DEF QueueIsTheEnd, Past, Cut

LEMMA EnqueueInv ==
  ASSUME EInv, NEW t \in Threads, NEW e \in Events, Enqueue(t, e)
  PROVE  EInv'
<1> USE DEF EInv
<1>1. /\ t \in recorders /\ at[t] = "idle" /\ flushing = "no" /\ Fresh(e)
      /\ event' = [event EXCEPT ![t] = e]
      /\ at' = [at EXCEPT ![t] = IF Full(queue) THEN "pop" ELSE "append"]
      /\ UNCHANGED <<recorders, queue, victim, flushing, hand, attempt, delivered, dead,
                     exported, accepted, raised, running>>
  BY DEF Enqueue, flushVars
<1>2. TypeOK'
  BY <1>1 DEF TypeOK
<1>3. /\ e # None /\ e \notin ElementsOf(accepted) \cup raised \cup DeadEvents
      /\ \A u \in Threads : event[u] # e
  BY <1>1, PipelineAssumption DEF Fresh, Seen, DeadEvents
<1>4. Threaded'
  BY <1>1, <1>3 DEF Threaded, TypeOK
<1>5. /\ Victims' = Victims /\ Held' = Held /\ DeadEvents' = DeadEvents
      /\ \A d : Overflow(d)' <=> Overflow(d)
  BY <1>1 DEF Victims, Held, DeadEvents, Overflow
<1>6. QueueIsTheEnd' /\ OthersAreBefore'
  BY <1>1, <1>5, SameQueue DEF OthersAreBefore
<1>7. Apart'
  <2>1. \A u \in Threads : event'[u] = IF u = t THEN e ELSE event[u]
    BY <1>1 DEF TypeOK
  <2> QED
    BY <1>1, <1>3, <1>5, <2>1 DEF Apart
<1>8. Sent' /\ Found' /\ Exported' = Exported
  BY <1>1, <1>5 DEF Sent, Found, Exported
<1>9. Bounded'
  <2>1. /\ Cardinality(Popping') \in Nat /\ Cardinality(Adding') \in Nat
        /\ Cardinality(recorders) \in Nat /\ Cardinality(recorders) <= MaxQueue
        /\ Cardinality(Popping') <= Cardinality(recorders)
        /\ Cardinality(Adding') <= Cardinality(recorders)
        /\ MaxQueue \in Nat /\ Len(queue) \in Nat
    <3>1. Popping' \in SUBSET recorders /\ Adding' \in SUBSET recorders /\ recorders' = recorders
      BY <1>1, <1>4 DEF Popping, Adding, Threaded
    <3>2. IsFiniteSet(recorders) /\ Cardinality(recorders) \in Nat /\ Cardinality(recorders) <= MaxQueue
      BY ThreadsCounted
    <3>3. /\ Cardinality(Popping') <= Cardinality(recorders)
          /\ Cardinality(Adding') <= Cardinality(recorders)
      BY <3>1, <3>2, FS_Subset
    <3>4. Cardinality(Popping') \in Nat /\ Cardinality(Adding') \in Nat
      <4>1. IsFiniteSet(Popping') /\ IsFiniteSet(Adding')
        BY <3>1, <3>2, FS_Subset
      <4> QED
        BY <4>1, FS_CardinalityType
    <3> QED
      BY <3>2, <3>3, <3>4, PipelineAssumption, LenProperties DEF TypeOK
  <2>2. CASE Full(queue)
    <3>1. Adding' = Adding
      BY <1>1, <2>2 DEF Adding, TypeOK
    <3>2. Len(queue) >= MaxQueue
      BY <2>2 DEF Full
    <3> QED
      BY <1>1, <2>1, <3>1, <3>2 DEF Bounded
  <2>3. CASE ~Full(queue)
    <3>1. Popping' = Popping
      BY <1>1, <2>3 DEF Popping, TypeOK
    <3>2. ~(Len(queue) >= MaxQueue)
      BY <2>3 DEF Full
    <3> QED
      BY <1>1, <2>1, <3>1, <3>2 DEF Bounded
  <2> QED
    BY <2>2, <2>3
<1> QED
  BY <1>1, <1>2, <1>4, <1>6, <1>7, <1>8, <1>9

LEMMA EnqueueMalformedInv ==
  ASSUME EInv, NEW t \in Threads, NEW e \in Events, EnqueueMalformed(t, e)
  PROVE  EInv'
<1> USE DEF EInv
<1>1. /\ Fresh(e)
      /\ \/ dead' = dead \cup {[event |-> e, reason |-> "unserializable_event"]} /\ raised' = raised
         \/ raised' = raised \cup {e} /\ dead' = dead
      /\ UNCHANGED <<recorders, queue, at, event, victim, flushing, hand, attempt, delivered,
                     exported, accepted, running>>
  BY DEF EnqueueMalformed, flushVars, threadVars
<1>2. TypeOK'
  BY <1>1 DEF TypeOK, Reasons
<1>3. /\ e # None /\ e \notin ElementsOf(accepted) \cup raised \cup DeadEvents
      /\ \A u \in Threads : event[u] # e
  BY <1>1, PipelineAssumption DEF Fresh, Seen, DeadEvents
<1>4. /\ Victims' = Victims /\ Held' = Held /\ Popping' = Popping /\ Adding' = Adding
      /\ DeadEvents \subseteq DeadEvents' /\ DeadEvents' \subseteq DeadEvents \cup {e}
      /\ \A d : Overflow(d)' <=> Overflow(d)
  BY <1>1 DEF Victims, Held, DeadEvents, Overflow, Popping, Adding
<1>5. Threaded' /\ Bounded' /\ QueueIsTheEnd' /\ OthersAreBefore'
  BY <1>1, <1>4, SameQueue DEF Threaded, Bounded, OthersAreBefore
<1>6. e \notin Held
  BY <1>3, Places
<1>7. Apart'
  BY <1>1, <1>3, <1>4, <1>6 DEF Apart
<1>8. Sent' /\ Found' /\ Exported' = Exported
  BY <1>1, <1>3, <1>4 DEF Sent, Found, Exported
<1> QED
  BY <1>1, <1>2, <1>5, <1>7, <1>8

\* A flush begins or ends, a batch is given up, the process ends.
LEMMA ControlInv ==
  ASSUME EInv, TypeOK', Threaded',
         flushing' = "sending" => flushing = "sending" \/ hand = <<>>,
         UNCHANGED <<recorders, queue, at, event, victim, hand, attempt, delivered, dead,
                     exported, accepted, raised>>
  PROVE  EInv'
<1> USE DEF EInv
<1>1. /\ Victims' = Victims /\ Held' = Held /\ Popping' = Popping /\ Adding' = Adding
      /\ DeadEvents' = DeadEvents /\ \A d : Overflow(d)' <=> Overflow(d)
  BY DEF Victims, Held, DeadEvents, Overflow, Popping, Adding
<1>2. Bounded' /\ QueueIsTheEnd' /\ OthersAreBefore' /\ Apart' /\ Found'
  BY <1>1, SameQueue DEF Bounded, OthersAreBefore, Apart, Found
<1>3. Sent'
  BY <1>1 DEF Sent, ElementsOf
<1>4. Exported' = Exported
  BY <1>1 DEF Exported
<1> QED
  BY <1>2, <1>3, <1>4

-----------------------------------------------------------------------------
(* Steps that take from the queue, or add to it. *)

\* What is taken from the front of the queue is past, and the rest is not.
LEMMA Taken ==
  ASSUME EInv, NEW k \in 1..Len(queue), queue' = SubSeq(queue, k + 1, Len(queue)),
         UNCHANGED accepted
  PROVE  /\ queue' \in Seq(Events) /\ Len(queue') = Len(queue) - k
         /\ QueueIsTheEnd'
         /\ \A e : Past(e)' <=> (Past(e) \/ \E i \in 1..k : queue[i] = e)
         /\ ElementsOf(queue) = ElementsOf(queue') \cup {queue[i] : i \in 1..k}
         /\ ElementsOf(queue') \cap {queue[i] : i \in 1..k} = {}
<1> DEFINE a == Len(accepted)
           q == Len(queue)
           r == Len(queue')
<1>1. /\ a \in Nat /\ q \in Nat /\ q <= a /\ Cut = a - q
      /\ \A m \in 1..q : queue[m] = accepted[(a - q) + m]
      /\ \A i, j \in 1..a : accepted[i] = accepted[j] => i = j
  BY LenProperties DEF EInv, TypeOK, QueueIsTheEnd, Cut
<1>2. /\ queue' \in Seq(Events) /\ r \in Nat /\ r = q - k
      /\ \A m \in 1..r : queue'[m] = queue[k + m]
      /\ ElementsOf(queue) = ElementsOf(queue') \cup {queue[i] : i \in 1..k}
  <2>1. queue \in Seq(Events) /\ k \in 1..Len(queue) /\ queue' = SubSeq(queue, k + 1, Len(queue))
    BY DEF EInv, TypeOK
  <2>2. queue' \in Seq(Events)
    BY <2>1, Dropped
  <2>3. Len(queue') \in Nat /\ Len(queue') = Len(queue) - k
    BY <2>1, Dropped
  <2>4. \A i \in 1..Len(queue') : queue'[i] = queue[k + i]
    BY <2>1, Dropped
  <2>5. ElementsOf(queue) = ElementsOf(queue') \cup {queue[i] : i \in 1..k}
    BY <2>1, Dropped
  <2> QED
    BY <2>2, <2>3, <2>4, <2>5
<1>3. Cut' = a - r /\ DOMAIN queue' = 1..r
  BY <1>2, LenProperties DEF Cut
<1>4. k \in 1..q
  OBVIOUS
<1>5. QueueIsTheEnd' <=>
        /\ \A i, j \in 1..a : accepted[i] = accepted[j] => i = j
        /\ r <= a
        /\ \A m \in 1..r : queue'[m] = accepted[(a - r) + m]
  BY <1>3 DEF QueueIsTheEnd
<1>6. \A e : Past(e)' <=> \E i \in 1..(a - r) : accepted[i] = e
  BY <1>3 DEF Past
<1>7. \A e : Past(e) <=> \E i \in 1..(a - q) : accepted[i] = e
  BY <1>1 DEF Past
<1>8. ElementsOf(queue') = {queue'[m] : m \in 1..r}
  BY <1>3 DEF ElementsOf
<1> HIDE DEF a, q, r
<1>9. \A m \in 1..r : k + m \in 1..q /\ queue'[m] = accepted[(a - r) + m]
  <2>1. \A m \in 1..r : k + m \in 1..q /\ (a - q) + (k + m) = (a - r) + m
    BY <1>1, <1>2, <1>4
  <2>2. ASSUME NEW m \in 1..r PROVE queue'[m] = accepted[(a - r) + m]
    <3>1. queue'[m] = queue[k + m]
      BY <1>2
    <3>2. queue[k + m] = accepted[(a - q) + (k + m)]
      BY <1>1, <2>1
    <3> QED
      BY <2>1, <3>1, <3>2
  <2> QED
    BY <2>1, <2>2
<1>10. QueueIsTheEnd'
  <2>1. r <= a
    BY <1>1, <1>2, <1>4
  <2> QED
    BY <1>1, <1>5, <1>9, <2>1
<1>11. ASSUME NEW e PROVE Past(e)' <=> (Past(e) \/ \E i \in 1..k : queue[i] = e)
  <2>1. ASSUME NEW i \in 1..(a - r), accepted[i] = e
        PROVE  Past(e) \/ \E j \in 1..k : queue[j] = e
    <3>1. i \in 1..(a - q) \/ (i - (a - q) \in 1..k /\ i - (a - q) \in 1..q
                               /\ (a - q) + (i - (a - q)) = i)
      BY <1>1, <1>2, <1>4
    <3>2. CASE i \in 1..(a - q)
      BY <1>7, <2>1, <3>2
    <3>3. CASE i - (a - q) \in 1..k /\ i - (a - q) \in 1..q /\ (a - q) + (i - (a - q)) = i
      BY <1>1, <2>1, <3>3
    <3> QED
      BY <3>1, <3>2, <3>3
  <2>2. ASSUME NEW j \in 1..k, queue[j] = e PROVE Past(e)'
    <3>1. j \in 1..q /\ (a - q) + j \in 1..(a - r)
      BY <1>1, <1>2, <1>4
    <3> QED
      BY <1>1, <1>6, <2>2, <3>1
  <2>3. \A i \in 1..(a - q) : i \in 1..(a - r)
    BY <1>1, <1>2, <1>4
  <2> QED
    BY <1>6, <1>7, <2>1, <2>2, <2>3
<1>12. ElementsOf(queue') \cap {queue[i] : i \in 1..k} = {}
  <2>1. ASSUME NEW m \in 1..r, NEW i \in 1..k PROVE queue'[m] # queue[i]
    <3>1. /\ k + m \in 1..q /\ i \in 1..q /\ k + m # i
          /\ (a - q) + (k + m) \in 1..a /\ (a - q) + i \in 1..a
          /\ (a - q) + (k + m) # (a - q) + i
      BY <1>1, <1>2, <1>4
    <3>2. queue[k + m] # queue[i]
      <4>1. queue[k + m] = accepted[(a - q) + (k + m)] /\ queue[i] = accepted[(a - q) + i]
        BY <1>1, <3>1
      <4> QED
        BY <1>1, <3>1, <4>1
    <3> QED
      BY <1>2, <3>2
  <2> QED
    BY <1>8, <2>1
<1> QED
  BY <1>2, <1>4, <1>10, <1>11, <1>12 DEF q, r

LEMMA PopInv ==
  ASSUME EInv, NEW t \in Threads, Pop(t)
  PROVE  EInv'
<1> USE DEF EInv
<1> DEFINE oldest == queue[1]
<1>1. /\ at[t] = "pop" /\ victim' = [victim EXCEPT ![t] = Head(queue)]
      /\ queue' = Tail(queue) /\ at' = [at EXCEPT ![t] = "bury"]
      /\ UNCHANGED <<recorders, event, flushing, hand, attempt, delivered, dead, exported,
                     accepted, raised, running>>
  BY DEF Pop, OldestFirst, flushVars
<1>2. /\ queue \in Seq(Events) /\ Len(queue) \in Nat /\ 1 \in 1..Len(queue) /\ queue # <<>>
      /\ Cardinality(Popping) \in Nat /\ Cardinality(Popping) <= Len(queue)
      /\ Cardinality(Popping) >= 1
  <2>1. t \in Popping
    BY <1>1 DEF Popping
  <2>2. Cardinality(Popping) # 0 /\ Cardinality(Popping) \in Nat
    BY <2>1, ThreadsCounted, FS_EmptySet
  <2>3. queue \in Seq(Events) /\ Len(queue) \in Nat
    BY LenProperties DEF TypeOK
  <2>4. Cardinality(Popping) <= Len(queue) /\ Len(queue) # 0
    BY <2>2, <2>3 DEF Bounded
  <2>5. queue # <<>>
    BY <2>4, EmptySeq
  <2> QED
    BY <2>2, <2>3, <2>4, <2>5
<1>3. /\ queue' = SubSeq(queue, 1 + 1, Len(queue)) /\ Head(queue) = oldest
      /\ oldest \in Events /\ oldest \in ElementsOf(queue) /\ oldest # None
  <2>1. DOMAIN queue = 1..Len(queue) /\ oldest \in Events
    BY <1>2, LenProperties, ElementOfSeq
  <2>2. queue' = SubSeq(queue, 2, Len(queue)) /\ 1 + 1 = 2
    BY <1>1, <1>2, TailIsSubSeq
  <2>3. Head(queue) = oldest
    BY <1>2
  <2> QED
    BY <1>2, <2>1, <2>2, <2>3, PipelineAssumption DEF ElementsOf
<1> HIDE DEF oldest
<1>4. /\ queue' \in Seq(Events) /\ Len(queue') = Len(queue) - 1
      /\ QueueIsTheEnd'
      /\ \A e : Past(e)' <=> (Past(e) \/ oldest = e)
      /\ ElementsOf(queue) = ElementsOf(queue') \cup {oldest}
      /\ oldest \notin ElementsOf(queue')
  <2>1. \A i \in 1..1 : i = 1
    OBVIOUS
  <2>2. 1 \in 1..1
    OBVIOUS
  <2> QED
    BY <1>1, <1>2, <1>3, <2>1, <2>2, Taken DEF oldest
<1>5. /\ \A u \in Threads : at'[u] = IF u = t THEN "bury" ELSE at[u]
      /\ \A u \in Threads : victim'[u] = IF u = t THEN oldest ELSE victim[u]
      /\ victim[t] = None /\ flushing = "no" /\ t \in recorders
  BY <1>1, <1>3 DEF TypeOK, Threaded
<1>6. TypeOK'
  BY <1>1, <1>3, <1>4 DEF TypeOK
<1>7. Threaded'
  BY <1>1, <1>3, <1>5 DEF Threaded
<1>8. Bounded'
  <2>1. Popping' = Popping \ {t} /\ Adding' = Adding \cup {t} /\ t \in Popping /\ t \notin Adding
    BY <1>1, <1>5 DEF Popping, Adding
  <2>2. /\ Cardinality(Popping') = Cardinality(Popping) - 1
        /\ Cardinality(Adding') = Cardinality(Adding) + 1
    BY <2>1, ThreadsCounted, FS_AddElement, FS_RemoveElement
  <2>3. Cardinality(Adding) \in Nat /\ Cardinality(recorders) \in Nat /\ MaxQueue \in Nat
    BY ThreadsCounted, PipelineAssumption
  <2> QED
    BY <1>1, <1>2, <1>4, <2>2, <2>3 DEF Bounded
<1>9. /\ Victims' = Victims \cup {oldest} /\ Held' = Held
      /\ DeadEvents' = DeadEvents /\ \A e : Overflow(e)' <=> Overflow(e)
  <2>1. Victims' = Victims \cup {oldest}
    BY <1>3, <1>5 DEF Victims
  <2> QED
    BY <1>1, <1>4, <2>1 DEF Held, DeadEvents, Overflow
<1>10. OthersAreBefore'
  BY <1>1, <1>4, <1>9 DEF OthersAreBefore
<1>11. \A u \in Threads : victim[u] # oldest
  <2>1. \A e \in Victims : Past(e)
    BY DEF OthersAreBefore
  <2> QED
    BY <1>3, <2>1, Places DEF Victims
<1>12. Apart'
  BY <1>1, <1>5, <1>9, <1>11 DEF Apart
<1>13. Sent' /\ Found' /\ Exported' = Exported
  BY <1>1, <1>3, <1>4, <1>9 DEF Sent, Found, Exported
<1> QED
  BY <1>1, <1>4, <1>6, <1>7, <1>8, <1>10, <1>12, <1>13

\* While a thread is in enqueue nothing is in the hands of a flush.
LEMMA Enqueueing ==
  ASSUME EInv, NEW t \in Threads, at[t] # "idle"
  PROVE  flushing = "no" /\ hand = <<>> /\ ElementsOf(hand) = {} /\ t \in recorders
  BY DEF EInv, Threaded, ElementsOf

LEMMA BuryOldestInv ==
  ASSUME EInv, NEW t \in Threads, BuryOldest(t)
  PROVE  EInv'
<1> USE DEF EInv
<1> DEFINE v == victim[t]
           n == event[t]
           Buried == /\ dead' = dead \cup {[event |-> v, reason |-> "queue_overflow"]}
                     /\ at' = [at EXCEPT ![t] = "append"]
                     /\ event' = event /\ raised' = raised
           Lost == /\ raised' = raised \cup {v, n}
                   /\ at' = [at EXCEPT ![t] = "idle"]
                   /\ event' = [event EXCEPT ![t] = None]
                   /\ dead' = dead
<1>1. /\ at[t] = "bury" /\ victim' = [victim EXCEPT ![t] = None] /\ (Buried \/ Lost)
      /\ UNCHANGED <<recorders, queue, flushing, hand, attempt, delivered, exported,
                     accepted, running>>
  BY DEF BuryOldest, flushVars
<1>2. /\ v \in Events /\ v # None /\ v \in Victims /\ v \in Held
      /\ n \in Events /\ n # None
  <2>1. at[t] # "idle" /\ v \in Events \cup {None} /\ n \in Events \cup {None}
    BY <1>1 DEF TypeOK
  <2>2. v # None /\ n # None
    BY <1>1, <2>1 DEF Threaded
  <2> QED
    BY <2>1, <2>2 DEF Victims, Held
<1>3. flushing = "no" /\ hand = <<>> /\ ElementsOf(hand) = {} /\ t \in recorders
  BY <1>1, Enqueueing
<1>4. v \in ElementsOf(accepted) /\ Past(v) /\ v \notin ElementsOf(queue) /\ delivered[v] = 0
  BY <1>2, Places DEF OthersAreBefore, Sent
<1>5. n \notin ElementsOf(accepted) /\ n \notin Held /\ n # v
  BY <1>2, <1>4, Places DEF Apart
<1>6. \A u \in Threads : victim'[u] = IF u = t THEN None ELSE victim[u]
  BY <1>1 DEF TypeOK
<1>7. Victims' = Victims \ {v} /\ Held' = Held \ {v}
  <2>1. \A u \in Threads : u # t => victim[u] # v
    BY <1>2 DEF Apart
  <2>2. Victims' = Victims \ {v}
    BY <1>6, <2>1 DEF Victims
  <2> QED
    BY <1>1, <1>3, <1>4, <2>2 DEF Held
<1>8. QueueIsTheEnd' /\ (\A e : Past(e)' <=> Past(e))
  BY <1>1, SameQueue
<1>9. Popping' = Popping
  <2>1. \A u \in Threads : at'[u] = "pop" <=> at[u] = "pop"
    BY <1>1 DEF TypeOK
  <2> QED
    BY <2>1 DEF Popping
<1>10. CASE Buried
  <2>1. /\ dead' = dead \cup {[event |-> v, reason |-> "queue_overflow"]}
        /\ event' = event /\ raised' = raised
        /\ \A u \in Threads : at'[u] = IF u = t THEN "append" ELSE at[u]
    BY <1>10 DEF TypeOK
  <2>2. /\ DeadEvents' = DeadEvents \cup {v}
        /\ \A e : Overflow(e)' <=> (Overflow(e) \/ e = v)
    BY <2>1 DEF DeadEvents, Overflow
  <2>3. TypeOK'
    BY <1>1, <1>2, <1>10 DEF TypeOK, Reasons
  <2>4. Threaded'
    BY <1>1, <1>3, <1>6, <2>1 DEF Threaded
  <2>5. Bounded'
    <3>1. Adding' = Adding
      BY <1>1, <2>1 DEF Adding
    <3> QED
      BY <1>1, <1>9, <3>1 DEF Bounded
  <2>6. OthersAreBefore'
    BY <1>1, <1>4, <1>7, <1>8, <2>2 DEF OthersAreBefore
  <2>7. Apart'
    BY <1>1, <1>4, <1>6, <1>7, <2>1, <2>2 DEF Apart
  <2>8. Sent'
    BY <1>1, <1>4, <1>7, <2>2 DEF Sent
  <2>9. Found' /\ Exported' = Exported
    BY <1>1, <1>4, <1>7, <2>1, <2>2 DEF Found, Exported
  <2> QED
    BY <1>1, <1>8, <2>3, <2>4, <2>5, <2>6, <2>7, <2>8, <2>9
<1>11. CASE Lost
  <2>1. /\ raised' = raised \cup {v, n} /\ dead' = dead
        /\ \A u \in Threads : at'[u] = IF u = t THEN "idle" ELSE at[u]
        /\ \A u \in Threads : event'[u] = IF u = t THEN None ELSE event[u]
    BY <1>11 DEF TypeOK
  <2>2. DeadEvents' = DeadEvents /\ \A e : Overflow(e)' <=> Overflow(e)
    BY <2>1 DEF DeadEvents, Overflow
  <2>3. TypeOK'
    BY <1>1, <1>2, <1>11 DEF TypeOK
  <2>4. Threaded'
    BY <1>1, <1>3, <1>6, <2>1 DEF Threaded
  <2>5. Bounded'
    <3>1. Adding' = Adding \ {t} /\ t \in Adding
      BY <1>1, <2>1 DEF Adding
    <3>2. Cardinality(Adding') = Cardinality(Adding) - 1
      BY <3>1, ThreadsCounted, FS_RemoveElement
    <3>3. /\ Cardinality(Adding) \in Nat /\ Cardinality(recorders) \in Nat /\ MaxQueue \in Nat
          /\ Len(queue) \in Nat
      BY ThreadsCounted, PipelineAssumption, LenProperties DEF TypeOK
    <3> QED
      BY <1>1, <1>9, <3>2, <3>3 DEF Bounded
  <2>6. OthersAreBefore'
    BY <1>1, <1>7, <1>8, <2>2 DEF OthersAreBefore
  <2>7. Apart'
    <3>1. \A u \in Threads : u # t => event[u] # n
      BY <1>2 DEF Apart
    <3>2. \A u \in Threads : event[u] # None => event[u] # v
      BY <1>4 DEF Apart
    <3> QED
      BY <1>1, <1>4, <1>5, <1>6, <1>7, <2>1, <2>2, <3>1, <3>2 DEF Apart
  <2>8. Sent'
    BY <1>1, <1>7, <2>2, <1>4 DEF Sent
  <2>9. Found' /\ Exported' = Exported
    BY <1>1, <1>4, <1>5, <1>7, <2>1, <2>2 DEF Found, Exported
  <2> QED
    BY <1>1, <1>8, <2>3, <2>4, <2>5, <2>6, <2>7, <2>8, <2>9
<1> QED
  BY <1>1, <1>10, <1>11

LEMMA AppendEventInv ==
  ASSUME EInv, NEW t \in Threads, AppendEvent(t)
  PROVE  EInv'
<1> USE DEF EInv
<1> DEFINE n == event[t]
<1>1. /\ at[t] = "append" /\ queue' = Append(queue, n) /\ accepted' = Append(accepted, n)
      /\ event' = [event EXCEPT ![t] = None] /\ at' = [at EXCEPT ![t] = "idle"]
      /\ UNCHANGED <<recorders, victim, flushing, hand, attempt, delivered, dead, exported,
                     raised, running>>
  BY DEF AppendEvent, flushVars
<1>2. n \in Events /\ n # None /\ n \notin ElementsOf(accepted) \cup raised \cup DeadEvents
  <2>1. n \in Events \cup {None} /\ at[t] # "idle"
    BY <1>1 DEF TypeOK
  <2>2. n # None
    BY <2>1 DEF Threaded
  <2> QED
    BY <2>1, <2>2 DEF Apart
<1>3. t \in recorders /\ delivered[n] = 0 /\ n \notin Held /\ ~Overflow(n) /\ ~Past(n)
  <2>1. n \notin Held /\ ~Past(n)
    BY <1>2, Places
  <2> QED
    BY <1>1, <1>2, <2>1, Enqueueing DEF Sent, OthersAreBefore
<1>4. /\ queue \in Seq(Events) /\ Len(queue) \in Nat /\ queue' \in Seq(Events)
      /\ Len(queue') = Len(queue) + 1 /\ queue'[Len(queue) + 1] = n
      /\ \A i \in 1..Len(queue) : queue'[i] = queue[i]
      /\ ElementsOf(queue') = ElementsOf(queue) \cup {n}
  <2>1. queue \in Seq(Events)
    BY DEF TypeOK
  <2> QED
    BY <1>1, <1>2, <2>1, LenProperties, AppendProperties, ElementsAppended
<1>5. /\ accepted \in Seq(Events) /\ Len(accepted) \in Nat /\ accepted' \in Seq(Events)
      /\ Len(accepted') = Len(accepted) + 1 /\ accepted'[Len(accepted) + 1] = n
      /\ \A i \in 1..Len(accepted) : accepted'[i] = accepted[i]
      /\ ElementsOf(accepted') = ElementsOf(accepted) \cup {n}
      /\ \A i \in 1..Len(accepted) : accepted[i] # n
  <2>1. accepted \in Seq(Events)
    BY DEF TypeOK
  <2>2. \A i \in 1..Len(accepted) : accepted[i] # n
    <3>1. DOMAIN accepted = 1..Len(accepted)
      BY <2>1, LenProperties
    <3> QED
      BY <1>2, <3>1 DEF ElementsOf
  <2> QED
    BY <1>1, <1>2, <2>1, <2>2, LenProperties, AppendProperties, ElementsAppended
<1>6. QueueIsTheEnd' /\ (\A e : Past(e)' <=> Past(e))
  <2> DEFINE a == Len(accepted)
             q == Len(queue)
  <2>1. /\ a \in Nat /\ q \in Nat /\ q <= a /\ Cut = a - q
        /\ \A m \in 1..q : queue[m] = accepted[(a - q) + m]
        /\ \A i, j \in 1..a : accepted[i] = accepted[j] => i = j
    BY <1>4, <1>5 DEF QueueIsTheEnd, Cut
  <2>2. Len(accepted') = a + 1 /\ Len(queue') = q + 1 /\ Cut' = a - q
    BY <1>4, <1>5, <2>1 DEF Cut
  <2>3. /\ \A i \in 1..a : accepted'[i] = accepted[i] /\ accepted[i] # n
        /\ \A m \in 1..q : queue'[m] = queue[m]
        /\ accepted'[a + 1] = n /\ queue'[q + 1] = n
    BY <1>4, <1>5
  <2>4. QueueIsTheEnd' <=>
          /\ \A i, j \in 1..(a + 1) : accepted'[i] = accepted'[j] => i = j
          /\ q + 1 <= a + 1
          /\ \A m \in 1..(q + 1) : queue'[m] = accepted'[(a - q) + m]
    BY <2>2 DEF QueueIsTheEnd
  <2>5. /\ \A e : Past(e) <=> \E i \in 1..(a - q) : accepted[i] = e
        /\ \A e : Past(e)' <=> \E i \in 1..(a - q) : accepted'[i] = e
    BY <2>1, <2>2 DEF Past
  <2> HIDE DEF a, q
  <2>6. \A i \in 1..(a - q) : i \in 1..a
    BY <2>1
  <2>7. \A e : Past(e)' <=> Past(e)
    BY <2>3, <2>5, <2>6
  <2>8. ASSUME NEW i \in 1..(a + 1), NEW j \in 1..(a + 1), accepted'[i] = accepted'[j]
        PROVE  i = j
    <3>1. (i \in 1..a \/ i = a + 1) /\ (j \in 1..a \/ j = a + 1)
      BY <2>1
    <3> QED
      BY <2>1, <2>3, <2>8, <3>1
  <2>9. ASSUME NEW m \in 1..(q + 1) PROVE queue'[m] = accepted'[(a - q) + m]
    <3>1. \/ m \in 1..q /\ (a - q) + m \in 1..a
          \/ m = q + 1 /\ (a - q) + m = a + 1
      BY <2>1
    <3> QED
      BY <2>1, <2>3, <3>1
  <2>10. q + 1 <= a + 1
    BY <2>1
  <2> QED
    BY <2>4, <2>7, <2>8, <2>9, <2>10
<1>7. /\ \A u \in Threads : at'[u] = IF u = t THEN "idle" ELSE at[u]
      /\ \A u \in Threads : event'[u] = IF u = t THEN None ELSE event[u]
  BY <1>1 DEF TypeOK
<1>8. TypeOK'
  BY <1>1, <1>4, <1>5 DEF TypeOK
<1>9. Threaded'
  BY <1>1, <1>3, <1>7 DEF Threaded
<1>10. Bounded'
  <2>1. Popping' = Popping /\ Adding' = Adding \ {t} /\ t \in Adding
    BY <1>1, <1>7 DEF Popping, Adding
  <2>2. Cardinality(Adding') = Cardinality(Adding) - 1
    BY <2>1, ThreadsCounted, FS_RemoveElement
  <2>3. /\ Cardinality(Adding) \in Nat /\ Cardinality(recorders) \in Nat /\ MaxQueue \in Nat
        /\ Cardinality(Popping) \in Nat
    BY ThreadsCounted, PipelineAssumption
  <2> QED
    BY <1>1, <1>4, <2>1, <2>2, <2>3 DEF Bounded
<1>11. /\ Victims' = Victims /\ Held' = Held \cup {n}
       /\ DeadEvents' = DeadEvents /\ \A e : Overflow(e)' <=> Overflow(e)
  BY <1>1, <1>4 DEF Victims, Held, DeadEvents, Overflow
<1>12. OthersAreBefore'
  BY <1>1, <1>6, <1>11 DEF OthersAreBefore
<1>13. Apart'
  <2>1. \A u \in Threads : u # t => event[u] # n
    BY <1>2 DEF Apart
  <2> QED
    BY <1>1, <1>2, <1>5, <1>7, <1>11, <2>1 DEF Apart
<1>14. Sent'
  BY <1>1, <1>3, <1>4, <1>5, <1>11 DEF Sent
<1>15. Found' /\ Exported' = Exported
  BY <1>1, <1>2, <1>3, <1>5, <1>11 DEF Found, Exported
<1> QED
  BY <1>1, <1>6, <1>8, <1>9, <1>10, <1>12, <1>13, <1>14, <1>15

-----------------------------------------------------------------------------
(* The flush. *)

LEMMA FlushInv ==
  ASSUME EInv, Flush
  PROVE  EInv'
<1>1. /\ \E t \in recorders : recorders = {t} /\ at[t] = "idle"
      /\ flushing = "no" /\ flushing' = "taking"
      /\ UNCHANGED <<recorders, queue, at, event, victim, hand, attempt, delivered, dead,
                     exported, accepted, raised, running>>
  BY DEF Flush, threadVars
<1>2. TypeOK'
  BY <1>1 DEF EInv, TypeOK
<1>3. Threaded'
  BY <1>1 DEF EInv, Threaded
<1> QED
  BY <1>1, <1>2, <1>3, ControlInv

LEMMA SendRefusedInv ==
  ASSUME EInv, SendRefused
  PROVE  EInv'
<1>1. /\ flushing = "sending" /\ flushing' = "burying"
      /\ UNCHANGED <<recorders, queue, at, event, victim, hand, attempt, delivered, dead,
                     exported, accepted, raised, running>>
  BY DEF SendRefused, threadVars
<1>2. TypeOK' /\ Threaded'
  BY <1>1 DEF EInv, TypeOK, Threaded
<1> QED
  BY <1>1, <1>2, ControlInv

LEMMA ExitInv ==
  ASSUME EInv, Exit
  PROVE  EInv'
<1>1. /\ running' = FALSE
      /\ UNCHANGED <<recorders, queue, at, event, victim, flushing, hand, attempt, delivered,
                     dead, exported, accepted, raised>>
  BY DEF Exit, threadVars, flushVars
<1>2. TypeOK' /\ Threaded'
  BY <1>1 DEF EInv, TypeOK, Threaded
<1> QED
  BY <1>1, <1>2, ControlInv

\* A flush has the process to itself, and what is in its hands is nowhere else.
LEMMA Flushing ==
  ASSUME EInv, flushing # "no"
  PROVE  /\ Victims = {} /\ Popping = {} /\ Adding = {}
         /\ Held = ElementsOf(queue) \cup ElementsOf(hand)
         /\ ElementsOf(queue) \cap ElementsOf(hand) = {}
         /\ \A e \in ElementsOf(hand) :
              /\ e \in Events /\ e \in ElementsOf(accepted) /\ Past(e)
              /\ e \notin raised /\ e \notin DeadEvents /\ ~Overflow(e)
<1> USE DEF EInv
<1>1. \A t \in Threads : at[t] = "idle" /\ victim[t] = None
  BY DEF Threaded
<1>2. Victims = {} /\ Popping = {} /\ Adding = {}
  BY <1>1 DEF Victims, Popping, Adding
<1>3. Held = ElementsOf(queue) \cup ElementsOf(hand)
  BY <1>2 DEF Held
<1>4. \A e \in ElementsOf(hand) : Past(e) /\ e \notin raised /\ e \notin DeadEvents
  BY <1>3 DEF OthersAreBefore, Apart
<1>5. \A e : Overflow(e) => e \in DeadEvents
  BY DEF Overflow, DeadEvents
<1>6. \A e \in ElementsOf(hand) : e \in ElementsOf(accepted) /\ e \in Events
  BY <1>3, Places
<1>7. ElementsOf(queue) \cap ElementsOf(hand) = {}
  BY <1>4, Places
<1> QED
  BY <1>2, <1>3, <1>4, <1>5, <1>6, <1>7

LEMMA TakeInv ==
  ASSUME EInv, Take
  PROVE  EInv'
<1> USE DEF EInv
<1> DEFINE k == TakeSize(queue)
<1>1. /\ flushing = "taking" /\ hand = <<>> /\ ElementsOf(hand) = {}
      /\ UNCHANGED <<recorders, at, event, victim, delivered, dead, exported, accepted, raised,
                     running>>
  BY DEF Take, threadVars, Threaded, ElementsOf
<1>2. CASE queue = <<>> /\ flushing' = "no" /\ UNCHANGED <<queue, hand, attempt>>
  <2>1. TypeOK' /\ Threaded'
    BY <1>1, <1>2 DEF TypeOK, Threaded
  <2> QED
    BY <1>1, <1>2, <2>1, ControlInv
<1>3. CASE /\ queue # <<>>
           /\ hand' = SubSeq(queue, 1, k)
           /\ queue' = SubSeq(queue, k + 1, Len(queue))
           /\ attempt' = 0 /\ flushing' = "sending"
  <2>1. /\ queue \in Seq(Events) /\ DOMAIN queue = 1..Len(queue)
        /\ k \in Nat /\ k \in 1..Len(queue) /\ k <= BatchSize
    <3>1. queue \in Seq(Events) /\ Len(queue) \in Nat \ {0} /\ DOMAIN queue = 1..Len(queue)
      BY <1>3, LenProperties, EmptySeq DEF TypeOK
    <3> QED
      BY <3>1, PipelineAssumption DEF TakeSize
  <2>2. /\ hand' \in Seq(Events) /\ Len(hand') = k /\ DOMAIN hand' = 1..k
        /\ \A i \in 1..k : hand'[i] = queue[i]
    <3>1. \A i \in 1..k : queue[i] \in Events
      <4>1. \A i \in 1..k : i \in 1..Len(queue)
        BY <2>1, LenProperties
      <4> QED
        BY <2>1, <4>1, ElementOfSeq
    <3> DEFINE b == k
    <3> HIDE DEF b
    <3>2. b \in Nat /\ b >= 1 /\ 1 \in Int /\ b - 1 + 1 = b
      BY <2>1, LenProperties DEF b
    <3>3. \A i \in 1..b : queue[i] \in Events
      BY <3>1 DEF b
    <3>4. /\ SubSeq(queue, 1, b) \in Seq(Events)
          /\ Len(SubSeq(queue, 1, b)) = IF 1 <= b THEN b - 1 + 1 ELSE 0
          /\ \A i \in 1..(b - 1 + 1) : SubSeq(queue, 1, b)[i] = queue[1 + i - 1]
      BY <3>2, <3>3, SubSeqProperties
    <3>5. \A i \in 1..b : 1 + i - 1 = i
      BY <3>2
    <3>6. /\ SubSeq(queue, 1, b) \in Seq(Events) /\ Len(SubSeq(queue, 1, b)) = b
          /\ \A i \in 1..b : SubSeq(queue, 1, b)[i] = queue[i]
      BY <3>2, <3>4, <3>5
    <3> QED
      BY <1>3, <3>6, LenProperties DEF b
  <2> HIDE DEF k
  <2>3. ElementsOf(hand') = {queue[i] : i \in 1..k}
    BY <2>2 DEF ElementsOf
  <2>4. /\ queue' \in Seq(Events) /\ Len(queue') = Len(queue) - k
        /\ QueueIsTheEnd'
        /\ \A e : Past(e)' <=> (Past(e) \/ e \in ElementsOf(hand'))
        /\ ElementsOf(queue) = ElementsOf(queue') \cup ElementsOf(hand')
    <3>1. /\ queue' \in Seq(Events) /\ Len(queue') = Len(queue) - k
          /\ QueueIsTheEnd'
          /\ \A e : Past(e)' <=> (Past(e) \/ \E i \in 1..k : queue[i] = e)
          /\ ElementsOf(queue) = ElementsOf(queue') \cup {queue[i] : i \in 1..k}
      BY <1>1, <1>3, <2>1, Taken
    <3> QED
      BY <2>3, <3>1
  <2>5. TypeOK'
    <3>1. attempt' \in 0..MaxRetries /\ Len(hand') <= BatchSize
      BY <1>3, <2>1, <2>2, PipelineAssumption
    <3> QED
      BY <1>1, <1>3, <2>2, <2>4, <3>1 DEF TypeOK
  <2>6. hand' # <<>>
    <3>1. k # 0 /\ Len(<<>>) = 0
      BY <2>1, LenProperties
    <3> QED
      BY <2>2, <3>1
  <2>7. Threaded'
    BY <1>1, <1>3, <2>6 DEF Threaded
  <2>8. /\ Victims = {} /\ Victims' = {} /\ Popping' = {} /\ Adding' = {}
        /\ Held' = Held /\ DeadEvents' = DeadEvents /\ \A e : Overflow(e)' <=> Overflow(e)
    <3>1. Victims = {} /\ Victims' = Victims /\ Popping' = Popping /\ Adding' = Adding
          /\ Popping = {} /\ Adding = {}
      BY <1>1, Flushing DEF Victims, Popping, Adding
    <3>2. Held' = Held
      BY <1>1, <2>4, <3>1 DEF Held
    <3> QED
      BY <1>1, <3>1, <3>2 DEF DeadEvents, Overflow
  <2>9. Bounded'
    <3>1. Cardinality({}) = 0 /\ Cardinality(Popping) = 0 /\ Cardinality(Adding) = 0
      BY <1>1, Flushing, FS_EmptySet
    <3>2. /\ Len(queue) \in Nat /\ Len(queue') \in Nat /\ Len(queue') <= Len(queue)
          /\ Cardinality(recorders) \in Nat /\ MaxQueue \in Nat
      BY <2>1, <2>4, LenProperties, ThreadsCounted, PipelineAssumption
    <3> QED
      BY <1>1, <2>8, <3>1, <3>2 DEF Bounded
  <2>10. OthersAreBefore'
    BY <1>1, <2>4, <2>8 DEF OthersAreBefore
  <2>11. Apart'
    <3>1. \A i, j \in 1..k : hand'[i] = hand'[j] => i = j
      <4> DEFINE a == Len(accepted)
                 q == Len(queue)
      <4>1. /\ a \in Nat /\ q \in Nat /\ q <= a /\ Cut = a - q /\ k \in 1..q
            /\ \A m \in 1..q : queue[m] = accepted[(a - q) + m]
            /\ \A i, j \in 1..a : accepted[i] = accepted[j] => i = j
        BY <2>1, LenProperties DEF TypeOK, QueueIsTheEnd, Cut
      <4> HIDE DEF a, q
      <4> SUFFICES ASSUME NEW i \in 1..k, NEW j \in 1..k, queue[i] = queue[j]
                   PROVE  i = j
        BY <2>2
      <4>2. /\ i \in 1..q /\ j \in 1..q /\ (a - q) + i \in 1..a /\ (a - q) + j \in 1..a
        BY <4>1
      <4>3. (a - q) + i = (a - q) + j
        BY <4>1, <4>2
      <4> QED
        BY <4>1, <4>3
    <3> QED
      BY <1>1, <2>2, <2>8, <3>1 DEF Apart
  <2>12. Sent'
    <3>1. \A e \in ElementsOf(hand') : e \in Events /\ delivered[e] = 0
      BY <2>4, Places DEF Sent, Held
    <3> QED
      BY <1>1, <1>3, <2>4, <2>8, <3>1 DEF Sent
  <2>13. Found' /\ Exported' = Exported
    BY <1>1, <2>8 DEF Found, Exported
  <2> QED
    BY <1>1, <2>4, <2>5, <2>7, <2>9, <2>10, <2>11, <2>12, <2>13
<1> QED
  BY <1>2, <1>3 DEF Take

\* A sink that gets some of a batch gets each of its events once more, and no
\* event oftener than the batch is tried.
LEMMA Delivered ==
  ASSUME EInv, flushing = "sending", NEW got \in SUBSET ElementsOf(hand),
         delivered' = Delivery(got)
  PROVE  /\ delivered' \in [Events -> Nat]
         /\ \A e \in Events : delivered'[e] <= MaxRetries + 1
         /\ \A e \in ElementsOf(hand) : delivered'[e] <= attempt + 1
         /\ \A e \in got : delivered'[e] > 0
         /\ \A e \in Events : e \notin ElementsOf(hand) => delivered'[e] = delivered[e]
         /\ \A e \in Events : delivered[e] > 0 => delivered'[e] > 0
<1> USE DEF EInv
<1>1. /\ delivered \in [Events -> Nat] /\ attempt \in Nat /\ MaxRetries \in Nat
      /\ attempt <= MaxRetries
  BY PipelineAssumption DEF TypeOK
<1>2. \A e \in ElementsOf(hand) : e \in Events /\ delivered[e] <= attempt
  BY Flushing DEF Sent
<1>3. \A e \in Events : delivered[e] <= MaxRetries + 1
  BY DEF Sent
<1>4. /\ delivered' \in [Events -> Nat]
      /\ \A e \in Events : delivered'[e] = IF e \in got THEN delivered[e] + 1 ELSE delivered[e]
  BY <1>1 DEF Delivery
<1>5. ASSUME NEW e \in Events
      PROVE  /\ delivered'[e] <= MaxRetries + 1
             /\ e \in ElementsOf(hand) => delivered'[e] <= attempt + 1
             /\ e \in got => delivered'[e] > 0
             /\ e \notin ElementsOf(hand) => delivered'[e] = delivered[e]
             /\ delivered[e] > 0 => delivered'[e] > 0
  <2>1. delivered[e] \in Nat
    BY <1>1
  <2>2. CASE e \in got
    BY <1>1, <1>2, <1>4, <2>1, <2>2
  <2>3. CASE e \notin got
    BY <1>1, <1>2, <1>3, <1>4, <2>1, <2>3
  <2> QED
    BY <2>2, <2>3
<1>6. \A e \in got : e \in Events
  BY <1>2
<1> QED
  BY <1>2, <1>4, <1>5, <1>6

LEMMA SendRetryableInv ==
  ASSUME EInv, NEW got \in SUBSET ElementsOf(hand), SendRetryable(got)
  PROVE  EInv'
<1> USE DEF EInv
<1>1. /\ flushing = "sending" /\ delivered' = Delivery(got)
      /\ UNCHANGED <<recorders, queue, at, event, victim, hand, dead, exported, accepted,
                     raised, running>>
      /\ \/ attempt < MaxRetries /\ attempt' = attempt + 1 /\ flushing' = "sending"
         \/ flushing' = "burying" /\ attempt' = attempt
  BY DEF SendRetryable, RetriesLeft, NextAttempt, threadVars
<1>2. /\ delivered' \in [Events -> Nat]
      /\ \A e \in Events : delivered'[e] <= MaxRetries + 1
      /\ \A e \in ElementsOf(hand) : delivered'[e] <= attempt + 1
      /\ \A e \in Events : e \notin ElementsOf(hand) => delivered'[e] = delivered[e]
      /\ \A e \in Events : delivered[e] > 0 => delivered'[e] > 0
  BY <1>1, Delivered
<1>3. TypeOK'
  <2>1. attempt' \in 0..MaxRetries
    BY <1>1, PipelineAssumption DEF TypeOK
  <2> QED
    BY <1>1, <1>2, <2>1 DEF TypeOK
<1>4. Threaded'
  BY <1>1 DEF Threaded
<1>5. /\ Victims' = Victims /\ Popping' = Popping /\ Adding' = Adding /\ Held' = Held
      /\ DeadEvents' = DeadEvents /\ \A e : Overflow(e)' <=> Overflow(e)
  BY <1>1 DEF Victims, Popping, Adding, Held, DeadEvents, Overflow
<1>6. QueueIsTheEnd' /\ OthersAreBefore' /\ Bounded' /\ Apart'
  BY <1>1, <1>5, SameQueue DEF OthersAreBefore, Bounded, Apart
<1>7. Sent'
  <2>1. /\ ElementsOf(hand') = ElementsOf(hand) /\ ElementsOf(queue') = ElementsOf(queue)
        /\ ElementsOf(accepted') = ElementsOf(accepted)
    BY <1>1
  <2>2. \A e \in ElementsOf(hand') : flushing' = "sending" => delivered'[e] <= attempt'
    BY <1>1, <1>2, <2>1
  <2>3. ASSUME NEW e \in Events,
               Overflow(e)' \/ e \in ElementsOf(queue') \cup Victims' \/ e \notin ElementsOf(accepted')
        PROVE  delivered'[e] = 0
    <3>1. e \notin ElementsOf(hand)
      BY <1>1, <1>5, <2>1, <2>3, Flushing
    <3>2. delivered[e] = 0
      BY <1>5, <2>1, <2>3 DEF Sent
    <3> QED
      BY <1>2, <3>1, <3>2
  <2> QED
    BY <1>2, <2>2, <2>3 DEF Sent
<1>8. Exported' = Exported
  <2>1. \A e \in ElementsOf(accepted) : e \notin Held => delivered'[e] = delivered[e]
    BY <1>2, Places DEF Held
  <2> QED
    BY <1>1, <1>5, <2>1 DEF Exported
<1>9. Found'
  <2>1. \A e \in ElementsOf(accepted) : e \in Events
    BY Places
  <2> QED
    BY <1>1, <1>2, <1>5, <2>1 DEF Found
<1> QED
  BY <1>1, <1>3, <1>4, <1>6, <1>7, <1>8, <1>9

LEMMA SendAcceptedInv ==
  ASSUME EInv, SendAccepted
  PROVE  EInv'
<1> USE DEF EInv
<1> DEFINE H == ElementsOf(hand)
<1>1. /\ flushing = "sending" /\ delivered' = Delivery(H)
      /\ exported' = exported + Len(hand)
      /\ hand' = <<>> /\ attempt' = 0 /\ flushing' = "taking"
      /\ UNCHANGED <<recorders, queue, at, event, victim, dead, accepted, raised, running>>
  BY DEF SendAccepted, threadVars
<1>2. /\ delivered' \in [Events -> Nat]
      /\ \A e \in Events : delivered'[e] <= MaxRetries + 1
      /\ \A e \in H : delivered'[e] > 0
      /\ \A e \in Events : e \notin H => delivered'[e] = delivered[e]
      /\ \A e \in Events : delivered[e] > 0 => delivered'[e] > 0
  BY <1>1, Delivered
<1>3. hand \in Seq(Events) /\ Len(hand) \in Nat /\ exported \in Nat /\ MaxRetries \in Nat
  BY PipelineAssumption, LenProperties DEF TypeOK
<1>4. TypeOK'
  <2>1. /\ attempt' \in 0..MaxRetries /\ hand' \in Seq(Events) /\ Len(hand') <= BatchSize
        /\ exported' \in Nat
    BY <1>1, <1>3, PipelineAssumption
  <2> QED
    BY <1>1, <1>2, <2>1 DEF TypeOK
<1>5. Threaded'
  BY <1>1 DEF Threaded
<1>6. /\ Victims' = {} /\ Victims = {} /\ Popping' = Popping /\ Adding' = Adding
      /\ ElementsOf(hand') = {} /\ Held' = ElementsOf(queue) /\ Held = ElementsOf(queue) \cup H
      /\ H \cap ElementsOf(queue) = {}
      /\ DeadEvents' = DeadEvents /\ \A e : Overflow(e)' <=> Overflow(e)
      /\ \A e \in H : /\ e \in Events /\ e \in ElementsOf(accepted)
                      /\ e \notin raised /\ e \notin DeadEvents /\ ~Overflow(e)
  <2>1. ElementsOf(hand') = {}
    BY <1>1 DEF ElementsOf
  <2>2. Victims' = Victims /\ Popping' = Popping /\ Adding' = Adding /\ DeadEvents' = DeadEvents
        /\ \A e : Overflow(e)' <=> Overflow(e)
    BY <1>1 DEF Victims, Popping, Adding, DeadEvents, Overflow
  <2>3. Victims = {}
    BY <1>1, Flushing
  <2>4. Held' = ElementsOf(queue)
    BY <1>1, <2>1, <2>2, <2>3 DEF Held
  <2> QED
    BY <1>1, <2>1, <2>2, <2>3, <2>4, Flushing
<1>7. QueueIsTheEnd' /\ OthersAreBefore' /\ Bounded'
  BY <1>1, <1>6, SameQueue DEF OthersAreBefore, Bounded
<1>8. Apart'
  BY <1>1, <1>6 DEF Apart
<1>9. Sent'
  BY <1>1, <1>2, <1>6 DEF Sent
<1>10. Exported' = Exported \cup H /\ Exported \cap H = {}
  <2>1. \A e \in ElementsOf(accepted) : e \in Events
    BY Places
  <2> QED
    BY <1>1, <1>2, <1>6, <2>1 DEF Exported
<1>11. exported' = Cardinality(Exported')
  <2>1. IsFiniteSet(H) /\ Cardinality(H) = Len(hand)
    BY <1>3, ElementsCounted DEF Apart
  <2>2. IsFiniteSet(Exported)
    <3>1. Exported \in SUBSET Events
      BY Places DEF Exported
    <3> QED
      BY <3>1, EventsAreFinite, FS_Subset
  <2>3. Cardinality(Exported \cup H) = Cardinality(Exported) + Cardinality(H) - Cardinality({})
    BY <1>10, <2>1, <2>2, FS_Union
  <2> QED
    BY <1>1, <1>3, <1>10, <2>1, <2>3, FS_EmptySet
<1>12. Found'
  <2>1. \A e \in ElementsOf(accepted) : e \in Events
    BY Places
  <2> QED
    BY <1>1, <1>2, <1>6, <2>1 DEF Found
<1> QED
  BY <1>1, <1>4, <1>5, <1>7, <1>8, <1>9, <1>11, <1>12

\* A flush that something raises through loses what is in its hands.
LEMMA HandLost ==
  ASSUME EInv, flushing # "no",
         delivered' \in [Events -> Nat],
         \A e \in Events : delivered'[e] <= MaxRetries + 1,
         \A e \in Events : e \notin ElementsOf(hand) => delivered'[e] = delivered[e],
         \A e \in Events : delivered[e] > 0 => delivered'[e] > 0,
         raised' = raised \cup ElementsOf(hand), hand' = <<>>, attempt' = 0, flushing' = "no",
         UNCHANGED <<recorders, queue, at, event, victim, dead, exported, accepted, running>>
  PROVE  EInv'
<1> USE DEF EInv
<1> DEFINE H == ElementsOf(hand)
<1>1. /\ Victims' = {} /\ Victims = {} /\ Popping' = Popping /\ Adding' = Adding
      /\ ElementsOf(hand') = {} /\ Held' = ElementsOf(queue) /\ Held = ElementsOf(queue) \cup H
      /\ H \cap ElementsOf(queue) = {}
      /\ DeadEvents' = DeadEvents /\ \A e : Overflow(e)' <=> Overflow(e)
      /\ \A e \in H : /\ e \in Events /\ e \in ElementsOf(accepted)
                      /\ e \notin raised /\ e \notin DeadEvents /\ ~Overflow(e)
  <2>1. ElementsOf(hand') = {}
    BY DEF ElementsOf
  <2>2. Victims' = Victims /\ Popping' = Popping /\ Adding' = Adding /\ DeadEvents' = DeadEvents
        /\ \A e : Overflow(e)' <=> Overflow(e)
    BY DEF Victims, Popping, Adding, DeadEvents, Overflow
  <2>3. Victims = {}
    BY Flushing
  <2>4. Held' = ElementsOf(queue)
    BY <2>1, <2>2, <2>3 DEF Held
  <2> QED
    BY <2>1, <2>2, <2>3, <2>4, Flushing
<1>2. TypeOK'
  <2>1. /\ attempt' \in 0..MaxRetries /\ hand' \in Seq(Events) /\ Len(hand') <= BatchSize
    BY PipelineAssumption
  <2>2. raised' \subseteq Events
    BY <1>1 DEF TypeOK
  <2> QED
    BY <2>1, <2>2 DEF TypeOK
<1>3. Threaded'
  BY DEF Threaded
<1>4. QueueIsTheEnd' /\ OthersAreBefore' /\ Bounded'
  BY <1>1, SameQueue DEF OthersAreBefore, Bounded
<1>5. Apart'
  <2>1. \A t \in Threads : event'[t] = None
    BY DEF Threaded
  <2> QED
    BY <1>1, <2>1 DEF Apart
<1>6. Sent'
  BY <1>1 DEF Sent
<1>7. \A e \in ElementsOf(accepted) : e \in Events
  BY Places
<1>8. Exported' = Exported /\ Found'
  BY <1>1, <1>7 DEF Exported, Found
<1> QED
  BY <1>2, <1>3, <1>4, <1>5, <1>6, <1>8

LEMMA SendRaisesInv ==
  ASSUME EInv, NEW got \in SUBSET ElementsOf(hand), SendRaises(got)
  PROVE  EInv'
<1>1. /\ flushing = "sending" /\ delivered' = Delivery(got)
      /\ raised' = raised \cup ElementsOf(hand)
      /\ hand' = <<>> /\ attempt' = 0 /\ flushing' = "no"
      /\ UNCHANGED <<recorders, queue, at, event, victim, dead, exported, accepted, running>>
  BY DEF SendRaises, threadVars
<1>2. /\ delivered' \in [Events -> Nat]
      /\ \A e \in Events : delivered'[e] <= MaxRetries + 1
      /\ \A e \in Events : e \notin ElementsOf(hand) => delivered'[e] = delivered[e]
      /\ \A e \in Events : delivered[e] > 0 => delivered'[e] > 0
  BY <1>1, Delivered
<1> QED
  BY <1>1, <1>2, HandLost

LEMMA BuryInv ==
  ASSUME EInv, Bury
  PROVE  EInv'
<1> USE DEF EInv
<1> DEFINE h == hand[1]
           D == [event |-> h, reason |-> "delivery_failed_after_retries"]
<1>1. flushing = "burying"
      /\ UNCHANGED <<recorders, queue, at, event, victim, delivered, exported, accepted,
                     running>>
  BY DEF Bury, threadVars
<1>2. CASE /\ raised' = raised \cup ElementsOf(hand)
           /\ hand' = <<>> /\ attempt' = 0 /\ flushing' = "no" /\ dead' = dead
  <2>1. /\ delivered' \in [Events -> Nat] /\ delivered' = delivered
        /\ \A e \in Events : delivered'[e] <= MaxRetries + 1
    BY <1>1 DEF TypeOK, Sent
  <2> QED
    BY <1>1, <1>2, <2>1, HandLost
<1>3. CASE /\ dead' = dead \cup {[event |-> Head(hand), reason |-> "delivery_failed_after_retries"]}
           /\ hand' = Tail(hand) /\ raised' = raised
           /\ \/ Len(hand) > 1 /\ flushing' = flushing /\ attempt' = attempt
              \/ Len(hand) = 1 /\ flushing' = "taking" /\ attempt' = 0
  <2>1. /\ hand \in Seq(Events) /\ hand # <<>> /\ Len(hand) \in Nat /\ 1 \in 1..Len(hand)
        /\ Head(hand) = h /\ hand' = SubSeq(hand, 2, Len(hand))
        /\ DOMAIN hand = 1..Len(hand) /\ h \in Events
    <3>1. hand \in Seq(Events) /\ hand # <<>>
      BY <1>1 DEF TypeOK, Threaded
    <3>2. Len(hand) \in Nat \ {0} /\ DOMAIN hand = 1..Len(hand)
      BY <3>1, LenProperties, EmptySeq
    <3>3. 1 \in 1..Len(hand)
      BY <3>2
    <3>4. Head(hand) = h /\ h \in Events /\ hand' = SubSeq(hand, 2, Len(hand))
      BY <1>3, <3>1, <3>2, <3>3, HeadTailProperties, TailIsSubSeq, ElementOfSeq
    <3> QED
      BY <3>1, <3>2, <3>3, <3>4
  <2>2. /\ hand' \in Seq(Events) /\ Len(hand') \in Nat /\ Len(hand') = Len(hand) - 1
        /\ \A i \in 1..Len(hand') : hand'[i] = hand[1 + i]
        /\ ElementsOf(hand) = ElementsOf(hand') \cup {h}
    <3>1. hand' = SubSeq(hand, 1 + 1, Len(hand))
      BY <2>1
    <3>2. /\ hand' \in Seq(Events) /\ Len(hand') \in Nat /\ Len(hand') = Len(hand) - 1
      BY <2>1, <3>1, Dropped
    <3>3. \A i \in 1..Len(hand') : hand'[i] = hand[1 + i]
      BY <2>1, <3>1, Dropped
    <3>4. ElementsOf(hand) = ElementsOf(hand') \cup {hand[i] : i \in 1..1}
      BY <2>1, <3>1, Dropped
    <3>5. {hand[i] : i \in 1..1} = {h}
      <4>1. \A i \in 1..1 : i = 1
        OBVIOUS
      <4>2. 1 \in 1..1
        OBVIOUS
      <4> QED
        BY <4>1, <4>2
    <3> QED
      BY <3>2, <3>3, <3>4, <3>5
  <2> HIDE DEF h
  <2>3. /\ \A i, j \in 1..Len(hand') : hand'[i] = hand'[j] => i = j
        /\ h \notin ElementsOf(hand')
    <3> DEFINE m == Len(hand)
               l == Len(hand')
    <3>1. /\ m \in Nat /\ m >= 1 /\ l = m - 1 /\ DOMAIN hand' = 1..l
          /\ \A i, j \in 1..m : hand[i] = hand[j] => i = j
          /\ \A i \in 1..l : hand'[i] = hand[1 + i]
      BY <2>1, <2>2, LenProperties DEF Apart
    <3> HIDE DEF m, l
    <3>2. \A i \in 1..l : 1 + i \in 1..m /\ 1 + i # 1
      BY <3>1
    <3>3. 1 \in 1..m
      BY <3>1
    <3>4. \A i \in 1..l : hand'[i] # h
      BY <3>1, <3>2, <3>3 DEF h
    <3>5. ASSUME NEW i \in 1..l, NEW j \in 1..l, hand'[i] = hand'[j] PROVE i = j
      <4>1. 1 + i = 1 + j
        BY <3>1, <3>2, <3>5
      <4> QED
        BY <4>1
    <3> QED
      BY <3>1, <3>4, <3>5 DEF ElementsOf, l
  <2>4. /\ dead' = dead \cup {D} /\ DeadEvents' = DeadEvents \cup {h}
        /\ \A e : Overflow(e)' <=> Overflow(e)
    <3>1. dead' = dead \cup {D}
      BY <1>3, <2>1
    <3>2. \A e : [event |-> e, reason |-> "queue_overflow"] # D
      OBVIOUS
    <3> QED
      BY <3>1, <3>2 DEF DeadEvents, Overflow
  <2>5. TypeOK'
    <3>1. Len(hand') <= BatchSize
      BY <2>1, <2>2, PipelineAssumption DEF TypeOK
    <3>2. attempt' \in 0..MaxRetries /\ flushing' \in {"burying", "taking"}
      BY <1>1, <1>3, PipelineAssumption DEF TypeOK
    <3>3. D \in [event : Events, reason : Reasons]
      BY <2>1 DEF Reasons
    <3> QED
      BY <1>1, <1>3, <2>2, <2>4, <3>1, <3>2, <3>3 DEF TypeOK
  <2>6. Threaded'
    <3>1. hand' = <<>> <=> Len(hand') = 0
      BY <2>2, EmptySeq
    <3>2. hand' = <<>> <=> Len(hand) = 1
      BY <2>1, <2>2, <3>1
    <3>3. \/ Len(hand) # 1 /\ flushing' = "burying"
          \/ Len(hand) = 1 /\ flushing' = "taking"
      BY <1>1, <1>3, <2>1
    <3> QED
      BY <1>1, <3>2, <3>3 DEF Threaded
  <2>7. /\ Victims' = {} /\ Victims = {} /\ Popping' = Popping /\ Adding' = Adding
        /\ Held = ElementsOf(queue) \cup ElementsOf(hand)
        /\ Held' = Held \ {h} /\ h \notin ElementsOf(queue) /\ h \in ElementsOf(hand)
        /\ h \in ElementsOf(accepted)
    <3>1. Victims' = Victims /\ Popping' = Popping /\ Adding' = Adding
      BY <1>1 DEF Victims, Popping, Adding
    <3>2. /\ Victims = {} /\ h \in ElementsOf(hand) /\ h \notin ElementsOf(queue)
          /\ h \in ElementsOf(accepted) /\ Held = ElementsOf(queue) \cup ElementsOf(hand)
      BY <1>1, <2>2, Flushing
    <3>3. Held' = ElementsOf(queue) \cup ElementsOf(hand')
      BY <1>1, <3>1, <3>2 DEF Held
    <3> QED
      BY <2>2, <2>3, <3>1, <3>2, <3>3
  <2>8. QueueIsTheEnd' /\ OthersAreBefore' /\ Bounded'
    BY <1>1, <2>2, <2>4, <2>7, SameQueue DEF OthersAreBefore, Bounded
  <2>9. Apart'
    <3>1. \A t \in Threads : event'[t] = None
      BY <1>1 DEF Threaded
    <3> QED
      BY <1>1, <1>3, <2>3, <2>4, <2>7, <3>1 DEF Apart
  <2>10. Sent'
    BY <1>1, <1>3, <2>4, <2>7 DEF Sent
  <2>11. Exported' = Exported /\ Found'
    BY <1>1, <1>3, <2>4, <2>7 DEF Exported, Found
  <2> QED
    BY <1>1, <2>5, <2>6, <2>8, <2>9, <2>10, <2>11
<1> QED
  BY <1>2, <1>3 DEF Bury

LEMMA StutterInv ==
  ASSUME EInv, UNCHANGED vars
  PROVE  EInv'
<1>1. UNCHANGED <<recorders, queue, at, event, victim, flushing, hand, attempt, delivered,
                  dead, exported, accepted, raised, running>>
  BY DEF vars, threadVars, flushVars
<1>2. TypeOK' /\ Threaded'
  BY <1>1 DEF EInv, TypeOK, Threaded
<1> QED
  BY <1>1, <1>2, ControlInv

LEMMA NextInv ==
  ASSUME EInv, [Next]_vars
  PROVE  EInv'
<1>1. ASSUME NEW t \in Threads, NEW e \in Events, Enqueue(t, e) \/ EnqueueMalformed(t, e)
      PROVE  EInv'
  BY <1>1, EnqueueInv, EnqueueMalformedInv
<1>2. ASSUME NEW t \in Threads, Pop(t) PROVE EInv'
  BY <1>2, PopInv
<1>3. ASSUME NEW t \in Threads, BuryOldest(t) PROVE EInv'
  BY <1>3, BuryOldestInv
<1>4. ASSUME NEW t \in Threads, AppendEvent(t) PROVE EInv'
  BY <1>4, AppendEventInv
<1>5. CASE Flush
  BY <1>5, FlushInv
<1>6. CASE FlushStep
  <2>1. ASSUME NEW got \in SUBSET ElementsOf(hand), SendRetryable(got) \/ SendRaises(got)
        PROVE  EInv'
    BY <2>1, SendRetryableInv, SendRaisesInv
  <2> QED
    BY <1>6, <2>1, TakeInv, SendAcceptedInv, SendRefusedInv, BuryInv DEF FlushStep
<1>7. CASE Exit
  BY <1>7, ExitInv
<1>8. CASE UNCHANGED vars
  BY <1>8, StutterInv
<1> QED
  BY <1>1, <1>2, <1>3, <1>4, <1>5, <1>6, <1>7, <1>8 DEF Next

-----------------------------------------------------------------------------
(* The theorems. *)

\* In every behaviour of the pipeline, fair or not, the invariant holds.
THEOREM Invariance == Spec => []EInv
<1>1. Init => EInv
  BY InitInv
<1>2. EInv /\ [Next]_vars => EInv'
  BY NextInv
<1> QED
  BY <1>1, <1>2, PTL DEF Spec

\* Every variable keeps its type: an attempt is one of those the retries allow,
\* and a batch is never larger than batch_size.
THEOREM TypeCorrect == Spec => []TypeOK
<1>1. EInv => TypeOK
  BY DEF EInv
<1> QED
  BY <1>1, Invariance, PTL

\* The properties speak of the same places.
LEMMA WhereEventsAre ==
  ASSUME EInv, NEW e \in Events
  PROVE  (Pending(e) <=> e \in Held) /\ (e \in DeadEvents <=> \E d \in dead : d.event = e)
<1>1. e # None
  BY PipelineAssumption
<1> QED
  BY <1>1 DEF Pending, Held, Victims, DeadEvents

\* Whatever order the threads and the sink take, and wherever the process ends,
\* an accepted event is queued, held, dead-lettered, with the sink, or was in
\* the hands of a call that raised: ExportPipeline.enqueue and flush lose none.
THEOREM NothingIsLost == Spec => []NothingVanishes
<1>1. ASSUME EInv PROVE NothingVanishes
  <2>1. \A e \in ElementsOf(accepted) : e \in Events
    BY <1>1, Places
  <2> QED
    BY <1>1, <2>1, WhereEventsAre DEF EInv, Found, NothingVanishes, Settled
<1> QED
  BY <1>1, Invariance, PTL

\* For any number of threads that share the queue with nothing locking it, it
\* holds less than its bound and one event for each of them, and what overflow
\* dead-letters is older than all it holds.
THEOREM OldestGoFirst == Spec => []OverflowTakesTheOldest
<1>1. ASSUME EInv PROVE OverflowTakesTheOldest
  <2> DEFINE a == Len(accepted)
             q == Len(queue)
  <2>1. Len(queue) < MaxQueue + Cardinality(recorders)
    <3>1. /\ Len(queue) \in Nat /\ Cardinality(Adding) \in Nat
          /\ Cardinality(recorders) \in Nat /\ MaxQueue \in Nat
      BY <1>1, LenProperties, ThreadsCounted, PipelineAssumption DEF EInv, TypeOK
    <3> QED
      BY <1>1, <3>1 DEF EInv, Bounded
  <2>2. /\ a \in Nat /\ q \in Nat /\ q <= a /\ Cut = a - q
        /\ DOMAIN accepted = 1..a /\ DOMAIN queue = 1..q
        /\ \A m \in 1..q : queue[m] = accepted[(a - q) + m]
        /\ \A i, j \in 1..a : accepted[i] = accepted[j] => i = j
        /\ \A i \in 1..a : accepted[i] \in Events
    BY <1>1, LenProperties, ElementOfSeq DEF EInv, TypeOK, QueueIsTheEnd, Cut
  <2> HIDE DEF a, q
  <2>3. ASSUME NEW i \in DOMAIN accepted, NEW j \in DOMAIN accepted,
               Overflow(accepted[i]), accepted[j] \in ElementsOf(queue)
        PROVE  i < j
    <3>1. i \in 1..a /\ j \in 1..a
      BY <2>2
    <3>2. PICK m \in 1..q : accepted[j] = accepted[(a - q) + m]
      BY <2>2, <2>3 DEF ElementsOf
    <3>3. (a - q) + m \in 1..a
      BY <2>2
    <3>4. j = (a - q) + m
      BY <2>2, <3>1, <3>2, <3>3
    <3>5. Past(accepted[i])
      BY <1>1, <2>2, <2>3, <3>1 DEF EInv, OthersAreBefore
    <3>6. PICK l \in 1..(a - q) : accepted[l] = accepted[i]
      BY <2>2, <3>5 DEF Past
    <3>7. l \in 1..a
      BY <2>2
    <3>8. i = l
      BY <2>2, <3>1, <3>6, <3>7
    <3> QED
      BY <2>2, <3>4, <3>8
  <2> QED
    BY <2>1, <2>3 DEF OverflowTakesTheOldest, Overflow
<1> QED
  BY <1>1, Invariance, PTL

\* metrics["exported"] is the number of accepted events that are with the sink
\* and neither held, dead-lettered nor lost; the sink gets none of them oftener
\* than a batch is attempted, and none that overflow dead-lettered.
THEOREM DeliveryAddsUp == Spec => []DeliveryIsAccounted
<1>1. ASSUME EInv PROVE DeliveryIsAccounted
  <2>1. {e \in ElementsOf(accepted) :
           /\ delivered[e] > 0
           /\ ~Pending(e) /\ e \notin raised
           /\ \A d \in dead : d.event # e} = Exported
    <3>1. \A e \in ElementsOf(accepted) : e \in Events
      BY <1>1, Places
    <3> QED
      BY <1>1, <3>1, WhereEventsAre DEF Exported
  <2>2. exported = Cardinality(Exported)
    BY <1>1 DEF EInv
  <2>3. \A e \in Events : delivered[e] <= MaxRetries + 1 /\ (Overflow(e) => delivered[e] = 0)
    BY <1>1 DEF EInv, Sent
  <2> QED
    BY <2>1, <2>2, <2>3 DEF DeliveryIsAccounted, Overflow
<1> QED
  BY <1>1, Invariance, PTL

=============================================================================
