---------------------------- MODULE McpGatewayProofs ----------------------------
(***************************************************************************)
(* What is in evidence of a session behind the MCP gateway, for any number *)
(* of lines, ids, faults and any sizes of the pipes.                       *)
(*                                                                         *)
(* The invariant follows a line of the client by its number from the       *)
(* thread that reads it, through the table of pending calls and the pipes, *)
(* to the answer: where it is says what is in evidence of it.              *)
(***************************************************************************)
EXTENDS McpGateway, WellFoundedInduction, SequenceTheorems, TLAPS

-----------------------------------------------------------------------------
(* Sequences of anything. *)

IsSequence(s) == s \in Seq({s[i] : i \in DOMAIN s})

LEMMA SequenceOf ==
  ASSUME NEW s, IsSequence(s)
  PROVE  /\ Len(s) \in Nat /\ DOMAIN s = 1..Len(s)
         /\ s = [i \in 1..Len(s) |-> s[i]]
<1>1. Len(s) \in Nat /\ DOMAIN s = 1..Len(s)
  BY LenProperties DEF IsSequence
<1>2. s \in [1..Len(s) -> {s[i] : i \in DOMAIN s}]
  BY LenProperties DEF IsSequence
<1> QED
  BY <1>1, <1>2

LEMMA FunctionIsSequence ==
  ASSUME NEW s, NEW n \in Nat, s = [i \in 1..n |-> s[i]]
  PROVE  IsSequence(s) /\ Len(s) = n
<1> DEFINE S == {s[i] : i \in DOMAIN s}
<1>1. DOMAIN s = 1..n
  OBVIOUS
<1>2. s \in [1..n -> S]
  BY <1>1
<1>3. s \in Seq(S)
  BY <1>2, SeqDef
<1>4. Len(s) \in Nat /\ 1..Len(s) = 1..n
  BY <1>1, <1>3, LenProperties
<1>5. Len(s) = n
  BY <1>4
<1> QED
  BY <1>3, <1>5 DEF IsSequence

LEMMA AppendToSequence ==
  ASSUME NEW s, NEW e, IsSequence(s)
  PROVE  /\ IsSequence(Append(s, e)) /\ Len(Append(s, e)) = Len(s) + 1
         /\ Append(s, e)[Len(s) + 1] = e
         /\ \A i \in 1..Len(s) : Append(s, e)[i] = s[i]
<1> DEFINE S == {s[i] : i \in DOMAIN s} \cup {e}
           t == Append(s, e)
<1>1. s \in Seq(S)
  BY SeqMonotonic DEF IsSequence
<1>2. /\ t \in Seq(S) /\ Len(t) = Len(s) + 1 /\ t[Len(s) + 1] = e
      /\ \A i \in 1..Len(s) : t[i] = s[i]
  BY <1>1, AppendProperties
<1>3. t \in [1..Len(t) -> S] /\ Len(t) \in Nat
  BY <1>2, LenProperties
<1> HIDE DEF t
<1>4. t = [i \in 1..Len(t) |-> t[i]]
  BY <1>3
<1>5. IsSequence(t)
  BY <1>3, <1>4, FunctionIsSequence
<1> QED
  BY <1>2, <1>5 DEF t

LEMMA LeastElement ==
  ASSUME NEW S \in SUBSET Nat, S # {}
  PROVE  \E x \in S : \A y \in S : x <= y
<1> DEFINE R == OpToRel(<, Nat)
<1>1. IsWellFoundedOn(R, Nat)
  BY NatLessThanWellFounded
<1>2. \A x, y \in Nat : <<x, y>> \in R <=> x < y
  BY DEF OpToRel
<1> HIDE DEF R
<1>3. PICK x \in S : \A y \in S : ~(<<y, x>> \in R)
  BY <1>1, WFMin, Zenon
<1>4. ASSUME NEW y \in S PROVE x <= y
  <2>1. x \in Nat /\ y \in Nat
    OBVIOUS
  <2>2. <<y, x>> \in R <=> y < x
    BY <1>2, <2>1, Zenon
  <2>3. ~(y < x)
    BY <1>3, <2>2, Zenon
  <2> QED
    BY <2>1, <2>3
<1> QED
  BY <1>4

-----------------------------------------------------------------------------
(* The chain: what verify says of it. *)

BadRow(rows, i) ==
  SequenceGap(rows, i) \/ PreviousMismatch(rows, i) \/ HashMismatch(rows, i)

LEMMA ValidRows ==
  ASSUME NEW rows, IsSequence(rows)
  PROVE  Valid(rows) <=> \A i \in DOMAIN rows : ~BadRow(rows, i)
<1> DEFINE bad == {i \in DOMAIN rows : BadRow(rows, i)}
<1>1. FirstInvalid(rows) = IF bad = {} THEN 0 ELSE CHOOSE i \in bad : \A j \in bad : i <= j
  BY DEF FirstInvalid, BadRow
<1>2. bad \in SUBSET Nat /\ 0 \notin bad
  BY SequenceOf
<1> HIDE DEF bad
<1>3. bad # {} => FirstInvalid(rows) \in bad
  BY <1>1, <1>2, LeastElement
<1>4. FirstInvalid(rows) = 0 <=> bad = {}
  BY <1>1, <1>2, <1>3
<1> QED
  BY <1>4 DEF Valid, bad

\* The event that the hash of a row is of: what was appended with it.
Hashed(row) == row.event_hash.event

\* The rows up to j are of events up to l, in their order.
OfEvents(rows, events, j, l) ==
  /\ events[l] = Hashed(rows[j])
  /\ \A i \in 1..(j - 1) : \E k \in 1..(l - 1) : events[k] = Hashed(rows[i])

\* Rows that were appended are of recorded events, in their order, and rows none
\* of which is missing are as verify wants them, but for altered events.
ChainFollows(rows, events) ==
  /\ IsSequence(rows) /\ IsSequence(events)
  /\ Len(rows) <= Len(events)
  /\ \A j \in 1..Len(rows) : \E l \in 1..Len(events) : OfEvents(rows, events, j, l)
  /\ Len(rows) = Len(events) =>
       \A i \in DOMAIN rows :
         /\ ~SequenceGap(rows, i) /\ ~PreviousMismatch(rows, i)
         /\ rows[i].event_hash = Hash(events[i], rows[i].sequence, rows[i].previous_hash)

LEMMA ChainStarts == ChainFollows(<<>>, <<>>)
<1>1. IsSequence(<<>>) /\ Len(<<>>) = 0 /\ DOMAIN <<>> = {}
  BY DEF IsSequence
<1> QED
  BY <1>1 DEF ChainFollows

LEMMA AppendFollows ==
  ASSUME NEW rows, NEW events, NEW e, ChainFollows(rows, events)
  PROVE  ChainFollows(Appended(rows, e), Append(events, e))
<1> DEFINE n    == Len(rows)
           m    == Len(events)
           row  == NextRow(rows, e)
           more == Appended(rows, e)
           all  == Append(events, e)
<1>1. /\ IsSequence(rows) /\ IsSequence(events) /\ n \in Nat /\ m \in Nat /\ n <= m
      /\ DOMAIN rows = 1..n /\ DOMAIN events = 1..m
  BY SequenceOf DEF ChainFollows
<1>2. /\ IsSequence(more) /\ Len(more) = n + 1 /\ more[n + 1] = row
      /\ \A i \in 1..n : more[i] = rows[i]
  BY <1>1, AppendToSequence DEF Appended
<1>3. /\ IsSequence(all) /\ Len(all) = m + 1 /\ all[m + 1] = e
      /\ \A i \in 1..m : all[i] = events[i]
  BY <1>1, AppendToSequence
<1>4. DOMAIN more = 1..(n + 1) /\ DOMAIN all = 1..(m + 1)
  BY <1>2, <1>3, SequenceOf
<1>5. /\ row.event_hash = Hash(e, row.sequence, row.previous_hash) /\ Hashed(row) = e
      /\ row.sequence = IF n = 0 THEN 1 ELSE rows[n].sequence + 1
      /\ row.previous_hash = IF n = 0 THEN GENESIS_HASH ELSE rows[n].event_hash
  BY DEF NextRow, Hashed, Hash
<1>6. \A j \in 1..n : \E l \in 1..m : OfEvents(rows, events, j, l)
  BY DEF ChainFollows
<1> HIDE DEF more, all, row, n, m
<1>7. ASSUME NEW j \in 1..(n + 1)
      PROVE  \E l \in 1..(m + 1) : OfEvents(more, all, j, l)
  <2>1. CASE j \in 1..n
    <3>1. PICK l \in 1..m : OfEvents(rows, events, j, l)
      BY <1>6, <2>1
    <3>2. l \in 1..(m + 1) /\ all[l] = Hashed(more[j])
      BY <1>1, <1>2, <1>3, <2>1, <3>1 DEF OfEvents
    <3>3. ASSUME NEW i \in 1..(j - 1) PROVE \E k \in 1..(l - 1) : all[k] = Hashed(more[i])
      <4>1. PICK k \in 1..(l - 1) : events[k] = Hashed(rows[i])
        BY <3>1 DEF OfEvents
      <4>2. i \in 1..n /\ k \in 1..m
        BY <1>1, <2>1
      <4> QED
        BY <1>2, <1>3, <4>1, <4>2
    <3> QED
      BY <3>2, <3>3 DEF OfEvents
  <2>2. CASE j = n + 1
    <3>1. m + 1 \in 1..(m + 1) /\ all[m + 1] = Hashed(more[j])
      BY <1>1, <1>2, <1>3, <1>5, <2>2
    <3>2. ASSUME NEW i \in 1..n PROVE \E k \in 1..m : all[k] = Hashed(more[i])
      <4>1. PICK k \in 1..m : events[k] = Hashed(rows[i])
        BY <1>6 DEF OfEvents
      <4> QED
        BY <1>2, <1>3, <4>1
    <3>3. j - 1 = n /\ (m + 1) - 1 = m
      BY <1>1, <2>2
    <3> QED
      BY <3>1, <3>2, <3>3 DEF OfEvents
  <2> QED
    BY <1>1, <2>1, <2>2
<1>8. ASSUME n + 1 = m + 1, NEW i \in 1..(n + 1)
      PROVE  /\ ~SequenceGap(more, i) /\ ~PreviousMismatch(more, i)
             /\ more[i].event_hash = Hash(all[i], more[i].sequence, more[i].previous_hash)
  <2>1. n = m
    BY <1>1, <1>8
  <2>2. \A j \in 1..n :
          /\ ~SequenceGap(rows, j) /\ ~PreviousMismatch(rows, j)
          /\ rows[j].event_hash = Hash(events[j], rows[j].sequence, rows[j].previous_hash)
    BY <1>1, <2>1 DEF ChainFollows, n, m
  <2>3. CASE i \in 1..n
    <3>1. more[i] = rows[i] /\ all[i] = events[i]
      BY <1>2, <1>3, <2>1, <2>3
    <3>2. i # 1 => i - 1 \in 1..n /\ more[i - 1] = rows[i - 1]
      BY <1>1, <1>2, <2>3
    <3> QED
      BY <2>2, <2>3, <3>1, <3>2 DEF SequenceGap, PreviousMismatch
  <2>4. CASE i = n + 1
    <3>1. more[i] = row /\ all[i] = e
      BY <1>2, <1>3, <2>1, <2>4
    <3>2. ~SequenceGap(more, i)
      <4>1. n # 0 => rows[n].sequence = n
        BY <1>1, <2>2 DEF SequenceGap
      <4> QED
        BY <1>1, <1>5, <2>4, <3>1, <4>1 DEF SequenceGap
    <3>3. ~PreviousMismatch(more, i)
      <4>1. n # 0 => n \in 1..n /\ more[i - 1] = rows[n] /\ i # 1
        BY <1>1, <1>2, <2>4
      <4> QED
        BY <1>1, <1>5, <2>4, <3>1, <4>1 DEF PreviousMismatch
    <3> QED
      BY <1>5, <3>1, <3>2, <3>3
  <2> QED
    BY <1>1, <2>3, <2>4
<1>9. Len(more) <= Len(all)
  BY <1>1, <1>2, <1>3
<1> QED
  BY <1>2, <1>3, <1>4, <1>7, <1>8, <1>9 DEF ChainFollows, more, all

\* A lost row takes its event out of both, and the chain is then shorter.
LEMMA LostFollows ==
  ASSUME NEW rows, NEW events, ChainFollows(rows, events), NEW lost \in DOMAIN rows
  PROVE  ChainFollows(Lost(rows, lost), events)
<1> DEFINE n    == Len(rows)
           m    == Len(events)
           left == Lost(rows, lost)
<1>1. /\ IsSequence(rows) /\ IsSequence(events) /\ n \in Nat /\ m \in Nat /\ n <= m
      /\ DOMAIN rows = 1..n /\ lost \in 1..n /\ n - 1 \in Nat
  BY SequenceOf DEF ChainFollows
<1>2. \A j \in 1..n : \E l \in 1..m : OfEvents(rows, events, j, l)
  BY DEF ChainFollows
<1>3. left = [j \in 1..(n - 1) |-> IF j < lost THEN rows[j] ELSE rows[j + 1]]
  BY DEF Lost
<1> HIDE DEF n, m, left
<1>4. left = [j \in 1..(n - 1) |-> left[j]]
  BY <1>3
<1>5. IsSequence(left) /\ Len(left) = n - 1
  BY <1>1, <1>4, FunctionIsSequence
<1>6. ASSUME NEW j \in 1..(n - 1)
      PROVE  \E l \in 1..m : OfEvents(left, events, j, l)
  <2> DEFINE was(i) == IF i < lost THEN i ELSE i + 1
  <2>1. \A i \in 1..(n - 1) : was(i) \in 1..n /\ left[i] = rows[was(i)]
    BY <1>1, <1>3
  <2>2. \A i \in 1..(j - 1) : was(i) \in 1..(was(j) - 1) /\ i \in 1..(n - 1)
    BY <1>1
  <2> HIDE DEF was
  <2>3. PICK l \in 1..m : OfEvents(rows, events, was(j), l)
    BY <1>2, <2>1
  <2>4. events[l] = Hashed(left[j])
    BY <2>1, <2>3 DEF OfEvents
  <2>5. ASSUME NEW i \in 1..(j - 1) PROVE \E k \in 1..(l - 1) : events[k] = Hashed(left[i])
    BY <2>1, <2>2, <2>3 DEF OfEvents
  <2> QED
    BY <2>4, <2>5 DEF OfEvents
<1>7. Len(left) # m /\ Len(left) <= m
  BY <1>1, <1>5
<1> QED
  BY <1>1, <1>5, <1>6, <1>7 DEF ChainFollows, m, left

\* An altered event leaves the hash of the row.
LEMMA AlteredFollows ==
  ASSUME NEW rows, NEW events, ChainFollows(rows, events), NEW row \in DOMAIN rows, NEW e
  PROVE  ChainFollows(Altered(rows, row, e), events)
<1> DEFINE n       == Len(rows)
           altered == Altered(rows, row, e)
<1>1. IsSequence(rows) /\ n \in Nat /\ DOMAIN rows = 1..n /\ rows = [i \in 1..n |-> rows[i]]
  BY SequenceOf DEF ChainFollows
<1>2. \A i \in 1..n : /\ altered[i].sequence = rows[i].sequence
                      /\ altered[i].previous_hash = rows[i].previous_hash
                      /\ altered[i].event_hash = rows[i].event_hash
  BY <1>1 DEF Altered
<1>3. altered = [i \in 1..n |-> altered[i]] /\ DOMAIN altered = 1..n
  BY <1>1 DEF Altered
<1>4. IsSequence(altered) /\ Len(altered) = n
  BY <1>1, <1>3, FunctionIsSequence
<1> HIDE DEF altered
<1>5. \A j \in 1..n, l \in 1..Len(events) :
        OfEvents(rows, events, j, l) => OfEvents(altered, events, j, l)
  <2>1. \A j \in 1..n : Hashed(altered[j]) = Hashed(rows[j]) /\ \A i \in 1..(j - 1) : i \in 1..n
    BY <1>1, <1>2 DEF Hashed
  <2> QED
    BY <2>1 DEF OfEvents
<1>6. \A i \in 1..n :
        /\ SequenceGap(altered, i) <=> SequenceGap(rows, i)
        /\ PreviousMismatch(altered, i) <=> PreviousMismatch(rows, i)
  BY <1>1, <1>2 DEF SequenceGap, PreviousMismatch
<1> QED
  BY <1>1, <1>2, <1>3, <1>4, <1>5, <1>6 DEF ChainFollows, altered

\* Of such a chain verify is right.
LEMMA FollowsIsRight ==
  ASSUME NEW rows, NEW events, ChainFollows(rows, events)
  PROVE  /\ Valid(rows) => Subsequence(EventsOf(rows), events)
         /\ EventsOf(rows) = events => Valid(rows)
<1>1. /\ IsSequence(rows) /\ DOMAIN rows = 1..Len(rows) /\ Len(rows) \in Nat
      /\ DOMAIN events = 1..Len(events) /\ Len(events) \in Nat
  BY SequenceOf DEF ChainFollows
<1>2. DOMAIN EventsOf(rows) = 1..Len(rows) /\ \A i \in 1..Len(rows) : EventsOf(rows)[i] = rows[i].event
  BY <1>1 DEF EventsOf
<1>3. ASSUME Valid(rows) PROVE Subsequence(EventsOf(rows), events)
  <2>1. \A i \in 1..Len(rows) : Hashed(rows[i]) = rows[i].event
    <3>1. \A i \in 1..Len(rows) : ~BadRow(rows, i)
      BY <1>1, <1>3, ValidRows
    <3>2. \A i \in 1..Len(rows) :
            rows[i].event_hash = Hash(rows[i].event, rows[i].sequence, rows[i].previous_hash)
      BY <3>1 DEF BadRow, HashMismatch
    <3>3. \A e, n, h : Hash(e, n, h).event = e
      BY DEF Hash
    <3> QED
      BY <3>2, <3>3 DEF Hashed
  <2>2. ASSUME NEW j \in 1..Len(rows)
        PROVE  \E l \in 1..Len(events) :
                 /\ events[l] = rows[j].event
                 /\ \A i \in 1..(j - 1) : \E k \in 1..(l - 1) : events[k] = rows[i].event
    <3>1. PICK l \in 1..Len(events) : OfEvents(rows, events, j, l)
      BY DEF ChainFollows
    <3>2. \A i \in 1..(j - 1) : i \in 1..Len(rows)
      BY <1>1
    <3> QED
      BY <2>1, <3>1, <3>2 DEF OfEvents
  <2>3. \A j \in 1..Len(rows) : \A i \in 1..(j - 1) : i \in 1..Len(rows)
    BY <1>1
  <2> DEFINE s == EventsOf(rows)
  <2>4. DOMAIN s = 1..Len(rows) /\ \A i \in 1..Len(rows) : s[i] = rows[i].event
    BY <1>2
  <2> HIDE DEF s
  <2>5. ASSUME NEW j \in 1..Len(rows)
        PROVE  \E l \in DOMAIN events :
                 /\ events[l] = s[j]
                 /\ \A i \in 1..(j - 1) : \E k \in 1..(l - 1) : events[k] = s[i]
    <3>1. PICK l \in 1..Len(events) :
            /\ events[l] = rows[j].event
            /\ \A i \in 1..(j - 1) : \E k \in 1..(l - 1) : events[k] = rows[i].event
      BY <2>2
    <3>2. events[l] = s[j] /\ l \in DOMAIN events
      BY <1>1, <2>4, <3>1
    <3>3. \A i \in 1..(j - 1) : \E k \in 1..(l - 1) : events[k] = s[i]
      BY <2>3, <2>4, <3>1
    <3> QED
      BY <3>2, <3>3
  <2>6. Subsequence(s, events)
    BY <2>4, <2>5 DEF Subsequence
  <2> QED
    BY <2>6 DEF s
<1>4. ASSUME EventsOf(rows) = events PROVE Valid(rows)
  <2>1. 1..Len(rows) = 1..Len(events)
    BY <1>1, <1>2, <1>4
  <2>2. Len(rows) = Len(events)
    <3> DEFINE n == Len(rows)
               m == Len(events)
    <3>1. n \in Nat /\ m \in Nat /\ 1..n = 1..m
      BY <1>1, <2>1
    <3> HIDE DEF n, m
    <3>2. n = m
      BY <3>1
    <3> QED
      BY <3>2 DEF n, m
  <2>3. \A i \in DOMAIN rows : events[i] = rows[i].event
    BY <1>1, <1>2, <1>4
  <2>4. \A i \in DOMAIN rows : ~BadRow(rows, i)
    BY <2>2, <2>3 DEF ChainFollows, BadRow, HashMismatch
  <2> QED
    BY <1>1, <2>4, ValidRows
<1> QED
  BY <1>3, <1>4

-----------------------------------------------------------------------------
(* The invariant. *)

Has(what, n) == InEvidence(what, n, Len(recorded))

\* Nothing is recorded before the connection.
Started ==
  /\ main = "start" => recorded = <<>> /\ cpc = "idle" /\ spc = "idle"
  /\ main \in {"serving", "waiting"} => recorded # <<>>
  /\ cpc # "idle" => recorded # <<>>

ClientHolds == cpc \in {"request", "enforce", "forward"}
ServerHolds == spc \in {"record", "write"}

InFlight == working \cup Range(toServer)

WasRead(line) == line.n \in DOMAIN lines /\ lines[line.n] = line

Answering(a) == a.type = "answer" => a.n \in DOMAIN lines /\ lines[a.n].id = a.id /\ a.id \in Ids

\* A number stands for one line, wherever the line is.
Numbered ==
  /\ \A k \in DOMAIN lines : lines[k].n = k
  /\ ClientHolds => WasRead(cur)
  /\ cpc \in {"request", "enforce"} => cur.kind = "call"
  /\ \A line \in InFlight : WasRead(line)
  /\ \A line \in working : line.id \in Ids
  /\ ServerHolds => scur \in Answers \cup Requests /\ Answering(scur)
  /\ \A a \in Range(fromServer) \cup told : Answering(a)

\* What is in evidence of a call, by where it is.
Recorded ==
  /\ \A what \in Steps \ {"connect"}, n \in 0..MaxLines : Has(what, n) => n \in DOMAIN lines
  /\ cpc = "request" => \A what \in Steps \ {"connect"} : ~Has(what, cur.n)
  /\ cpc = "enforce" =>
       /\ Has("request", cur.n)
       /\ \A what \in {"permitted", "blocked", "observed"} : ~Has(what, cur.n)
  /\ cpc = "forward" /\ cur.kind = "call" => Has("permitted", cur.n)
  /\ \A line \in InFlight : line.kind = "call" => Has("permitted", line.n)
  /\ \A id \in Ids : pending[id] # 0 =>
       /\ pending[id] \in DOMAIN lines /\ lines[pending[id]].id = id
       /\ Has("permitted", pending[id]) /\ ~Has("observed", pending[id])

\* A call whose id is its own, and which the server's thread can still record.
Single(n) == lines[n].kind = "call" /\ ~IdIsReused(n)
Owed(n) == Single(n) /\ lines[n].id \in Ids => pending[lines[n].id] = n \/ Has("observed", n)

Observable ==
  /\ spc \notin {"done", "dead"} =>
       /\ cpc = "forward" => Owed(cur.n)
       /\ \A line \in InFlight : Owed(line.n)
       /\ \A a \in Range(fromServer) : a.type = "answer" => Owed(a.n)
       /\ spc = "record" /\ scur.type = "answer" => Owed(scur.n)
  /\ spc = "write" /\ scur.type = "answer" /\ Single(scur.n) => Has("observed", scur.n)
  /\ AnswersAreObserved

MInv ==
  /\ TypeOK /\ Started /\ Numbered /\ Recorded /\ Observable
  /\ EvidenceInOrder /\ ChainFollows(chain, recorded)

LEMMA InitInv == Init => MInv
<1> SUFFICES ASSUME Init PROVE MInv
  OBVIOUS
<1> USE McpAssumption DEF Init
<1>1. TypeOK
  BY DEF TypeOK
<1>2. Range(toServer) = {} /\ Range(fromServer) = {} /\ DOMAIN lines = {}
  BY DEF Range
<1>3. ~\E what, n : Has(what, n)
  BY DEF Has, InEvidence
<1>4. Started /\ Numbered /\ Recorded
  BY <1>2, <1>3 DEF Started, Numbered, Recorded, InFlight, ClientHolds, ServerHolds
<1>5. Observable
  BY <1>2 DEF Observable, InFlight, AnswersAreObserved
<1>6. EvidenceInOrder
  BY DEF EvidenceInOrder
<1> QED
  BY <1>1, <1>4, <1>5, <1>6, ChainStarts DEF MInv

-----------------------------------------------------------------------------
(* Sequences that are queues, and the evidence that grows. *)

LEMMA PutInQueue ==
  ASSUME NEW S, NEW q \in Seq(S), NEW e \in S
  PROVE  Range(Append(q, e)) = Range(q) \cup {e}
<1> DEFINE p == Append(q, e)
<1>1. /\ Len(q) \in Nat /\ DOMAIN q = 1..Len(q) /\ DOMAIN p = 1..(Len(q) + 1)
      /\ p[Len(q) + 1] = e /\ \A i \in 1..Len(q) : p[i] = q[i]
  BY AppendProperties, LenProperties
<1> HIDE DEF p
<1> QED
  BY <1>1 DEF Range, p

\* A pipe takes a line while it is not full.
LEMMA PutInPipe ==
  ASSUME NEW S, NEW q \in Seq(S), NEW e \in S, Len(q) < PipeSize
  PROVE  /\ Append(q, e) \in Seq(S) /\ Len(Append(q, e)) <= PipeSize
         /\ Range(Append(q, e)) = Range(q) \cup {e}
<1> DEFINE p == Append(q, e)
           n == Len(q)
<1>1. p \in Seq(S) /\ Len(p) = n + 1 /\ n \in Nat /\ PipeSize \in Nat /\ n < PipeSize
  BY AppendProperties, LenProperties, McpAssumption
<1> HIDE DEF p, n
<1>2. Len(p) <= PipeSize
  BY <1>1
<1> QED
  BY <1>1, <1>2, PutInQueue DEF p

LEMMA ReadIsLine ==
  ASSUME TypeOK, NEW line, WasRead(line)
  PROVE  /\ line \in Lines /\ line.n \in 1..MaxLines /\ line.kind \in Kinds
         /\ line.id \in Ids \cup {NoId}
<1>1. lines \in Seq(Lines) /\ line.n \in 1..Len(lines) /\ lines[line.n] = line
  BY LenProperties DEF TypeOK, WasRead
<1>2. line \in Lines
  BY <1>1, ElementOfSeq
<1> QED
  BY <1>2 DEF Lines

LEMMA TakenFromQueue ==
  ASSUME NEW S, NEW q \in Seq(S), q # <<>>
  PROVE  /\ Head(q) \in Range(q) /\ Range(Tail(q)) \subseteq Range(q) /\ Range(q) \subseteq S
         /\ Tail(q) \in Seq(S) /\ Len(Tail(q)) <= Len(q)
<1> DEFINE t == Tail(q)
<1>1. /\ Len(q) \in Nat \ {0} /\ DOMAIN q = 1..Len(q) /\ q[1] = Head(q)
      /\ t \in Seq(S) /\ DOMAIN t = 1..(Len(q) - 1) /\ Len(t) = Len(q) - 1
      /\ \A i \in 1..(Len(q) - 1) : t[i] = q[i + 1]
      /\ \A i \in 1..Len(q) : q[i] \in S
  BY HeadTailProperties, LenProperties, EmptySeq
<1> HIDE DEF t
<1>2. /\ 1 \in DOMAIN q
      /\ \A i \in DOMAIN t : i + 1 \in DOMAIN q /\ t[i] = q[i + 1]
  BY <1>1
<1>3. Head(q) \in Range(q) /\ Range(q) \subseteq S
  BY <1>1, <1>2 DEF Range
<1>4. Range(t) \subseteq Range(q)
  BY <1>2 DEF Range
<1> QED
  BY <1>1, <1>3, <1>4 DEF t

LEMMA RecordGrows ==
  ASSUME TypeOK, ChainFollows(chain, recorded), NEW what \in Steps, NEW n \in 0..MaxLines,
         NEW who \in Agents, RecordEvent(what, n, who)
  PROVE  /\ recorded' \in Seq(ChainEvents) /\ Len(recorded') = Len(recorded) + 1
         /\ recorded' # <<>>
         /\ recorded'[Len(recorded) + 1] = [what |-> what, n |-> n, agent |-> who]
         /\ \A i \in 1..Len(recorded) : recorded'[i] = recorded[i]
         /\ \A i \in DOMAIN chain' : chain'[i].event \in ChainEvents
         /\ ChainFollows(chain, recorded)'
<1> DEFINE e == [what |-> what, n |-> n, agent |-> who]
<1>1. /\ recorded \in Seq(ChainEvents) /\ e \in ChainEvents
      /\ chain' = Appended(chain, e) /\ recorded' = Append(recorded, e)
  BY DEF TypeOK, ChainEvents, RecordEvent
<1>2. ChainFollows(chain', recorded')
  BY <1>1, AppendFollows
<1>3. ASSUME NEW i \in DOMAIN chain' PROVE chain'[i].event \in ChainEvents
  <2>1. /\ IsSequence(chain) /\ IsSequence(chain') /\ Len(chain') = Len(chain) + 1
        /\ chain'[Len(chain) + 1].event = e
        /\ \A j \in 1..Len(chain) : chain'[j] = chain[j]
    BY <1>1, AppendToSequence DEF Appended, NextRow, ChainFollows
  <2>2. /\ DOMAIN chain = 1..Len(chain) /\ DOMAIN chain' = 1..(Len(chain) + 1)
        /\ Len(chain) \in Nat
    BY <2>1, SequenceOf
  <2>3. i \in 1..Len(chain) \/ i = Len(chain) + 1
    BY <2>2
  <2> QED
    BY <1>1, <2>1, <2>2, <2>3 DEF TypeOK
<1> HIDE DEF e
<1>4. /\ recorded' \in Seq(ChainEvents) /\ Len(recorded') = Len(recorded) + 1
      /\ recorded' # <<>> /\ recorded'[Len(recorded) + 1] = e
      /\ \A i \in 1..Len(recorded) : recorded'[i] = recorded[i]
  BY <1>1, AppendProperties
<1> QED
  BY <1>2, <1>3, <1>4 DEF e

LEMMA RecordInOrder ==
  ASSUME TypeOK, ChainFollows(chain, recorded), EvidenceInOrder,
         NEW what \in Steps, NEW n \in 0..MaxLines, NEW who \in Agents,
         RecordEvent(what, n, who),
         what = "connect" <=> recorded = <<>>,
         what \in {"permitted", "blocked"} => Has("request", n),
         what = "observed" => Has("permitted", n),
         ~Has(what, n)
  PROVE  /\ EvidenceInOrder'
         /\ \A w, m : Has(w, m)' <=> Has(w, m) \/ (w = what /\ m = n)
<1> DEFINE l == Len(recorded)
<1>1. /\ l \in Nat /\ DOMAIN recorded = 1..l /\ DOMAIN recorded' = 1..(l + 1)
      /\ Len(recorded') = l + 1 /\ (recorded = <<>> <=> l = 0)
      /\ recorded'[l + 1] = [what |-> what, n |-> n, agent |-> who]
      /\ \A i \in 1..l : recorded'[i] = recorded[i]
  BY RecordGrows, LenProperties, EmptySeq DEF TypeOK
<1> HIDE DEF l
<1>2. \A w, m : \A k \in 0..l : InEvidence(w, m, k)' <=> InEvidence(w, m, k)
  <2> SUFFICES ASSUME NEW w, NEW m, NEW k \in 0..l
               PROVE  InEvidence(w, m, k)' <=> InEvidence(w, m, k)
    OBVIOUS
  <2>1. \A i \in 1..k : recorded'[i] = recorded[i]
    BY <1>1
  <2> QED
    BY <2>1 DEF InEvidence
<1>3. \A w, m : Has(w, m) <=> InEvidence(w, m, l)
  BY DEF Has, l
<1>4. ASSUME NEW i \in 1..(l + 1) PROVE InTurn(i)'
  <2>1. CASE i \in 1..l
    <3>1. i - 1 \in 0..l /\ recorded'[i] = recorded[i] /\ i \in DOMAIN recorded
      BY <1>1, <2>1
    <3> QED
      BY <1>2, <3>1 DEF EvidenceInOrder, InTurn
  <2>2. CASE i = l + 1
    <3>1. i - 1 = l /\ l \in 0..l /\ recorded'[i].what = what /\ recorded'[i].n = n
          /\ (recorded = <<>> <=> i = 1)
      BY <1>1, <2>2
    <3> QED
      BY <1>2, <1>3, <3>1 DEF InTurn
  <2> QED
    BY <1>1, <2>1, <2>2
<1>5. EvidenceInOrder'
  BY <1>1, <1>4 DEF EvidenceInOrder
<1>6. ASSUME NEW w, NEW m PROVE Has(w, m)' <=> Has(w, m) \/ (w = what /\ m = n)
  <2>1. Has(w, m)' <=> \E i \in 1..(l + 1) : recorded'[i].what = w /\ recorded'[i].n = m
    BY <1>1 DEF Has, InEvidence
  <2>2. (\E i \in 1..(l + 1) : recorded'[i].what = w /\ recorded'[i].n = m)
          <=> (\E i \in 1..l : recorded[i].what = w /\ recorded[i].n = m) \/ (w = what /\ m = n)
    BY <1>1
  <2> QED
    BY <1>3, <2>1, <2>2 DEF InEvidence
<1> QED
  BY <1>5, <1>6

-----------------------------------------------------------------------------
(* What a step leaves. *)

LEMMA SameEvidence ==
  ASSUME UNCHANGED recorded
  PROVE  /\ \A w, n : Has(w, n)' <=> Has(w, n)
         /\ EvidenceInOrder' <=> EvidenceInOrder
  BY DEF Has, InEvidence, EvidenceInOrder, InTurn

\* What was owed is owed, or has been recorded.
LEMMA StillOwed ==
  ASSUME UNCHANGED <<lines, pending>>, \A w, n : Has(w, n) => Has(w, n)'
  PROVE  /\ \A n : Owed(n) => Owed(n)'
         /\ \A n : Single(n)' <=> Single(n)
         /\ told' = told /\ AnswersAreObserved => AnswersAreObserved'
<1>1. \A n : IdIsReused(n)' <=> IdIsReused(n)
  BY DEF IdIsReused
<1>2. \A n : Has("observed", n) => Has("observed", n)'
  OBVIOUS
<1> QED
  BY <1>1, <1>2 DEF Owed, Single, AnswersAreObserved, Has

LEMMA FaultType ==
  ASSUME TypeOK, Fault
  PROVE  faults' \in 0..MaxFaults
  BY McpAssumption DEF TypeOK, Fault

\* A step of the main thread, or of the client: nothing is read, sent or told.
LEMMA MainInv ==
  ASSUME MInv, RunProxy \/ ClientCloses
  PROVE  MInv'
<1> USE DEF MInv
<1>1. CASE AuthorizeStart
  <2>1. /\ main = "start" /\ recorded = <<>> /\ cpc = "idle" /\ spc = "idle"
        /\ \/ main' = "serving" /\ cpc' = "read" /\ spc' = "read" /\ server' = "up"
              /\ RecordEvent("connect", 0, "mcp_client") /\ faults' = faults
           \/ main' = "refused" /\ UNCHANGED <<cpc, spc, server, faults>>
              /\ RecordEvent("connect", 0, "mcp_client")
           \/ main' = "raised" /\ Fault /\ UNCHANGED <<cpc, spc, server, evidence>>
        /\ UNCHANGED <<cur, scur, pending, agent, lines, open, toServer, working, fromServer,
                       told, requests>>
    BY <1>1 DEF AuthorizeStart, Started, client
  <2>2. /\ recorded' \in Seq(ChainEvents) /\ ChainFollows(chain, recorded)'
        /\ \A i \in DOMAIN chain' : chain'[i].event \in ChainEvents
        /\ EvidenceInOrder'
        /\ \A w, n : Has(w, n)' <=> Has(w, n) \/ (recorded' # <<>> /\ w = "connect" /\ n = 0)
        /\ recorded' = <<>> => main' = "raised"
    <3>1. ~Has("connect", 0)
      BY <2>1 DEF Has, InEvidence
    <3>2. CASE RecordEvent("connect", 0, "mcp_client")
      <4>1. 0 \in 0..MaxLines /\ "connect" \in Steps /\ "mcp_client" \in Agents
        BY McpAssumption DEF Steps, Agents
      <4>2. /\ recorded' \in Seq(ChainEvents) /\ ChainFollows(chain, recorded)'
            /\ \A i \in DOMAIN chain' : chain'[i].event \in ChainEvents
            /\ recorded' # <<>>
        BY <3>2, <4>1, RecordGrows
      <4>3. EvidenceInOrder' /\ \A w, n : Has(w, n)' <=> Has(w, n) \/ (w = "connect" /\ n = 0)
        BY <2>1, <3>1, <3>2, <4>1, RecordInOrder
      <4> QED
        BY <4>2, <4>3
    <3>3. CASE main' = "raised" /\ UNCHANGED evidence
      BY <2>1, <3>3, SameEvidence DEF evidence, TypeOK
    <3> QED
      BY <2>1, <3>2, <3>3
  <2>3. TypeOK'
    <3>1. faults' \in 0..MaxFaults
      BY <2>1, FaultType DEF TypeOK
    <3>2. /\ main' \in {"start", "serving", "waiting"} \cup Ended /\ cpc' \in {"idle", "read"}
          /\ spc' \in {"idle", "read"} /\ server' \in {"none", "up", "exited"}
      BY <2>1 DEF TypeOK, Ended
    <3> QED
      BY <2>1, <2>2, <3>1, <3>2 DEF TypeOK
  <2>4. Started'
    BY <2>1, <2>2 DEF Started
  <2>5. Numbered'
    BY <2>1 DEF Numbered, ClientHolds, ServerHolds, InFlight, WasRead, Answering
  <2>6. Recorded'
    BY <2>1, <2>2 DEF Recorded, InFlight
  <2>7. Observable'
    BY <2>1, <2>2, StillOwed DEF Observable, InFlight
  <2> QED
    BY <2>2, <2>3, <2>4, <2>5, <2>6, <2>7
<1>2. CASE CloseServerInput \/ ClientCloses
  <2>1. /\ main' \in {main, "waiting"} /\ main = "serving"
        /\ UNCHANGED <<cpc, cur, spc, scur, pending, agent, chain, recorded, lines, server,
                       toServer, working, fromServer, requests, told, faults>>
        /\ open' \in BOOLEAN
    BY <1>2 DEF CloseServerInput, ClientCloses, TypeOK, pump, relay, evidence, client, backend
  <2>2. TypeOK' /\ Started' /\ Numbered'
    BY <2>1 DEF TypeOK, Started, Numbered, ClientHolds, ServerHolds, InFlight, WasRead, Answering
  <2>3. Recorded' /\ Observable' /\ EvidenceInOrder' /\ ChainFollows(chain, recorded)'
    BY <2>1, SameEvidence, StillOwed DEF Recorded, Observable, InFlight
  <2> QED
    BY <2>2, <2>3
<1>3. CASE WaitServer
  <2>1. /\ main = "waiting" /\ main' \in Ended /\ main' \notin {"start", "serving", "waiting"}
        /\ cpc' = "done" /\ spc' = "done" /\ scur' = NoLine
        /\ UNCHANGED <<cur, pending, agent, chain, recorded, lines, open, server, toServer,
                       working, fromServer, requests, told, faults>>
    BY <1>3 DEF WaitServer, Ended, evidence, client, backend
  <2>2. TypeOK' /\ Started'
    BY <2>1 DEF TypeOK, Started
  <2>3. Numbered'
    BY <2>1 DEF Numbered, ClientHolds, ServerHolds, InFlight, WasRead, Answering
  <2>4. Recorded' /\ Observable' /\ EvidenceInOrder' /\ ChainFollows(chain, recorded)'
    BY <2>1, SameEvidence, StillOwed DEF Recorded, Observable, InFlight
  <2> QED
    BY <2>2, <2>3, <2>4
<1> QED
  BY <1>1, <1>2, <1>3 DEF RunProxy

-----------------------------------------------------------------------------
(* The client's thread. *)

\* A line that is read has a number that nothing bears yet.
LEMMA ReadClientInv ==
  ASSUME MInv, NEW kind \in Kinds, NEW id \in Ids \cup {NoId},
         kind \in {"initialize", "badCall"} => id # NoId,
         ReadClient(kind, id)
  PROVE  MInv'
<1> USE DEF MInv
<1> DEFINE n    == Len(lines)
           line == [n |-> n + 1, kind |-> kind, id |-> id]
<1>1. /\ cpc = "read" /\ n < MaxLines /\ cur' = line /\ lines' = Append(lines, line)
      /\ cpc' \in {"read", "done", "request", "forward"}
      /\ cpc' = "request" => kind = "call"
      /\ cpc' = "forward" => kind \in {"initialize", "other"}
      /\ agent' \in {"unknown", "named"}
      /\ \A a \in told' : a \in told \/ a = [type |-> "error", n |-> n + 1, id |-> id]
      /\ UNCHANGED <<main, spc, scur, pending, chain, recorded, open, server, toServer,
                     working, fromServer, requests, faults>>
  BY DEF ReadClient, TypeOK, relay, evidence, backend, Kinds
<1>2. line \in Lines /\ n \in Nat /\ n + 1 \in 1..MaxLines /\ MaxLines \in Nat
  BY <1>1, McpAssumption DEF Lines, TypeOK
<1>3. /\ lines' \in Seq(Lines) /\ Len(lines') = n + 1
      /\ DOMAIN lines = 1..n /\ DOMAIN lines' = 1..(n + 1)
      /\ lines'[n + 1] = line /\ \A k \in 1..n : lines'[k] = lines[k]
  BY <1>1, <1>2, AppendProperties, LenProperties DEF TypeOK
<1>4. TypeOK'
  <2>1. told' \subseteq Answers \cup Requests
    BY <1>1, <1>2 DEF TypeOK, Answers
  <2>2. Len(lines') <= MaxLines
    BY <1>2, <1>3
  <2> HIDE DEF line
  <2> QED
    BY <1>1, <1>2, <1>3, <2>1, <2>2 DEF TypeOK
<1>5. Started'
  BY <1>1 DEF Started
<1>6. \A k \in DOMAIN lines : k \in DOMAIN lines' /\ lines'[k] = lines[k]
  BY <1>2, <1>3
<1>7. line.n = n + 1 /\ line.kind = kind /\ n + 1 \notin DOMAIN lines /\ n + 1 \in DOMAIN lines'
  BY <1>2, <1>3
<1> HIDE DEF n, line
<1>8. Numbered'
  <2>1. \A k \in DOMAIN lines' : k \in DOMAIN lines \/ k = n + 1
    BY <1>2, <1>3
  <2>2. WasRead(cur)'
    BY <1>1, <1>3, <1>7 DEF WasRead
  <2>3. \A k \in DOMAIN lines' : lines'[k].n = k
    BY <1>3, <1>6, <1>7, <2>1 DEF Numbered
  <2>4. \A l \in InFlight' : WasRead(l)'
    BY <1>1, <1>6 DEF Numbered, InFlight, WasRead
  <2>5. \A a : Answering(a) => Answering(a)'
    BY <1>6 DEF Answering
  <2>6. \A a \in told' : a \in told \/ a.type = "error"
    BY <1>1
  <2>7. \A a \in Range(fromServer)' \cup told' : Answering(a)'
    BY <1>1, <2>5, <2>6 DEF Numbered, Answering
  <2>8. (ServerHolds => scur \in Answers \cup Requests /\ Answering(scur))'
    BY <1>1, <2>5 DEF Numbered, ServerHolds
  <2> QED
    BY <1>1, <1>7, <2>2, <2>3, <2>4, <2>7, <2>8 DEF Numbered, InFlight, ClientHolds
<1>9. Recorded'
  <2>1. \A w, m : Has(w, m)' <=> Has(w, m)
    BY <1>1, SameEvidence
  <2>2. \A what \in Steps \ {"connect"} : ~Has(what, n + 1)
    BY <1>2, <1>7 DEF Recorded
  <2>3. \A i \in Ids : pending[i] # 0 => lines'[pending[i]] = lines[pending[i]]
    BY <1>6 DEF Recorded
  <2> QED
    BY <1>1, <1>6, <1>7, <2>1, <2>2, <2>3 DEF Recorded, InFlight
<1>10. Observable'
  <2>1. \A w, m : Has(w, m)' <=> Has(w, m)
    BY <1>1, SameEvidence
  <2>2. \A m \in DOMAIN lines : Single(m)' => Single(m)
    BY <1>6 DEF Single, IdIsReused
  <2>3. \A m \in DOMAIN lines : Owed(m) => Owed(m)'
    BY <1>1, <1>6, <2>1, <2>2 DEF Owed
  <2>4. cpc' = "forward" => Owed(cur.n)'
    BY <1>1, <1>3, <1>7 DEF Owed, Single
  <2>5. \A l \in InFlight : l.n \in DOMAIN lines
    BY DEF Numbered, WasRead
  <2>6. \A a \in Range(fromServer) \cup told : a.type = "answer" => a.n \in DOMAIN lines
    BY DEF Numbered, Answering
  <2>7. ServerHolds /\ scur.type = "answer" => scur.n \in DOMAIN lines
    BY DEF Numbered, Answering
  <2>8. AnswersAreObserved'
    <3> SUFFICES ASSUME NEW a \in told', a.type = "answer", lines'[a.n].kind = "call",
                        ~IdIsReused(a.n)'
                 PROVE  Has("observed", a.n)'
      BY DEF AnswersAreObserved, Has
    <3>1. a \in told
      BY <1>1
    <3>2. Single(a.n)' /\ a.n \in DOMAIN lines
      BY <2>6, <3>1 DEF Single
    <3> QED
      BY <2>1, <2>2, <3>1, <3>2 DEF Observable, AnswersAreObserved, Single, Has
  <2>9. (spc = "write" /\ scur.type = "answer" /\ Single(scur.n) => Has("observed", scur.n))'
    BY <1>1, <2>1, <2>2, <2>7 DEF Observable, ServerHolds
  <2> QED
    BY <1>1, <2>3, <2>4, <2>5, <2>6, <2>7, <2>8, <2>9 DEF Observable, InFlight, ServerHolds
<1>11. EvidenceInOrder' /\ ChainFollows(chain, recorded)'
  BY <1>1, SameEvidence
<1> QED
  BY <1>4, <1>5, <1>8, <1>9, <1>10, <1>11

LEMMA ClientEndsInv ==
  ASSUME MInv, ClientEnds
  PROVE  MInv'
<1> USE DEF MInv
<1>1. /\ cpc = "read" /\ cpc' = "done" /\ cur' = NoLine
      /\ UNCHANGED <<main, spc, scur, pending, agent, chain, recorded, lines, open, server,
                     toServer, working, fromServer, requests, told, faults>>
  BY DEF ClientEnds, relay, evidence, client, backend
<1>2. TypeOK' /\ Started'
  BY <1>1 DEF TypeOK, Started
<1>3. Numbered'
  BY <1>1 DEF Numbered, ClientHolds, ServerHolds, InFlight, WasRead, Answering
<1>4. Recorded' /\ Observable' /\ EvidenceInOrder' /\ ChainFollows(chain, recorded)'
  BY <1>1, SameEvidence, StillOwed DEF Recorded, Observable, InFlight
<1> QED
  BY <1>2, <1>3, <1>4

\* The call that goes to the server is permitted, and pending.
LEMMA ForwardInv ==
  ASSUME MInv, Forward
  PROVE  MInv'
<1> USE DEF MInv
<1>1. /\ cpc = "forward" /\ cpc' \in {"read", "done"}
      /\ \/ Len(toServer) < PipeSize /\ toServer' = Append(toServer, cur)
         \/ toServer' = toServer
      /\ UNCHANGED <<main, cur, spc, scur, pending, agent, chain, recorded, lines, open,
                     server, working, fromServer, requests, told, faults>>
  BY DEF Forward, relay, evidence, client
<1>2. WasRead(cur) /\ cur \in Lines
  BY <1>1, ReadIsLine DEF Numbered, ClientHolds
<1>3. /\ toServer' \in Seq(Lines) /\ Len(toServer') <= PipeSize
      /\ Range(toServer') \subseteq Range(toServer) \cup {cur}
  <2>1. toServer \in Seq(Lines) /\ Len(toServer) <= PipeSize
    BY DEF TypeOK
  <2>2. CASE Len(toServer) < PipeSize /\ toServer' = Append(toServer, cur)
    BY <1>2, <2>1, <2>2, PutInPipe
  <2> QED
    BY <1>1, <2>1, <2>2
<1>4. \A line \in InFlight' : line \in InFlight \/ line = cur
  BY <1>1, <1>3 DEF InFlight
<1>5. TypeOK' /\ Started'
  BY <1>1, <1>3 DEF TypeOK, Started
<1>6. Numbered'
  BY <1>1, <1>2, <1>4 DEF Numbered, ClientHolds, ServerHolds, WasRead, Answering
<1>7. Recorded' /\ Observable' /\ EvidenceInOrder' /\ ChainFollows(chain, recorded)'
  BY <1>1, <1>4, SameEvidence, StillOwed DEF Recorded, Observable
<1> QED
  BY <1>5, <1>6, <1>7

\* Where the client's thread handles a call, what it may record of it.
LEMMA AtCall ==
  ASSUME MInv, cpc \in {"request", "enforce"}
  PROVE  /\ WasRead(cur) /\ cur.kind = "call" /\ cur \in Lines /\ cur.n \in 1..MaxLines
         /\ agent \in Agents /\ recorded # <<>>
         /\ \A what \in {"permitted", "blocked", "observed"} : ~Has(what, cur.n)
         /\ IF cpc = "request" THEN ~Has("request", cur.n) ELSE Has("request", cur.n)
<1>1. WasRead(cur) /\ cur.kind = "call" /\ agent \in Agents /\ recorded # <<>>
  BY DEF MInv, Numbered, ClientHolds, TypeOK, Agents, Started
<1>2. cur \in Lines /\ cur.n \in 1..MaxLines
  BY <1>1, ReadIsLine DEF MInv
<1>3. /\ \A what \in {"permitted", "blocked", "observed"} : ~Has(what, cur.n)
      /\ IF cpc = "request" THEN ~Has("request", cur.n) ELSE Has("request", cur.n)
  BY DEF MInv, Recorded, Steps
<1> QED
  BY <1>1, <1>2, <1>3

\* A call that is recorded as far as a request or a refusal is not pending yet.
LEMMA RecordsOfCall ==
  ASSUME MInv, cpc \in {"request", "enforce"},
         NEW what \in {"request", "permitted", "blocked"},
         cpc = "request" <=> what = "request",
         RecordEvent(what, cur.n, agent)
  PROVE  /\ recorded' \in Seq(ChainEvents) /\ recorded' # <<>>
         /\ \A i \in DOMAIN chain' : chain'[i].event \in ChainEvents
         /\ ChainFollows(chain, recorded)' /\ EvidenceInOrder'
         /\ \A w, n : Has(w, n)' <=> Has(w, n) \/ (w = what /\ n = cur.n)
<1>1. /\ what \in Steps /\ cur.n \in 0..MaxLines /\ what \notin {"connect", "observed"}
      /\ TypeOK /\ ChainFollows(chain, recorded) /\ EvidenceInOrder
  BY AtCall, McpAssumption DEF Steps, MInv
<1>2. /\ recorded # <<>> /\ agent \in Agents /\ ~Has(what, cur.n)
      /\ what \in {"permitted", "blocked"} => Has("request", cur.n)
  BY AtCall
<1>3. /\ recorded' \in Seq(ChainEvents) /\ recorded' # <<>>
      /\ \A i \in DOMAIN chain' : chain'[i].event \in ChainEvents
      /\ ChainFollows(chain, recorded)'
  BY <1>1, <1>2, RecordGrows
<1>4. EvidenceInOrder' /\ \A w, n : Has(w, n)' <=> Has(w, n) \/ (w = what /\ n = cur.n)
  BY <1>1, <1>2, RecordInOrder
<1> QED
  BY <1>3, <1>4

LEMMA RequestCallInv ==
  ASSUME MInv, RequestCall
  PROVE  MInv'
<1> USE DEF MInv
<1>1. /\ cpc = "request" /\ cpc' = "enforce" /\ RecordEvent("request", cur.n, agent)
      /\ UNCHANGED <<main, cur, spc, scur, pending, agent, lines, open, server, toServer,
                     working, fromServer, requests, told, faults>>
  BY DEF RequestCall, relay, client, backend
<1>2. /\ recorded' \in Seq(ChainEvents) /\ recorded' # <<>>
      /\ \A i \in DOMAIN chain' : chain'[i].event \in ChainEvents
      /\ ChainFollows(chain, recorded)' /\ EvidenceInOrder'
      /\ \A w, n : Has(w, n)' <=> Has(w, n) \/ (w = "request" /\ n = cur.n)
  BY <1>1, RecordsOfCall
<1>3. TypeOK' /\ Started'
  BY <1>1, <1>2 DEF TypeOK, Started
<1>4. Numbered'
  BY <1>1 DEF Numbered, ClientHolds, ServerHolds, InFlight, WasRead, Answering
<1>5. Recorded'
  BY <1>1, <1>2, AtCall DEF Recorded, InFlight, WasRead
<1>6. Observable'
  BY <1>1, <1>2, StillOwed DEF Observable, InFlight
<1> QED
  BY <1>2, <1>3, <1>4, <1>5, <1>6

\* A call that is not released: its error answers nothing of the server's.
LEMMA RefusedInv ==
  ASSUME MInv, cpc \in {"request", "enforce"}, cpc' \in {"read", "done"},
         NEW id \in Ids \cup {NoId},
         told' = told \cup {[type |-> "error", n |-> cur.n, id |-> id]},
         faults' \in 0..MaxFaults,
         \/ UNCHANGED evidence
         \/ \E what \in {"request", "permitted", "blocked"} :
              RecordEvent(what, cur.n, agent) /\ (cpc = "request" <=> what = "request"),
         UNCHANGED <<main, cur, spc, scur, pending, agent, lines, open, server, toServer,
                     working, fromServer, requests>>
  PROVE  MInv'
<1> USE DEF MInv
<1>1. /\ recorded' \in Seq(ChainEvents) /\ recorded' # <<>>
      /\ \A i \in DOMAIN chain' : chain'[i].event \in ChainEvents
      /\ ChainFollows(chain, recorded)' /\ EvidenceInOrder'
      /\ \A w, n : Has(w, n) => Has(w, n)'
      /\ \A w, n : Has(w, n)' => Has(w, n) \/ (w # "observed" /\ w # "connect" /\ n = cur.n)
  <2>1. CASE UNCHANGED evidence
    BY <2>1, SameEvidence, AtCall DEF evidence, TypeOK
  <2>2. CASE \E what \in {"request", "permitted", "blocked"} :
               RecordEvent(what, cur.n, agent) /\ (cpc = "request" <=> what = "request")
    BY <2>2, RecordsOfCall
  <2> QED
    BY <2>1, <2>2
<1>2. TypeOK'
  <2>1. [type |-> "error", n |-> cur.n, id |-> id] \in Answers
    BY AtCall, McpAssumption DEF Answers
  <2> QED
    BY <1>1, <2>1 DEF TypeOK
<1>3. Started'
  BY <1>1 DEF Started
<1>4. Numbered'
  BY DEF Numbered, ClientHolds, ServerHolds, InFlight, WasRead, Answering
<1>5. Recorded'
  BY <1>1, AtCall DEF Recorded, InFlight, WasRead
<1>6. Observable'
  <2>1. \A a \in told' : a.type = "answer" => a \in told
    OBVIOUS
  <2>2. AnswersAreObserved'
    BY <1>1, <2>1 DEF Observable, AnswersAreObserved, IdIsReused, Has
  <2> QED
    BY <1>1, <2>2, StillOwed DEF Observable, InFlight
<1> QED
  BY <1>1, <1>2, <1>3, <1>4, <1>5, <1>6

LEMMA BlockCallInv ==
  ASSUME MInv, BlockCall
  PROVE  MInv'
<1>1. /\ cpc = "enforce" /\ cpc' \in {"read", "done"} /\ RecordEvent("blocked", cur.n, agent)
      /\ told' = told \cup {[type |-> "error", n |-> cur.n, id |-> cur.id]}
      /\ UNCHANGED <<main, cur, spc, scur, pending, agent, lines, open, server, toServer,
                     working, fromServer, requests, faults>>
  BY DEF BlockCall, relay, client, backend
<1>2. cur.id \in Ids \cup {NoId} /\ faults \in 0..MaxFaults
  BY <1>1, AtCall DEF Lines, MInv, TypeOK
<1> QED
  BY <1>1, <1>2, RefusedInv

LEMMA FailCallInv ==
  ASSUME MInv, FailCall
  PROVE  MInv'
<1>1. /\ cpc \in {"request", "enforce"} /\ cpc' \in {"read", "done"} /\ Fault
      /\ \/ UNCHANGED evidence
         \/ RecordEvent(IF cpc = "request" THEN "request" ELSE "permitted", cur.n, agent)
      /\ told' = told \cup {[type |-> "error", n |-> cur.n, id |-> NoId]}
      /\ UNCHANGED <<main, cur, spc, scur, pending, agent, lines, open, server, toServer,
                     working, fromServer, requests>>
  BY DEF FailCall, relay, client, backend
<1>2. \/ UNCHANGED evidence
      \/ \E what \in {"request", "permitted", "blocked"} :
           RecordEvent(what, cur.n, agent) /\ (cpc = "request" <=> what = "request")
  <2>1. CASE cpc = "request"
    BY <1>1, <2>1
  <2>2. CASE cpc = "enforce"
    BY <1>1, <2>2
  <2> QED
    BY <1>1, <2>1, <2>2
<1>3. faults' \in 0..MaxFaults
  BY <1>1, FaultType DEF MInv
<1> QED
  BY <1>1, <1>2, <1>3, RefusedInv

\* The call is pending under its id: a call that was is not the only one of it.
LEMMA PermitCallInv ==
  ASSUME MInv, PermitCall
  PROVE  MInv'
<1> USE DEF MInv
<1>1. /\ cpc = "enforce" /\ cpc' = "forward" /\ RecordEvent("permitted", cur.n, agent)
      /\ pending' = IF cur.id = NoId THEN pending ELSE [pending EXCEPT ![cur.id] = cur.n]
      /\ UNCHANGED <<main, cur, spc, scur, agent, lines, open, server, toServer,
                     working, fromServer, requests, told, faults>>
  BY DEF PermitCall, relay, client, backend
<1>2. /\ recorded' \in Seq(ChainEvents) /\ recorded' # <<>>
      /\ \A i \in DOMAIN chain' : chain'[i].event \in ChainEvents
      /\ ChainFollows(chain, recorded)' /\ EvidenceInOrder'
      /\ \A w, n : Has(w, n)' <=> Has(w, n) \/ (w = "permitted" /\ n = cur.n)
  BY <1>1, RecordsOfCall
<1>3. /\ WasRead(cur) /\ cur.n \in 1..MaxLines /\ cur.id \in Ids \cup {NoId} /\ cur.kind = "call"
      /\ ~Has("observed", cur.n)
  BY <1>1, AtCall DEF Lines
<1>4. /\ pending' \in [Ids -> 0..MaxLines]
      /\ \A id \in Ids : pending'[id] = IF id = cur.id THEN cur.n ELSE pending[id]
  <2>1. pending \in [Ids -> 0..MaxLines] /\ cur.n \in 0..MaxLines
    BY <1>3, McpAssumption DEF TypeOK
  <2> QED
    BY <1>1, <1>3, <2>1, McpAssumption
<1>5. TypeOK' /\ Started'
  BY <1>1, <1>2, <1>4 DEF TypeOK, Started
<1>6. Numbered'
  BY <1>1 DEF Numbered, ClientHolds, ServerHolds, InFlight, WasRead, Answering
<1>7. Recorded'
  BY <1>1, <1>2, <1>3, <1>4 DEF Recorded, InFlight, WasRead
<1>8. ASSUME NEW n \in DOMAIN lines, Owed(n) PROVE Owed(n)'
  <2>1. Single(n)' <=> Single(n)
    BY <1>1 DEF Single, IdIsReused
  <2>2. CASE lines[n].id # cur.id \/ n = cur.n
    BY <1>1, <1>2, <1>3, <1>4, <1>8, <2>1, <2>2 DEF Owed
  <2>3. CASE lines[n].id = cur.id /\ n # cur.n
    <3>1. IdIsReused(n)
      BY <1>3, <2>3 DEF IdIsReused, WasRead
    <3> QED
      BY <2>1, <3>1 DEF Owed, Single
  <2> QED
    BY <2>2, <2>3
<1>9. Owed(cur.n)'
  BY <1>1, <1>3, <1>4 DEF Owed, WasRead
<1>10. Observable'
  <2>1. AnswersAreObserved'
    BY <1>1, <1>2 DEF Observable, AnswersAreObserved, IdIsReused, Has
  <2>2. \A n : Single(n)' <=> Single(n)
    BY <1>1 DEF Single, IdIsReused
  <2>3. /\ \A line \in InFlight : line.n \in DOMAIN lines
        /\ \A a \in Range(fromServer) : a.type = "answer" => a.n \in DOMAIN lines
        /\ spc = "record" /\ scur.type = "answer" => scur.n \in DOMAIN lines
    BY DEF Numbered, WasRead, Answering, ServerHolds
  <2> QED
    BY <1>1, <1>2, <1>8, <1>9, <2>1, <2>2, <2>3 DEF Observable, InFlight
<1> QED
  BY <1>2, <1>5, <1>6, <1>7, <1>10

-----------------------------------------------------------------------------
(* The server's thread. *)

LEMMA ReadServerInv ==
  ASSUME MInv, ReadServer \/ ServerEnds
  PROVE  MInv'
<1> USE DEF MInv
<1>1. CASE ReadServer
  <2>1. /\ spc = "read" /\ spc' = "record" /\ fromServer # <<>>
        /\ scur' = Head(fromServer) /\ fromServer' = Tail(fromServer)
        /\ UNCHANGED <<main, cpc, cur, pending, agent, chain, recorded, lines, open, server,
                       toServer, working, requests, told, faults>>
    BY <1>1 DEF ReadServer, pump, evidence, client
  <2>2. /\ fromServer \in Seq(Answers \cup Requests) /\ Len(fromServer) <= PipeSize
        /\ fromServer' \in Seq(Answers \cup Requests) /\ Len(fromServer') <= Len(fromServer)
        /\ scur' \in Range(fromServer) /\ Range(fromServer') \subseteq Range(fromServer)
        /\ scur' \in Answers \cup Requests
    BY <2>1, TakenFromQueue DEF TypeOK
  <2>3. Len(fromServer') <= PipeSize
    BY <2>2, McpAssumption, LenProperties
  <2>4. TypeOK' /\ Started'
    BY <2>1, <2>2, <2>3 DEF TypeOK, Started
  <2>5. Numbered'
    BY <2>1, <2>2 DEF Numbered, ClientHolds, ServerHolds, InFlight, WasRead, Answering
  <2>6. Recorded' /\ EvidenceInOrder' /\ ChainFollows(chain, recorded)'
    BY <2>1, SameEvidence DEF Recorded, InFlight
  <2>7. Observable'
    BY <2>1, <2>2, SameEvidence, StillOwed DEF Observable, InFlight
  <2> QED
    BY <2>4, <2>5, <2>6, <2>7
<1>2. CASE ServerEnds
  <2>1. /\ spc = "read" /\ spc' = "done"
        /\ UNCHANGED <<main, cpc, cur, scur, pending, agent, chain, recorded, lines, open, server,
                       toServer, working, fromServer, requests, told, faults>>
    BY <1>2 DEF ServerEnds, pump, evidence, client, backend
  <2>2. TypeOK' /\ Started'
    BY <2>1 DEF TypeOK, Started
  <2>3. Numbered'
    BY <2>1 DEF Numbered, ClientHolds, ServerHolds, InFlight, WasRead, Answering
  <2>4. Recorded' /\ Observable' /\ EvidenceInOrder' /\ ChainFollows(chain, recorded)'
    BY <2>1, SameEvidence, StillOwed DEF Recorded, Observable, InFlight
  <2> QED
    BY <2>2, <2>3, <2>4
<1> QED
  BY <1>1, <1>2

\* The call is off the table, and observed, or the thread is gone.
LEMMA RecordResultInv ==
  ASSUME MInv, RecordResult
  PROVE  MInv'
<1> USE DEF MInv
<1> DEFINE n == Pending(scur)
<1>1. /\ spc = "record" /\ pending' = Unpend(scur)
      /\ \/ n = 0 /\ spc' = "write" /\ UNCHANGED <<evidence, faults>>
         \/ n # 0 /\ spc' = "write" /\ UNCHANGED faults /\ RecordEvent("observed", n, "none")
         \/ /\ n # 0 /\ spc' = "dead" /\ Fault
            /\ UNCHANGED evidence \/ RecordEvent("observed", n, "none")
      /\ UNCHANGED <<main, cpc, cur, scur, agent, lines, open, server, toServer, working,
                     fromServer, requests, told>>
  BY DEF RecordResult, pump, client, backend
<1>2. /\ scur \in Answers \cup Requests /\ Answering(scur) /\ scur.id \in Ids \cup {NoId}
      /\ pending \in [Ids -> 0..MaxLines]
  BY <1>1 DEF Numbered, ServerHolds, TypeOK, Answers, Requests
<1>3. /\ n = IF scur.id = NoId THEN 0 ELSE pending[scur.id]
      /\ n \in 0..MaxLines /\ NoId \notin Ids
      /\ pending' \in [Ids -> 0..MaxLines]
      /\ \A id \in Ids : pending'[id] = IF id = scur.id THEN 0 ELSE pending[id]
  BY <1>1, <1>2, McpAssumption DEF Pending, Unpend
<1>4. n # 0 => /\ n \in DOMAIN lines /\ lines[n].id = scur.id /\ scur.id \in Ids
               /\ Has("permitted", n) /\ ~Has("observed", n)
  BY <1>2, <1>3 DEF Recorded
<1> HIDE DEF n
<1>5. /\ recorded' \in Seq(ChainEvents) /\ (recorded # <<>> => recorded' # <<>>)
      /\ \A i \in DOMAIN chain' : chain'[i].event \in ChainEvents
      /\ ChainFollows(chain, recorded)' /\ EvidenceInOrder'
      /\ \A w, m : Has(w, m) => Has(w, m)'
      /\ \A w, m : Has(w, m)' => Has(w, m) \/ (w = "observed" /\ m = n /\ n # 0)
      /\ spc' # "dead" => \A m : m = n /\ m # 0 => Has("observed", m)'
  <2>1. CASE UNCHANGED evidence /\ (n = 0 \/ spc' = "dead")
    BY <2>1, SameEvidence DEF evidence, TypeOK
  <2>2. CASE n # 0 /\ RecordEvent("observed", n, "none")
    <3>1. /\ "observed" \in Steps /\ "none" \in Agents /\ recorded # <<>>
          /\ TypeOK /\ ChainFollows(chain, recorded) /\ EvidenceInOrder
          /\ Has("permitted", n) /\ ~Has("observed", n)
      <4>1. recorded # <<>>
        BY <1>4, <2>2 DEF Has, InEvidence
      <4> QED
        BY <1>4, <2>2, <4>1 DEF Steps, Agents
    <3>2. /\ recorded' \in Seq(ChainEvents) /\ recorded' # <<>>
          /\ \A i \in DOMAIN chain' : chain'[i].event \in ChainEvents
          /\ ChainFollows(chain, recorded)'
      BY <1>3, <2>2, <3>1, RecordGrows
    <3>3. /\ EvidenceInOrder'
          /\ \A w, m : Has(w, m)' <=> Has(w, m) \/ (w = "observed" /\ m = n)
      BY <1>3, <2>2, <3>1, RecordInOrder
    <3> QED
      BY <2>2, <3>2, <3>3
  <2> QED
    BY <1>1, <2>1, <2>2
<1>6. faults' \in 0..MaxFaults
  BY <1>1, FaultType DEF TypeOK
<1>7. TypeOK' /\ Started'
  BY <1>1, <1>3, <1>5, <1>6 DEF TypeOK, Started
<1>8. Numbered'
  BY <1>1, <1>2 DEF Numbered, ClientHolds, ServerHolds, InFlight, WasRead, Answering
<1>9. Recorded'
  <2>1. ASSUME NEW id \in Ids, pending'[id] # 0
        PROVE  /\ pending'[id] = pending[id] /\ pending[id] # n
    BY <1>3, <1>4, <2>1 DEF Recorded
  <2>2. /\ cpc = "request" => ~Has("permitted", cur.n)
        /\ cpc = "enforce" => ~Has("permitted", cur.n)
    BY DEF Recorded, Steps
  <2>3. cpc \in {"request", "enforce"} /\ n # 0 => cur.n # n
    BY <1>4, <2>2
  <2> QED
    BY <1>1, <1>4, <1>5, <2>1, <2>3 DEF Recorded, InFlight
<1>10. ASSUME spc' = "write"
       PROVE  /\ \A m : Single(m)' <=> Single(m)
              /\ \A m \in DOMAIN lines : Owed(m) => Owed(m)'
              /\ scur.type = "answer" /\ Single(scur.n) => Has("observed", scur.n)'
  <2>1. \A m : Single(m)' <=> Single(m)
    BY <1>1 DEF Single, IdIsReused
  <2>2. ASSUME NEW m \in DOMAIN lines, Owed(m) PROVE Owed(m)'
    <3>1. CASE lines[m].id = scur.id /\ pending[lines[m].id] = m /\ m # 0
      BY <1>1, <1>3, <1>5, <1>10, <3>1, McpAssumption DEF Owed
    <3>2. CASE lines[m].id # scur.id \/ pending[lines[m].id] # m
      BY <1>1, <1>3, <1>5, <2>1, <2>2, <3>2 DEF Owed
    <3>3. m # 0
      BY LenProperties DEF TypeOK
    <3> QED
      BY <3>1, <3>2, <3>3
  <2>3. ASSUME scur.type = "answer", Single(scur.n) PROVE Has("observed", scur.n)'
    <3>1. Owed(scur.n) /\ lines[scur.n].id = scur.id /\ scur.id \in Ids /\ scur.n \in DOMAIN lines
      BY <1>1, <1>2, <2>3 DEF Observable, Answering
    <3>2. pending[scur.id] = scur.n \/ Has("observed", scur.n)
      BY <2>3, <3>1 DEF Owed
    <3>3. scur.n # 0
      BY <3>1, LenProperties DEF TypeOK
    <3>4. \A m : m = scur.n => Has("observed", m)'
      BY <1>3, <1>5, <1>10, <3>1, <3>2, <3>3
    <3> QED
      BY <1>1, <3>4
  <2> QED
    BY <2>1, <2>2, <2>3
<1>11. Observable'
  <2>1. AnswersAreObserved'
    BY <1>1, <1>5 DEF Observable, AnswersAreObserved, IdIsReused, Has
  <2>2. /\ \A line \in InFlight : line.n \in DOMAIN lines
        /\ \A a \in Range(fromServer) : a.type = "answer" => a.n \in DOMAIN lines
        /\ cpc = "forward" => cur.n \in DOMAIN lines
    BY DEF Numbered, WasRead, Answering, ClientHolds
  <2>3. CASE spc' = "write"
    BY <1>1, <1>10, <2>1, <2>2, <2>3 DEF Observable, InFlight
  <2>4. CASE spc' = "dead"
    BY <2>1, <2>4 DEF Observable
  <2> QED
    BY <1>1, <2>3, <2>4
<1> QED
  BY <1>5, <1>7, <1>8, <1>9, <1>11

LEMMA WriteClientInv ==
  ASSUME MInv, WriteClient
  PROVE  MInv'
<1> USE DEF MInv
<1>1. /\ spc = "write" /\ spc' \in {"read", "dead"} /\ told' \in {told, told \cup {scur}}
      /\ UNCHANGED <<main, cpc, cur, scur, pending, agent, chain, recorded, lines, open, server,
                     toServer, working, fromServer, requests, faults>>
  BY DEF WriteClient, pump, evidence, client, backend
<1>2. scur \in Answers \cup Requests /\ Answering(scur)
  BY <1>1 DEF Numbered, ServerHolds
<1>3. TypeOK' /\ Started'
  BY <1>1, <1>2 DEF TypeOK, Started
<1>4. Numbered'
  BY <1>1, <1>2 DEF Numbered, ClientHolds, ServerHolds, InFlight, WasRead, Answering
<1>5. Recorded' /\ EvidenceInOrder' /\ ChainFollows(chain, recorded)'
  BY <1>1, SameEvidence DEF Recorded, InFlight
<1>6. Observable'
  <2>1. AnswersAreObserved'
    BY <1>1 DEF Observable, AnswersAreObserved, Single, IdIsReused, Has, InEvidence
  <2> QED
    BY <1>1, <2>1, SameEvidence, StillOwed DEF Observable, InFlight
<1> QED
  BY <1>3, <1>4, <1>5, <1>6

-----------------------------------------------------------------------------
(* The server, and the disk. *)

\* A step of the server moves lines from its input to its output, drops them, or
\* writes requests of its own; nothing is recorded.
LEMMA ServerMoves ==
  ASSUME MInv, TypeOK',
         InFlight' \subseteq InFlight, working' \subseteq {line \in InFlight : line.id \in Ids},
         \A a \in Range(fromServer') :
           \/ a \in Range(fromServer)
           \/ a.type = "request"
           \/ a.type = "answer" /\ \E line \in working : a.n = line.n /\ a.id = line.id,
         UNCHANGED <<main, cpc, cur, spc, scur, pending, agent, chain, recorded, lines, open,
                     told, faults>>
  PROVE  MInv'
<1> USE DEF MInv
<1>1. Started' /\ EvidenceInOrder' /\ ChainFollows(chain, recorded)'
  BY SameEvidence DEF Started
<1>2. Numbered'
  <2>1. \A a : Answering(a)' <=> Answering(a)
    BY DEF Answering
  <2>2. \A line \in working : line.n \in DOMAIN lines /\ lines[line.n].id = line.id /\ line.id \in Ids
    BY DEF Numbered, InFlight, WasRead
  <2>3. \A a \in Range(fromServer') : Answering(a)
    BY <2>2 DEF Numbered, Answering
  <2> QED
    BY <2>1, <2>3 DEF Numbered, ClientHolds, ServerHolds, WasRead
<1>3. Recorded'
  BY SameEvidence DEF Recorded
<1>4. Observable'
  <2>1. spc \notin {"done", "dead"} =>
          \A a \in Range(fromServer') : a.type = "answer" => Owed(a.n)
    BY DEF Observable, InFlight
  <2>2. /\ \A n : Owed(n) => Owed(n)'
        /\ \A n : Single(n)' <=> Single(n)
        /\ AnswersAreObserved'
        /\ \A w, n : Has(w, n)' <=> Has(w, n)
    BY SameEvidence, StillOwed DEF Observable
  <2> QED
    BY <2>1, <2>2 DEF Observable
<1> QED
  BY <1>1, <1>2, <1>3, <1>4

LEMMA ServerReadsInv ==
  ASSUME MInv, ServerReads
  PROVE  MInv'
<1> USE DEF MInv
<1>1. /\ toServer # <<>> /\ toServer' = Tail(toServer)
      /\ working' = IF Head(toServer).id = NoId THEN working ELSE working \cup {Head(toServer)}
      /\ UNCHANGED <<main, cpc, cur, spc, scur, pending, agent, chain, recorded, lines, open,
                     server, fromServer, requests, told, faults>>
  BY DEF ServerReads, pump, relay, evidence, client
<1>2. /\ toServer \in Seq(Lines) /\ Len(toServer) <= PipeSize /\ working \subseteq Lines
      /\ toServer' \in Seq(Lines) /\ Len(toServer') <= Len(toServer)
      /\ Head(toServer) \in Range(toServer) /\ Range(toServer') \subseteq Range(toServer)
      /\ Head(toServer) \in Lines
  BY <1>1, TakenFromQueue DEF TypeOK
<1>3. Len(toServer') <= PipeSize
  BY <1>2, McpAssumption, LenProperties
<1>4. TypeOK'
  BY <1>1, <1>2, <1>3 DEF TypeOK
<1>5. \A line \in working : line.id \in Ids
  BY DEF Numbered
<1>6. Head(toServer).id = NoId \/ Head(toServer).id \in Ids
  BY <1>2 DEF Lines
<1>7. InFlight' \subseteq InFlight /\ working' \subseteq {line \in InFlight : line.id \in Ids}
  BY <1>1, <1>2, <1>5, <1>6 DEF InFlight
<1> QED
  BY <1>1, <1>4, <1>7, ServerMoves

LEMMA ServerWritesInv ==
  ASSUME MInv, ServerAnswers \/ ServerRequests
  PROVE  MInv'
<1> USE DEF MInv
<1>1. PICK a \in Answers \cup Requests :
        /\ Len(fromServer) < PipeSize /\ fromServer' = Append(fromServer, a)
        /\ \/ a.type = "request"
           \/ a.type = "answer" /\ \E line \in working : a.n = line.n /\ a.id = line.id
        /\ working' \subseteq working /\ requests' \in 0..MaxRequests
        /\ UNCHANGED <<main, cpc, cur, spc, scur, pending, agent, chain, recorded, lines, open,
                       server, toServer, told, faults>>
  <2>1. CASE ServerAnswers
    <3>1. PICK line \in working :
            /\ working' = working \ {line}
            /\ fromServer' = Append(fromServer, [type |-> "answer", n |-> line.n, id |-> line.id])
      BY <2>1 DEF ServerAnswers
    <3>2. line.n \in 0..MaxLines /\ line.id \in Ids
      BY McpAssumption DEF Numbered, TypeOK, Lines
    <3>3. [type |-> "answer", n |-> line.n, id |-> line.id] \in Answers
      BY <3>2 DEF Answers
    <3> QED
      BY <2>1, <3>1, <3>3 DEF ServerAnswers, TypeOK, pump, relay, evidence, client
  <2>2. CASE ServerRequests
    <3>1. PICK id \in Ids : fromServer' = Append(fromServer, [type |-> "request", n |-> 0, id |-> id])
      BY <2>2 DEF ServerRequests
    <3>2. [type |-> "request", n |-> 0, id |-> id] \in Requests
      BY DEF Requests
    <3>3. requests' \in 0..MaxRequests
      BY <2>2, McpAssumption DEF ServerRequests, TypeOK
    <3> QED
      BY <2>2, <3>1, <3>2, <3>3 DEF ServerRequests, pump, relay, evidence, client
  <2> QED
    BY <2>1, <2>2
<1>2. fromServer \in Seq(Answers \cup Requests)
  BY DEF TypeOK
<1>3. /\ fromServer' \in Seq(Answers \cup Requests) /\ Len(fromServer') <= PipeSize
      /\ Range(fromServer') = Range(fromServer) \cup {a}
  BY <1>1, <1>2, PutInPipe
<1>4. TypeOK'
  BY <1>1, <1>3 DEF TypeOK
<1>5. InFlight' \subseteq InFlight /\ working' \subseteq {line \in InFlight : line.id \in Ids}
  BY <1>1 DEF Numbered, InFlight
<1> QED
  BY <1>1, <1>3, <1>4, <1>5, ServerMoves

LEMMA ServerExitsInv ==
  ASSUME MInv, ServerExits
  PROVE  MInv'
<1> USE DEF MInv
<1>1. /\ server' = "exited" /\ working' = {} /\ toServer' = <<>>
      /\ UNCHANGED <<main, cpc, cur, spc, scur, pending, agent, chain, recorded, lines, open,
                     fromServer, requests, told, faults>>
  BY DEF ServerExits, pump, relay, evidence, client
<1>2. toServer' \in Seq(Lines) /\ Len(toServer') <= PipeSize
  BY <1>1, McpAssumption
<1>3. TypeOK'
  BY <1>1, <1>2 DEF TypeOK
<1>4. InFlight' = {}
  BY <1>1 DEF InFlight, Range
<1> QED
  BY <1>1, <1>3, <1>4, ServerMoves

\* Damage to the chain leaves what was recorded.
LEMMA DamageInv ==
  ASSUME MInv, DamageChain
  PROVE  MInv'
<1> USE DEF MInv
<1> DEFINE none == [what |-> "blocked", n |-> 0, agent |-> "none"]
<1>1. /\ Fault
      /\ \E i \in DOMAIN chain : chain' = Lost(chain, i) \/ chain' = Altered(chain, i, none)
      /\ UNCHANGED <<main, cpc, cur, spc, scur, pending, agent, recorded, lines, open, server,
                     toServer, working, fromServer, requests, told>>
  BY DEF DamageChain, pump, relay, client, backend
<1>2. none \in ChainEvents
  BY McpAssumption DEF ChainEvents, Steps, Agents
<1> HIDE DEF none
<1>3. ChainFollows(chain', recorded) /\ \A i \in DOMAIN chain' : chain'[i].event \in ChainEvents
  <2>1. PICK i \in DOMAIN chain : chain' = Lost(chain, i) \/ chain' = Altered(chain, i, none)
    BY <1>1
  <2>2. /\ DOMAIN chain = 1..Len(chain) /\ Len(chain) \in Nat
        /\ \A j \in DOMAIN chain : chain[j].event \in ChainEvents
    BY SequenceOf DEF ChainFollows, TypeOK
  <2>3. CASE chain' = Lost(chain, i)
    <3>1. DOMAIN chain' = 1..(Len(chain) - 1)
          /\ \A j \in 1..(Len(chain) - 1) : chain'[j] = IF j < i THEN chain[j] ELSE chain[j + 1]
      BY <2>3 DEF Lost
    <3>2. \A j \in 1..(Len(chain) - 1) : j \in DOMAIN chain /\ j + 1 \in DOMAIN chain
      BY <2>2
    <3> QED
      BY <2>2, <2>3, <3>1, <3>2, LostFollows
  <2>4. CASE chain' = Altered(chain, i, none)
    <3>1. DOMAIN chain' = DOMAIN chain
          /\ \A j \in DOMAIN chain : chain'[j].event = IF j = i THEN none ELSE chain[j].event
      BY <2>4 DEF Altered
    <3> QED
      BY <1>2, <2>2, <2>4, <3>1, AlteredFollows
  <2> QED
    BY <2>1, <2>3, <2>4
<1>4. faults' \in 0..MaxFaults
  BY <1>1, FaultType
<1>5. TypeOK' /\ Started'
  BY <1>1, <1>3, <1>4 DEF TypeOK, Started
<1>6. Numbered'
  BY <1>1 DEF Numbered, ClientHolds, ServerHolds, InFlight, WasRead, Answering
<1>7. Recorded' /\ Observable' /\ EvidenceInOrder' /\ ChainFollows(chain, recorded)'
  BY <1>1, <1>3, SameEvidence, StillOwed DEF Recorded, Observable, InFlight
<1> QED
  BY <1>5, <1>6, <1>7

LEMMA StutterInv ==
  ASSUME MInv, UNCHANGED vars
  PROVE  MInv'
<1> USE DEF MInv, vars, pump, relay, evidence, client, backend
<1>1. TypeOK' /\ Started'
  BY DEF TypeOK, Started
<1>2. Numbered'
  BY DEF Numbered, ClientHolds, ServerHolds, InFlight, WasRead, Answering
<1>3. Recorded' /\ Observable' /\ EvidenceInOrder' /\ ChainFollows(chain, recorded)'
  BY SameEvidence, StillOwed DEF Recorded, Observable, InFlight
<1> QED
  BY <1>1, <1>2, <1>3

-----------------------------------------------------------------------------
(* The theorems. *)

\* Where a line is says what is in evidence of it, in every reachable state.
THEOREM Invariance == Spec => []MInv
<1>1. Init => MInv
  BY InitInv
<1>2. MInv /\ [Next]_vars => MInv'
  <2> SUFFICES ASSUME MInv, [Next]_vars PROVE MInv'
    OBVIOUS
  <2>1. CASE RunProxy \/ ClientCloses
    BY <2>1, MainInv
  <2>2. CASE ClientLine
    BY <2>2, ReadClientInv DEF ClientLine
  <2>3. CASE ClientPump
    BY <2>3, ClientEndsInv, RequestCallInv, PermitCallInv, BlockCallInv, FailCallInv, ForwardInv
       DEF ClientPump
  <2>4. CASE ServerPump
    BY <2>4, ReadServerInv, RecordResultInv, WriteClientInv DEF ServerPump
  <2>5. CASE ServerReads \/ ServerAnswers \/ ServerRequests \/ ServerExits \/ DamageChain
    BY <2>5, ServerReadsInv, ServerWritesInv, ServerExitsInv, DamageInv
  <2>6. CASE UNCHANGED vars
    BY <2>6, StutterInv
  <2> QED
    BY <2>1, <2>2, <2>3, <2>4, <2>5, <2>6 DEF Next, Outside
<1> QED
  BY <1>1, <1>2, PTL DEF Spec

\* The state is as it is declared.
THEOREM TypeCorrect == Spec => []TypeOK
<1>1. MInv => TypeOK
  BY DEF MInv
<1> QED
  BY <1>1, Invariance, PTL

\* The two threads write their evidence first, once and in order, and no call is
\* with the server without its permission in evidence.
THEOREM EvidenceIsFirst == Spec => []EvidenceComesFirst
<1>1. MInv => EvidenceComesFirst
  BY DEF MInv, EvidenceComesFirst, CallsAtServer, Recorded, InFlight, Has
<1> QED
  BY <1>1, Invariance, PTL

\* An answer that reaches the client is in evidence, unless its id was used again.
THEOREM AnswersAreInEvidence == Spec => []AnswersAreObserved
<1>1. MInv => AnswersAreObserved
  BY DEF MInv, Observable
<1> QED
  BY <1>1, Invariance, PTL

\* verify calls no chain valid that is not of recorded events in their order, and
\* none invalid that is as recorded, whatever was lost or altered.
THEOREM VerifyIsCorrect == Spec => []VerifyIsRight
<1>1. MInv => VerifyIsRight
  BY FollowsIsRight DEF MInv, VerifyIsRight
<1> QED
  BY <1>1, Invariance, PTL

=============================================================================
