--------------------------- MODULE ApprovalProofs ---------------------------
(***************************************************************************)
(* The approval file and those who use it, for any number of approvals,    *)
(* bindings, keys, processes, calls and policies, and any clock: the       *)
(* transactions; the service, whose approvals are consumed once; and the   *)
(* hook processes, whose releases are approved and in evidence.            *)
(***************************************************************************)
EXTENDS ApprovalService, HookRuntime, SequenceTheorems, TLAPS

-----------------------------------------------------------------------------
(* What each transaction does to the file.                                 *)

\* What an approval was requested with, which no transaction may alter.
SameTerms(a, b) ==
  a.bind = b.bind /\ a.key = b.key /\ a.justify = b.justify

\* A new approval is well-typed whatever the clock said before the lock.
LEMMA NewApprovalType ==
  ASSUME NEW b \in Bindings, NEW key \in Keys \cup {Unset}, NEW justify \in BOOLEAN,
         NEW now \in Nat
  PROVE  NewApproval(b, key, justify, now) \in Approval
  BY TTLAssumption
  DEF NewApproval, Approval, Statuses, MaxUses

\* Adding an approval under a fresh token keeps the file a file.
LEMMA PutType ==
  ASSUME NEW store, IsStore(store), NEW id \in ApprovalIds, NEW a \in Approval
  PROVE  /\ IsStore(Put(store, id, a))
         /\ DOMAIN Put(store, id, a) = DOMAIN store \cup {id}
         /\ Put(store, id, a)[id] = a
         /\ \A i \in DOMAIN store \ {id} : Put(store, id, a)[i] = store[i]
  BY DEF IsStore, Put

\* grant, on a pending approval, moves it to approved or expired, or leaves it.
LEMMA GrantEffect ==
  ASSUME NEW store, IsStore(store), NEW id, Grantable(store, id),
         NEW outcome \in {"justification_required", "expired", "granted"}
  PROVE  /\ IsStore(Granted(store, id, outcome))
         /\ DOMAIN Granted(store, id, outcome) = DOMAIN store
         /\ \A i \in DOMAIN store :
              /\ i # id => Granted(store, id, outcome)[i] = store[i]
              /\ SameTerms(Granted(store, id, outcome)[i], store[i])
         /\ Granted(store, id, outcome)[id].status =
              CASE outcome = "granted" -> "approved"
                [] outcome = "expired" -> "expired"
                [] outcome = "justification_required" -> "pending"
  <1>2. id \in DOMAIN store /\ store[id] \in Approval /\ store[id].status = "pending"
    BY DEF Grantable, IsStore
  <1>3. CASE outcome = "granted"
    BY <1>2, <1>3 DEF Granted, IsStore, Approval, Statuses, SameTerms
  <1>4. CASE outcome = "expired"
    BY <1>2, <1>4 DEF Granted, IsStore, Approval, Statuses, SameTerms
  <1>5. CASE outcome = "justification_required"
    BY <1>2, <1>5 DEF Granted, IsStore, SameTerms
  <1>6. QED BY <1>3, <1>4, <1>5

\* reject voids one open approval and touches no other.
LEMMA RejectEffect ==
  ASSUME NEW store, IsStore(store), NEW id, Rejectable(store, id)
  PROVE  /\ IsStore(Rejected(store, id))
         /\ DOMAIN Rejected(store, id) = DOMAIN store
         /\ \A i \in DOMAIN store :
              /\ i # id => Rejected(store, id)[i] = store[i]
              /\ SameTerms(Rejected(store, id)[i], store[i])
         /\ Rejected(store, id)[id].status = "rejected"
  BY DEF Rejectable, Rejected, IsStore, Approval, Statuses, SameTerms

\* A counted attempt keeps an approval an approval: its uses stay within
\* MaxUses because consume answers "ok" only below it.
LEMMA AttemptedType ==
  ASSUME NEW a \in Approval, NEW outcome, outcome = "ok" => a.uses = 0
  PROVE  Attempted(a, outcome) \in Approval
  <1> DEFINE uses == IF outcome = "ok" THEN a.uses + 1 ELSE a.uses
             status == IF outcome = "ok" THEN "consumed"
                       ELSE IF outcome = "expired" THEN "expired" ELSE a.status
             attempts == a.attempts + 1
  <1>1. uses \in 0..1 /\ status \in Statuses /\ attempts \in Nat
    BY DEF Approval, MaxUses, Statuses
  <1>2. Attempted(a, outcome) =
          [a EXCEPT !.attempts = attempts, !.uses = uses, !.status = status]
    BY DEF Attempted
  <1> HIDE DEF uses, status, attempts
  <1>3. QED BY <1>1, <1>2 DEF Approval, MaxUses

\* consume spends an approved approval, or leaves its status alone, or makes
\* it expired; only an approved one is spent.
LEMMA ConsumeEffect ==
  ASSUME NEW store, IsStore(store), NEW id \in DOMAIN store, NEW b, NEW now \in Nat,
         NEW outcome, outcome = ConsumeOutcome(store[id], b, now)
  PROVE  /\ IsStore(Consumed(store, id, outcome))
         /\ DOMAIN Consumed(store, id, outcome) = DOMAIN store
         /\ \A i \in DOMAIN store :
              /\ i # id => Consumed(store, id, outcome)[i] = store[i]
              /\ SameTerms(Consumed(store, id, outcome)[i], store[i])
         /\ outcome = "ok" =>
              /\ store[id].status = "approved"
              /\ Consumed(store, id, outcome)[id].status = "consumed"
         /\ outcome # "ok" =>
              \/ Consumed(store, id, outcome)[id].status = store[id].status
              \/ /\ Consumed(store, id, outcome)[id].status = "expired"
                 /\ store[id].status # "consumed"
  <1> DEFINE a == store[id]
             new == Consumed(store, id, outcome)
  <1>1. a \in Approval
    BY DEF IsStore
  <1>2. outcome = "ok" => a.status = "approved" /\ a.uses = 0
    BY <1>1 DEF ConsumeOutcome, Approval, MaxUses
  <1>3. outcome = "expired" => a.status # "consumed"
    BY DEF ConsumeOutcome
  <1>4. Attempted(a, outcome) \in Approval
    BY <1>1, <1>2, AttemptedType
  <1>5. /\ SameTerms(Attempted(a, outcome), a)
        /\ outcome = "ok" => Attempted(a, outcome).status = "consumed"
        /\ outcome = "expired" => Attempted(a, outcome).status = "expired"
        /\ outcome \notin {"ok", "expired"} => Attempted(a, outcome).status = a.status
    BY <1>1 DEF Attempted, Approval, SameTerms
  <1>6. /\ DOMAIN new = DOMAIN store
        /\ new[id] = Attempted(a, outcome)
        /\ \A i \in DOMAIN store : i # id => new[i] = store[i]
    BY DEF Consumed, IsStore
  <1>7. IsStore(new)
    BY <1>4 DEF Consumed, IsStore
  <1>8. \A i \in DOMAIN store : SameTerms(new[i], store[i])
    BY <1>5, <1>6 DEF SameTerms
  <1>9. QED BY <1>2, <1>3, <1>5, <1>6, <1>7, <1>8

\* sweep_expired makes open approvals expired and touches no other.
LEMMA SweepEffect ==
  ASSUME NEW store, IsStore(store), NEW now
  PROVE  /\ IsStore(Swept(store, now))
         /\ DOMAIN Swept(store, now) = DOMAIN store
         /\ \A i \in DOMAIN store :
              /\ SameTerms(Swept(store, now)[i], store[i])
              /\ \/ Swept(store, now)[i].status = store[i].status
                 \/ /\ Swept(store, now)[i].status = "expired"
                    /\ store[i].status \in {"pending", "approved"}
  <1> DEFINE new == Swept(store, now)
  <1>1. DOMAIN new = DOMAIN store
    BY DEF Swept
  <1>2. ASSUME NEW i \in DOMAIN store
        PROVE  /\ new[i] \in Approval
               /\ SameTerms(new[i], store[i])
               /\ \/ new[i].status = store[i].status
                  \/ /\ new[i].status = "expired"
                     /\ store[i].status \in {"pending", "approved"}
    BY DEF Swept, Sweepable, IsStore, Approval, Statuses, SameTerms
  <1>3. new = [i \in DOMAIN store |-> new[i]]
    BY DEF Swept
  <1>4. IsStore(new)
    BY <1>1, <1>2, <1>3 DEF IsStore
  <1>5. QED BY <1>1, <1>2, <1>4

(***************************************************************************)
(* What every transaction has in common: approvals stay in the file with   *)
(* the terms they were requested with, and what is consumed, rejected or   *)
(* expired is never open again.                                            *)
(***************************************************************************)
Forward(old, new) ==
  /\ IsStore(new)
  /\ \A id \in DOMAIN old :
       /\ id \in DOMAIN new
       /\ SameTerms(new[id], old[id])
       /\ old[id].status = "consumed" => new[id].status = "consumed"
       /\ old[id].status \in {"rejected", "expired"} =>
            new[id].status \in {"rejected", "expired"}

\* A file that is left alone has gone forward.
LEMMA StayForward ==
  ASSUME NEW store, IsStore(store)
  PROVE  Forward(store, store)
  BY DEF Forward, SameTerms

\* A fresh approval disturbs no other.
LEMMA PutForward ==
  ASSUME NEW store, IsStore(store), NEW id \in ApprovalIds, id \notin DOMAIN store,
         NEW a \in Approval
  PROVE  Forward(store, Put(store, id, a))
  <1>1. IsStore(Put(store, id, a)) /\ DOMAIN Put(store, id, a) = DOMAIN store \cup {id}
    BY DEF IsStore, Put
  <1>2. \A i \in DOMAIN store : Put(store, id, a)[i] = store[i]
    BY DEF Put
  <1>3. QED BY <1>1, <1>2 DEF Forward, SameTerms

\* grant, reject and sweep_expired work on open approvals alone.
LEMMA OperatorForward ==
  ASSUME NEW store, IsStore(store)
  PROVE  /\ \A id : \A outcome \in {"justification_required", "expired", "granted"} :
              Grantable(store, id) => Forward(store, Granted(store, id, outcome))
         /\ \A id : Rejectable(store, id) => Forward(store, Rejected(store, id))
         /\ \A now : Forward(store, Swept(store, now))
  <1>1. ASSUME NEW id, NEW outcome \in {"justification_required", "expired", "granted"},
               Grantable(store, id)
        PROVE  Forward(store, Granted(store, id, outcome))
    <2> DEFINE new == Granted(store, id, outcome)
    <2>1. /\ IsStore(new)
          /\ DOMAIN new = DOMAIN store
          /\ \A i \in DOMAIN store :
               (i # id => new[i] = store[i]) /\ SameTerms(new[i], store[i])
      BY <1>1, GrantEffect
    <2>2. store[id].status = "pending"
      BY <1>1 DEF Grantable
    <2> HIDE DEF new
    <2>3. ASSUME NEW i \in DOMAIN store
          PROVE  /\ store[i].status = "consumed" => new[i].status = "consumed"
                 /\ store[i].status \in {"rejected", "expired"} =>
                      new[i].status \in {"rejected", "expired"}
      <3>1. CASE i = id
        BY <2>2, <3>1
      <3>2. CASE i # id
        BY <2>1, <3>2
      <3>3. QED BY <3>1, <3>2
    <2>4. Forward(store, new)
      BY <2>1, <2>3 DEF Forward
    <2>5. QED BY <2>4 DEF new
  <1>2. ASSUME NEW id, Rejectable(store, id)
        PROVE  Forward(store, Rejected(store, id))
    BY <1>2, RejectEffect DEF Forward, Rejectable
  <1>3. ASSUME NEW now
        PROVE  Forward(store, Swept(store, now))
    BY SweepEffect DEF Forward
  <1>4. QED BY <1>1, <1>2, <1>3

\* consume spends what is approved, and a failed attempt opens nothing.
LEMMA ConsumeForward ==
  ASSUME NEW store, IsStore(store), NEW id \in DOMAIN store, NEW b, NEW now \in Nat,
         NEW outcome, outcome = ConsumeOutcome(store[id], b, now)
  PROVE  Forward(store, Consumed(store, id, outcome))
  BY ConsumeEffect DEF Forward

\* What consume answers "ok" to was approved and is bound to what is presented.
LEMMA ConsumeMatches ==
  ASSUME NEW a, NEW b, NEW now, ConsumeOutcome(a, b, now) = "ok"
  PROVE  /\ a.status = "approved"
         /\ b.payload = a.bind.payload /\ b.scope = a.bind.scope
         /\ TargetMatches(a, b) /\ SequenceMatches(a, b)
  BY DEF ConsumeOutcome

-----------------------------------------------------------------------------
(* The service: type correctness and one-time consumption.                 *)

(***************************************************************************)
(* The inductive invariant. An approval that somebody was told he consumed,*)
(* or has consumed and not yet been told, or whose consumption is on its   *)
(* way to the evidence or in it, is consumed in the file; at most one      *)
(* process is to be told, and none once one was. A rejection on its way to *)
(* the evidence or in it was committed, and an approval some process has   *)
(* rejected has no way back to approved.                                   *)
(***************************************************************************)
Emitting(p, id) == Event("consumed", id) \in outbox[p]

Rejecting(p, id) == Event("rejected", id) \in outbox[p]

\* Process p has consumed id and its caller does not know yet.
Holding(p, id) == success[p] = id /\ id # Unset

ConsumedInFile(id) == id \in DOMAIN approvals /\ approvals[id].status = "consumed"

\* The event of the consumption has been through the evidence path.
Emitted(id) == Event("consumed", id) \in evidence \cup deadLetters

Spent ==
  \A id \in ApprovalIds :
    /\ wins[id] > 0 => ConsumedInFile(id)
    /\ \A p \in Processes : Holding(p, id) => ConsumedInFile(id) /\ wins[id] = 0
    /\ \A p, q \in Processes : Holding(p, id) /\ Holding(q, id) => p = q

Told ==
  \A id \in ApprovalIds :
    /\ wins[id] > 0 => Emitted(id)
    /\ \A p \in Processes : Holding(p, id) => Emitting(p, id) \/ Emitted(id)

EvidenceOfFile ==
  \A id \in ApprovalIds :
    /\ Event("consumed", id) \in evidence => ConsumedInFile(id)
    /\ \A p \in Processes : Emitting(p, id) => ConsumedInFile(id)
    /\ Event("rejected", id) \in evidence => id \in refused
    /\ \A p \in Processes : Rejecting(p, id) => id \in refused

Void ==
  \A id \in refused :
    id \in DOMAIN approvals /\ approvals[id].status \in {"rejected", "expired"}

\* A process that waits to commit a request is in no consume.
InOneCall == \A p \in Processes : call[p] # Unset => success[p] = Unset

ServiceIInv ==
  /\ ServiceTypeOK
  /\ InOneCall
  /\ Spent
  /\ Told
  /\ EvidenceOfFile
  /\ Void
  /\ OneSuccess
  /\ OneApprovalPerKey

\* The file starts empty and nobody has been told anything.
LEMMA ServiceInitIInv == ServiceInit => ServiceIInv
  BY ClockAssumption
  DEF ServiceInit, ServiceIInv, ServiceTypeOK, IsStore, EmptyStore, Times, Spent, Void, Emitting,
      Rejecting, Holding, Emitted, Told, EvidenceOfFile, InOneCall, OneSuccess, OneApprovalPerKey

Voided(id) == id \in DOMAIN approvals /\ approvals[id].status \in {"rejected", "expired"}

\* A step that gives nobody a success to tell, takes no consumption from the
\* outbox of one who has, and puts none in one, nor a rejection that is not
\* committed.
OutboxesKept ==
  /\ \A q \in Processes :
       call'[q] # Unset => \/ success'[q] = Unset
                           \/ call[q] # Unset /\ success'[q] = success[q]
  /\ \A q \in Processes, i \in ApprovalIds :
       /\ Holding(q, i)' => Holding(q, i) /\ (Emitting(q, i) => Emitting(q, i)')
       /\ Emitting(q, i)' => Emitting(q, i)
       /\ Rejecting(q, i)' => Rejecting(q, i) \/ i \in refused'

\* A step that takes no approval out of consumed, none out of rejected or
\* expired, and keeps the outboxes keeps what the invariant says of the file
\* and the evidence.
LEMMA TameStep ==
  ASSUME ServiceIInv, ServiceTypeOK', OneApprovalPerKey', OutboxesKept,
         UNCHANGED <<wins, evidence, deadLetters>>, refused \subseteq refused',
         \A id \in DOMAIN approvals :
           /\ ConsumedInFile(id) => ConsumedInFile(id)'
           /\ Voided(id) => Voided(id)',
         \A id \in refused' : id \in refused \/ Voided(id)'
  PROVE  ServiceIInv'
  <1>1. \A id : ConsumedInFile(id) => ConsumedInFile(id)'
    BY DEF ConsumedInFile
  <1>2. Spent'
    BY <1>1 DEF ServiceIInv, Spent, OutboxesKept
  <1>3. Told'
    BY DEF ServiceIInv, Told, Emitted, OutboxesKept
  <1>4. EvidenceOfFile'
    BY <1>1 DEF ServiceIInv, EvidenceOfFile, OutboxesKept
  <1>5. Void'
    BY DEF ServiceIInv, Void, Voided
  <1>6. InOneCall'
    BY DEF ServiceIInv, InOneCall, OutboxesKept
  <1>7. QED
    BY <1>2, <1>3, <1>4, <1>5, <1>6 DEF ServiceIInv, OneSuccess

\* Steps that leave the file alone and keep the outboxes.
LEMMA FileUnchanged ==
  ASSUME ServiceIInv, ServiceTypeOK', OutboxesKept,
         UNCHANGED <<approvals, wins, evidence, deadLetters, refused>>
  PROVE  ServiceIInv'
  BY TameStep DEF ServiceIInv, OneApprovalPerKey, ConsumedInFile, Voided

\* Steps that leave the outboxes and who is to be told alone keep them.
LEMMA SameOutboxes ==
  ASSUME UNCHANGED <<outbox, success>>,
         \A q \in Processes : call'[q] # Unset => call[q] # Unset \/ success[q] = Unset
  PROVE  OutboxesKept
  BY DEF OutboxesKept, Holding, Emitting, Rejecting

\* What ToEmit leaves in the outboxes, when the process had nothing to emit.
LEMMA ToEmitEffect ==
  ASSUME ServiceTypeOK, NEW p \in Processes, NEW what \in Actions,
         NEW id \in ApprovalIds \cup {Unset}, ToEmit(p, what, id)
  PROVE  /\ outbox' \in [Processes -> SUBSET Events]
         /\ outbox'[p] = {Event(what, id)}
         /\ \A q \in Processes \ {p} : outbox'[q] = outbox[q]
  BY DEF ToEmit, ServiceTypeOK, Events, Event

\* An event that is no consumption, and no rejection but a committed one, put
\* in the outbox of a process that has no success to tell.
LEMMA ToEmitKeeps ==
  ASSUME ServiceTypeOK, NEW p \in Processes, NEW what \in Actions \ {"consumed"},
         NEW id \in ApprovalIds \cup {Unset}, ToEmit(p, what, id),
         success' = success, success[p] = Unset,
         \A q \in Processes : call'[q] # Unset => call[q] # Unset,
         what = "rejected" => id \in refused'
  PROVE  /\ outbox' \in [Processes -> SUBSET Events]
         /\ OutboxesKept
  <1>1. /\ outbox' \in [Processes -> SUBSET Events]
        /\ outbox'[p] = {Event(what, id)}
        /\ \A q \in Processes \ {p} : outbox'[q] = outbox[q]
    BY ToEmitEffect
  <1>2. ASSUME NEW q \in Processes, NEW i \in ApprovalIds
        PROVE  /\ Holding(q, i)' => Holding(q, i) /\ (Emitting(q, i) => Emitting(q, i)')
               /\ Emitting(q, i)' => Emitting(q, i)
               /\ Rejecting(q, i)' => Rejecting(q, i) \/ i \in refused'
    <2>1. CASE q = p
      BY <1>1, <2>1 DEF Holding, Emitting, Rejecting, Event
    <2>2. CASE q # p
      BY <1>1, <2>2 DEF Holding, Emitting, Rejecting
    <2>3. QED BY <2>1, <2>2
  <1>3. QED BY <1>1, <1>2 DEF OutboxesKept

\* request only notes what its caller asks, and the clock, before the lock.
LEMMA BeginRequestStep ==
  ASSUME ServiceIInv, NEW p \in Processes, NEW r \in Requests, BeginRequest(p, r)
  PROVE  ServiceIInv'
  <1>1. ServiceTypeOK'
    BY DEF ServiceIInv, ServiceTypeOK, BeginRequest, PendingRequest
  <1>2. QED
    BY <1>1, FileUnchanged, SameOutboxes DEF BeginRequest, Free, ServiceIInv, ServiceTypeOK

\* request draws a fresh approval, hands out the one that has its key, or refuses.
LEMMA CommitRequestStep ==
  ASSUME ServiceIInv, NEW p \in Processes, CommitRequest(p)
  PROVE  ServiceIInv'
  <1>1. ServiceTypeOK /\ OneApprovalPerKey /\ IsStore(approvals)
    BY DEF ServiceIInv, ServiceTypeOK
  <1>2. call[p] \in PendingRequest
    BY <1>1 DEF ServiceTypeOK, CommitRequest
  <1>3. /\ call' \in [Processes -> PendingRequest \cup {Unset}]
        /\ success[p] = Unset
        /\ \A q \in Processes : call'[q] # Unset => call[q] # Unset
    BY <1>1 DEF ServiceIInv, InOneCall, ServiceTypeOK, CommitRequest
  <1>4. ASSUME NEW id \in ApprovalIds, Draw(p, id)
        PROVE  ServiceIInv'
    <2> DEFINE r == call[p].req
               a == NewApproval(r.bind, r.key, r.justify, call[p].now)
    <2>1. r \in Requests /\ call[p].now \in Nat
      BY <1>2, ClockAssumption DEF PendingRequest, Times
    <2>2. a \in Approval
      BY <2>1, RequestsAssumption, NewApprovalType
    <2>3. /\ approvals' = Put(approvals, id, a)
          /\ id \notin DOMAIN approvals
          /\ WithKey(approvals, r.key) = {}
          /\ ToEmit(p, "requested", id)
      BY <1>4 DEF Draw
    <2>4. a.key = r.key /\ a.status = "pending"
      BY DEF NewApproval
    <2> HIDE DEF a, r
    <2>5. /\ IsStore(approvals')
          /\ DOMAIN approvals' = DOMAIN approvals \cup {id}
          /\ approvals'[id] = a
          /\ \A i \in DOMAIN approvals : approvals'[i] = approvals[i]
      <3>1. /\ IsStore(Put(approvals, id, a))
            /\ DOMAIN Put(approvals, id, a) = DOMAIN approvals \cup {id}
            /\ Put(approvals, id, a)[id] = a
            /\ \A i \in DOMAIN approvals \ {id} :
                 Put(approvals, id, a)[i] = approvals[i]
        BY <1>1, <2>2, PutType
      <3>2. QED BY <2>3, <3>1
    <2>6. outbox' \in [Processes -> SUBSET Events] /\ OutboxesKept
      BY <1>1, <1>3, <2>3, ToEmitKeeps DEF Actions, CommitRequest
    <2>7. ServiceTypeOK'
      BY <1>1, <1>3, <2>5, <2>6 DEF ServiceTypeOK, CommitRequest
    <2>8. \A i \in DOMAIN approvals : approvals[i].key = r.key => r.key = Unset
      BY <2>3 DEF WithKey
    <2>9. OneApprovalPerKey'
      BY <1>1, <2>4, <2>5, <2>8 DEF OneApprovalPerKey
    <2>10. QED
      BY <2>5, <2>6, <2>7, <2>9, TameStep DEF CommitRequest, ConsumedInFile, Voided
  <1>5. ASSUME Reuse(p)
        PROVE  ServiceIInv'
    <2>1. ServiceTypeOK'
      BY <1>1, <1>3, <1>5 DEF ServiceTypeOK, CommitRequest, Reuse
    <2>2. QED
      BY <1>3, <1>5, <2>1, FileUnchanged, SameOutboxes DEF CommitRequest, Reuse
  <1>6. QED
    BY <1>4, <1>5 DEF CommitRequest

\* grant approves a pending approval, expires it, or leaves it for want of a reason.
LEMMA GrantStep ==
  ASSUME ServiceIInv, NEW p \in Processes, NEW id \in ApprovalIds, NEW justified \in BOOLEAN,
         Grant(p, id, justified)
  PROVE  ServiceIInv'
  <1> DEFINE outcome == GrantOutcome(approvals[id], justified, clock)
  <1>1. ServiceTypeOK /\ OneApprovalPerKey /\ IsStore(approvals) /\ clock \in Nat
    BY ClockAssumption DEF ServiceIInv, ServiceTypeOK, Times
  <1>2. /\ Grantable(approvals, id)
        /\ approvals' = Granted(approvals, id, outcome)
        /\ ToEmit(p, IF outcome = "granted" THEN "granted" ELSE "failed", id)
    BY DEF Grant
  <1> HIDE DEF outcome
  <1>3. /\ IsStore(approvals')
        /\ DOMAIN approvals' = DOMAIN approvals
        /\ \A i \in DOMAIN approvals :
             /\ i # id => approvals'[i] = approvals[i]
             /\ SameTerms(approvals'[i], approvals[i])
    <2>1. /\ IsStore(Granted(approvals, id, outcome))
          /\ DOMAIN Granted(approvals, id, outcome) = DOMAIN approvals
          /\ \A i \in DOMAIN approvals :
               /\ i # id => Granted(approvals, id, outcome)[i] = approvals[i]
               /\ SameTerms(Granted(approvals, id, outcome)[i], approvals[i])
      <3>1. outcome \in {"justification_required", "expired", "granted"}
        BY DEF outcome, GrantOutcome
      <3>2. QED BY <1>1, <1>2, <3>1, GrantEffect
    <2>2. QED BY <1>2, <2>1
  <1>4. outbox' \in [Processes -> SUBSET Events] /\ OutboxesKept
    BY <1>1, <1>2, ToEmitKeeps DEF Actions, Grant, Free
  <1>5. grants' \subseteq [id : ApprovalIds, justified : BOOLEAN]
    BY <1>1 DEF Grant, ServiceTypeOK
  <1>6. ServiceTypeOK'
    BY <1>1, <1>3, <1>4, <1>5 DEF ServiceTypeOK, Grant
  <1>7. OneApprovalPerKey'
    BY <1>1, <1>3 DEF OneApprovalPerKey, SameTerms
  <1>8. approvals[id].status = "pending"
    BY <1>2 DEF Grantable
  <1>9. QED
    BY <1>3, <1>4, <1>6, <1>7, <1>8, TameStep DEF Grant, ConsumedInFile, Voided

\* reject voids an approval nobody has been told is consumed.
LEMMA RejectStep ==
  ASSUME ServiceIInv, NEW p \in Processes, NEW id \in ApprovalIds, Reject(p, id)
  PROVE  ServiceIInv'
  <1>1. ServiceTypeOK /\ OneApprovalPerKey /\ IsStore(approvals)
    BY DEF ServiceIInv, ServiceTypeOK
  <1>2. /\ Rejectable(approvals, id)
        /\ approvals' = Rejected(approvals, id)
        /\ ToEmit(p, "rejected", id)
    BY DEF Reject
  <1>3. /\ IsStore(approvals')
        /\ DOMAIN approvals' = DOMAIN approvals
        /\ \A i \in DOMAIN approvals :
             /\ i # id => approvals'[i] = approvals[i]
             /\ SameTerms(approvals'[i], approvals[i])
        /\ approvals'[id].status = "rejected"
    BY <1>1, <1>2, RejectEffect
  <1>4. outbox' \in [Processes -> SUBSET Events] /\ OutboxesKept
    BY <1>1, <1>2, ToEmitKeeps DEF Actions, Reject, Free
  <1>5. ServiceTypeOK'
    BY <1>1, <1>3, <1>4 DEF ServiceTypeOK, Reject
  <1>6. OneApprovalPerKey'
    BY <1>1, <1>3 DEF OneApprovalPerKey, SameTerms
  <1>7. id \in DOMAIN approvals /\ approvals[id].status \in {"pending", "approved"}
    BY <1>2 DEF Rejectable
  <1>8. QED
    BY <1>3, <1>4, <1>5, <1>6, <1>7, TameStep DEF Reject, ConsumedInFile, Voided

\* consume of an identifier that is nobody's reports a failure and touches no file.
LEMMA ConsumeUnknownStep ==
  ASSUME ServiceIInv, NEW p \in Processes, NEW id \in ApprovalIds, ConsumeUnknown(p, id)
  PROVE  ServiceIInv'
  <1>1. ServiceTypeOK
    BY DEF ServiceIInv
  <1>2. outbox' \in [Processes -> SUBSET Events] /\ OutboxesKept
    BY <1>1, ToEmitKeeps DEF ConsumeUnknown, Actions, Free
  <1>3. ServiceTypeOK'
    BY <1>1, <1>2 DEF ServiceTypeOK, ConsumeUnknown
  <1>4. QED
    BY <1>2, <1>3, FileUnchanged DEF ConsumeUnknown

\* sweep_expired voids open approvals, none of which counts a success.
LEMMA SweepStep ==
  ASSUME ServiceIInv, NEW p \in Processes, SweepExpired(p)
  PROVE  ServiceIInv'
  <1>1. ServiceTypeOK /\ OneApprovalPerKey /\ IsStore(approvals)
    BY DEF ServiceIInv, ServiceTypeOK
  <1>2. /\ IsStore(approvals')
        /\ DOMAIN approvals' = DOMAIN approvals
        /\ \A i \in DOMAIN approvals :
             /\ SameTerms(approvals'[i], approvals[i])
             /\ \/ approvals'[i].status = approvals[i].status
                \/ /\ approvals'[i].status = "expired"
                   /\ approvals[i].status \in {"pending", "approved"}
    BY <1>1, SweepEffect DEF SweepExpired
  <1>3. Sweepable(approvals, clock) \subseteq ApprovalIds
    BY <1>1 DEF Sweepable, IsStore
  <1>4. outbox' \in [Processes -> SUBSET Events] /\ OutboxesKept
    <2>1. outbox' \in [Processes -> SUBSET Events]
      BY <1>1, <1>3 DEF SweepExpired, ServiceTypeOK, Events, Event, Actions
    <2>2. /\ outbox'[p] = {Event("failed", i) : i \in Sweepable(approvals, clock)}
          /\ \A q \in Processes \ {p} : outbox'[q] = outbox[q]
          /\ success' = success /\ success[p] = Unset
      BY <1>1 DEF SweepExpired, ServiceTypeOK, Free
    <2>3. ASSUME NEW q \in Processes, NEW i \in ApprovalIds
          PROVE  /\ Holding(q, i)' => Holding(q, i) /\ (Emitting(q, i) => Emitting(q, i)')
                 /\ Emitting(q, i)' => Emitting(q, i)
                 /\ Rejecting(q, i)' => Rejecting(q, i)
      <3>1. CASE q = p
        BY <2>2, <3>1 DEF Holding, Emitting, Rejecting, Event
      <3>2. CASE q # p
        BY <2>2, <3>2 DEF Holding, Emitting, Rejecting
      <3>3. QED BY <3>1, <3>2
    <2>4. QED BY <2>1, <2>2, <2>3 DEF OutboxesKept, SweepExpired
  <1>5. ServiceTypeOK'
    BY <1>1, <1>2, <1>4 DEF ServiceTypeOK, SweepExpired
  <1>6. OneApprovalPerKey'
    BY <1>1, <1>2 DEF OneApprovalPerKey, SameTerms
  <1>7. QED
    BY <1>2, <1>4, <1>5, <1>6, TameStep DEF SweepExpired, ConsumedInFile, Voided

\* A successful consume finds the approval approved: nobody was told he
\* consumed it, nobody is to be told, no evidence says so, and no reject was
\* committed on it.
LEMMA ConsumeStep ==
  ASSUME ServiceIInv, NEW p \in Processes, NEW id \in ApprovalIds, NEW b \in Bindings,
         Consume(p, id, b)
  PROVE  ServiceIInv'
  <1> DEFINE outcome == ConsumeOutcome(approvals[id], b, clock)
  <1>1. ServiceTypeOK /\ OneApprovalPerKey /\ IsStore(approvals) /\ clock \in Nat
    BY ClockAssumption DEF ServiceIInv, ServiceTypeOK, Times
  <1>2. /\ id \in DOMAIN approvals
        /\ approvals' = Consumed(approvals, id, outcome)
        /\ ToEmit(p, IF outcome = "ok" THEN "consumed" ELSE "failed", id)
        /\ success' = [success EXCEPT ![p] = IF outcome = "ok" THEN id ELSE Unset]
        /\ UNCHANGED <<clock, call, evidence, deadLetters, wins, refused, grants>>
        /\ success[p] = Unset
    BY DEF Consume, Free
  <1>3. /\ IsStore(Consumed(approvals, id, outcome))
        /\ DOMAIN Consumed(approvals, id, outcome) = DOMAIN approvals
        /\ \A i \in DOMAIN approvals :
             /\ i # id => Consumed(approvals, id, outcome)[i] = approvals[i]
             /\ SameTerms(Consumed(approvals, id, outcome)[i], approvals[i])
        /\ outcome = "ok" =>
             /\ approvals[id].status = "approved"
             /\ Consumed(approvals, id, outcome)[id].status = "consumed"
        /\ outcome # "ok" =>
             \/ Consumed(approvals, id, outcome)[id].status = approvals[id].status
             \/ /\ Consumed(approvals, id, outcome)[id].status = "expired"
                /\ approvals[id].status # "consumed"
    BY <1>1, <1>2, ConsumeEffect
  <1> HIDE DEF outcome
  <1>4. /\ IsStore(approvals')
        /\ DOMAIN approvals' = DOMAIN approvals
        /\ \A i \in DOMAIN approvals :
             /\ i # id => approvals'[i] = approvals[i]
             /\ SameTerms(approvals'[i], approvals[i])
    BY <1>2, <1>3
  <1>5. /\ outbox' \in [Processes -> SUBSET Events]
        /\ outbox'[p] = {Event(IF outcome = "ok" THEN "consumed" ELSE "failed", id)}
        /\ \A q \in Processes \ {p} : outbox'[q] = outbox[q]
    BY <1>1, <1>2, ToEmitEffect DEF Actions, IsStore
  <1>6. ServiceTypeOK'
    BY <1>1, <1>2, <1>4, <1>5 DEF ServiceTypeOK
  <1>7. OneApprovalPerKey'
    BY <1>1, <1>4 DEF OneApprovalPerKey, SameTerms
  <1>8. CASE outcome = "ok"
    <2>1. /\ approvals[id].status = "approved"
          /\ approvals'[id].status = "consumed"
      BY <1>2, <1>3, <1>8
    <2>2. /\ ~(wins[id] > 0)
          /\ \A q \in Processes : ~Holding(q, id)
          /\ id \notin refused
      BY <2>1 DEF ServiceIInv, Spent, Void, ConsumedInFile
    <2>3. wins[id] = 0
      BY <1>1, <2>2 DEF ServiceTypeOK
    <2>4. \A i \in ApprovalIds :
            /\ ConsumedInFile(i) => ConsumedInFile(i)'
            /\ i = id => ConsumedInFile(i)'
      BY <1>2, <1>4, <2>1 DEF ConsumedInFile
    <2>5. /\ success'[p] = id
          /\ \A q \in Processes \ {p} : success'[q] = success[q]
      BY <1>1, <1>2, <1>8 DEF ServiceTypeOK
    <2>6. \A q \in Processes, i \in ApprovalIds :
            /\ Holding(q, i)' => \/ q # p /\ Holding(q, i)
                                 \/ q = p /\ i = id
            /\ Emitting(q, i)' => Emitting(q, i) \/ i = id
            /\ Rejecting(q, i)' => Rejecting(q, i)
            /\ q = p /\ i = id => Emitting(q, i)'
            /\ q # p => (Emitting(q, i)' <=> Emitting(q, i))
      <3>1. outbox'[p] = {Event("consumed", id)}
        BY <1>5, <1>8
      <3>2. QED
        BY <1>5, <2>5, <3>1 DEF Holding, Emitting, Rejecting, Event
    <2>7. Spent'
      BY <1>2, <2>2, <2>3, <2>4, <2>6 DEF ServiceIInv, Spent
    <2>8. Told'
      BY <1>2, <2>6 DEF ServiceIInv, Told, Emitted
    <2>9. EvidenceOfFile'
      BY <1>2, <2>4, <2>6 DEF ServiceIInv, EvidenceOfFile
    <2>10. Void'
      BY <1>2, <1>4, <2>2 DEF ServiceIInv, Void
    <2>11. InOneCall'
      BY <1>2, <2>5 DEF ServiceIInv, InOneCall, Consume, Free
    <2>12. QED
      BY <1>2, <1>6, <1>7, <2>7, <2>8, <2>9, <2>10, <2>11 DEF ServiceIInv, OneSuccess
  <1>9. CASE outcome # "ok"
    <2>1. \/ approvals'[id].status = approvals[id].status
          \/ /\ approvals'[id].status = "expired"
             /\ approvals[id].status # "consumed"
      BY <1>2, <1>3, <1>9
    <2>2. \A i \in DOMAIN approvals :
            /\ ConsumedInFile(i) => ConsumedInFile(i)'
            /\ Voided(i) => Voided(i)'
      BY <1>4, <2>1 DEF ConsumedInFile, Voided
    <2>3. success' = success
      BY <1>1, <1>2, <1>9 DEF ServiceTypeOK
    <2>4. OutboxesKept
      BY <1>1, <1>2, <1>9, <2>3, ToEmitKeeps DEF Actions
    <2>5. QED
      BY <1>2, <1>6, <1>7, <2>2, <2>4, TameStep
  <1>10. QED BY <1>8, <1>9

\* Emission moves an event from an outbox to the evidence, or past it.
LEMMA EmitStep ==
  ASSUME ServiceIInv, NEW p \in Processes, NEW e \in outbox[p], Emit(p, e)
  PROVE  ServiceIInv'
  <1>1. ServiceTypeOK /\ e \in Events
    BY DEF ServiceIInv, ServiceTypeOK
  <1>2. /\ outbox' = [outbox EXCEPT ![p] = @ \ {e}]
        /\ evidence' \in {evidence, evidence \cup {e}}
        /\ deadLetters' \in {deadLetters, deadLetters \cup {e}}
        /\ evidence \cup deadLetters \cup {e} = evidence' \cup deadLetters'
        /\ UNCHANGED <<approvals, clock, call, success, wins, refused, grants>>
    BY DEF Emit
  <1>3. ServiceTypeOK'
    BY <1>1, <1>2 DEF ServiceTypeOK
  <1>4. \A q \in Processes, i \in ApprovalIds :
          /\ Holding(q, i)' <=> Holding(q, i)
          /\ Emitting(q, i)' => Emitting(q, i)
          /\ Rejecting(q, i)' => Rejecting(q, i)
          /\ Emitting(q, i) => Emitting(q, i)' \/ e = Event("consumed", i)
    BY <1>1, <1>2 DEF Holding, Emitting, Rejecting, ServiceTypeOK
  <1>5. \A i \in ApprovalIds :
          /\ ConsumedInFile(i)' <=> ConsumedInFile(i)
          /\ Emitted(i) \/ e = Event("consumed", i) => Emitted(i)'
          /\ e = Event("consumed", i) => Emitting(p, i)
          /\ e = Event("rejected", i) => Rejecting(p, i)
    BY <1>2 DEF ConsumedInFile, Emitted, Emitting, Rejecting
  <1>6. Spent'
    BY <1>2, <1>4, <1>5 DEF ServiceIInv, Spent
  <1>7. Told'
    BY <1>2, <1>4, <1>5 DEF ServiceIInv, Told
  <1>8. EvidenceOfFile'
    BY <1>2, <1>4, <1>5 DEF ServiceIInv, EvidenceOfFile
  <1>9. Void' /\ OneSuccess' /\ OneApprovalPerKey' /\ InOneCall'
    BY <1>2 DEF ServiceIInv, Void, OneSuccess, OneApprovalPerKey, InOneCall
  <1>10. QED BY <1>3, <1>6, <1>7, <1>8, <1>9 DEF ServiceIInv

\* The caller is told when nothing is left to emit: the event of its
\* consumption is through the evidence path, and nobody was told before.
LEMMA TellSuccessStep ==
  ASSUME ServiceIInv, NEW p \in Processes, TellSuccess(p)
  PROVE  ServiceIInv'
  <1> DEFINE id == success[p]
  <1>1. /\ ServiceTypeOK /\ id \in ApprovalIds
        /\ outbox[p] = {}
        /\ success' = [success EXCEPT ![p] = Unset]
        /\ wins' = [wins EXCEPT ![id] = @ + 1]
        /\ UNCHANGED <<approvals, clock, call, outbox, evidence, deadLetters, refused, grants>>
    BY DEF ServiceIInv, ServiceTypeOK, TellSuccess
  <1>2. Holding(p, id)
    BY DEF TellSuccess, Holding
  <1>3. /\ ConsumedInFile(id) /\ wins[id] = 0 /\ Emitted(id)
        /\ \A q \in Processes : Holding(q, id) => q = p
    BY <1>1, <1>2 DEF ServiceIInv, Spent, Told, Emitting
  <1> HIDE DEF id
  <1>4. /\ wins'[id] = 1
        /\ \A i \in ApprovalIds \ {id} : wins'[i] = wins[i]
    BY <1>1, <1>3 DEF ServiceTypeOK
  <1>5. ServiceTypeOK'
    BY <1>1 DEF ServiceTypeOK
  <1>6. \A q \in Processes, i \in ApprovalIds :
          Holding(q, i)' => Holding(q, i) /\ q # p
    BY <1>1 DEF Holding, ServiceTypeOK
  <1>7. \A i \in ApprovalIds :
          /\ ConsumedInFile(i)' <=> ConsumedInFile(i)
          /\ Emitted(i)' <=> Emitted(i)
          /\ \A q \in Processes : /\ Emitting(q, i)' <=> Emitting(q, i)
                                  /\ Rejecting(q, i)' <=> Rejecting(q, i)
    BY <1>1 DEF ConsumedInFile, Emitted, Emitting, Rejecting
  <1>8. Spent'
    <2> SUFFICES ASSUME NEW i \in ApprovalIds
                 PROVE  /\ wins'[i] > 0 => ConsumedInFile(i)'
                        /\ \A q \in Processes :
                             Holding(q, i)' => ConsumedInFile(i)' /\ wins'[i] = 0
                        /\ \A q, r \in Processes : Holding(q, i)' /\ Holding(r, i)' => q = r
      BY DEF Spent
    <2>1. CASE i = id
      BY <1>3, <1>6, <1>7, <2>1
    <2>2. CASE i # id
      BY <1>4, <1>6, <1>7, <2>2 DEF ServiceIInv, Spent
    <2>3. QED BY <2>1, <2>2
  <1>9. Told'
    BY <1>3, <1>4, <1>6, <1>7 DEF ServiceIInv, Told
  <1>10. EvidenceOfFile' /\ Void' /\ OneApprovalPerKey'
    BY <1>1, <1>7 DEF ServiceIInv, EvidenceOfFile, Void, OneApprovalPerKey
  <1>11. OneSuccess' /\ InOneCall'
    BY <1>1, <1>4 DEF ServiceIInv, OneSuccess, InOneCall, ServiceTypeOK
  <1>12. QED BY <1>5, <1>8, <1>9, <1>10, <1>11 DEF ServiceIInv

\* A caller that dies loses its outbox; nobody is told, nothing is recorded.
LEMMA AbandonStep ==
  ASSUME ServiceIInv, NEW p \in Processes, Abandon(p)
  PROVE  ServiceIInv'
  <1>1. ServiceTypeOK'
    BY DEF ServiceIInv, ServiceTypeOK, Abandon
  <1>2. OutboxesKept
    <2>1. /\ outbox'[p] = {} /\ success'[p] = Unset /\ call'[p] = Unset
          /\ \A q \in Processes \ {p} : call'[q] = call[q]
          /\ \A q \in Processes \ {p} : outbox'[q] = outbox[q] /\ success'[q] = success[q]
      BY DEF ServiceIInv, ServiceTypeOK, Abandon
    <2>2. QED BY <2>1 DEF OutboxesKept, Holding, Emitting, Rejecting
  <1>3. QED
    BY <1>1, <1>2, FileUnchanged DEF Abandon

\* The clock does not occur in the invariant but in its type.
LEMMA TickStep ==
  ASSUME ServiceIInv, ServiceTick
  PROVE  ServiceIInv'
  <1>1. ServiceTypeOK'
    BY DEF ServiceIInv, ServiceTypeOK, ServiceTick, Times
  <1>2. QED
    BY <1>1, FileUnchanged, SameOutboxes DEF ServiceTick

\* Every step of the service preserves the inductive invariant.
LEMMA NextIInv ==
  ASSUME ServiceIInv, [ServiceNext]_serviceVars
  PROVE  ServiceIInv'
  <1>1. CASE ServiceNext
    BY <1>1, BeginRequestStep, CommitRequestStep, GrantStep, RejectStep,
       ConsumeUnknownStep, ConsumeStep, SweepStep, EmitStep, TellSuccessStep, AbandonStep,
       TickStep
    DEF ServiceNext
  <1>2. CASE UNCHANGED serviceVars
    <2>1. ServiceTypeOK'
      BY <1>2 DEF ServiceIInv, ServiceTypeOK, serviceVars, Times
    <2>2. QED
      BY <1>2, <2>1, FileUnchanged, SameOutboxes DEF serviceVars
  <1>3. QED BY <1>1, <1>2

(***************************************************************************)
(* What a step does to the file, seen as the one-time authorizations it    *)
(* stands for. Every step draws one, authorizes one with the grant on      *)
(* record, spends one, or voids any number of open ones (none, when the    *)
(* file is left alone); the terms an approval was requested with stay.     *)
(***************************************************************************)
OthersKeep(id) == \A i \in ApprovalIds \ {id} : AuthOf(i)' = AuthOf(i)

DrawnIn(id) ==
  AuthOf(id) = "undrawn" /\ AuthOf(id)' = "held" /\ OthersKeep(id)

AuthorizedIn(id) ==
  AuthOf(id) = "held" /\ AuthOf(id)' = "authorized" /\ OthersKeep(id)

SpentIn(id) ==
  AuthOf(id) = "authorized" /\ AuthOf(id)' = "spent" /\ OthersKeep(id)

VoidedSome ==
  \A i \in ApprovalIds :
    \/ AuthOf(i)' = AuthOf(i)
    \/ AuthOf(i) \in {"held", "authorized"} /\ AuthOf(i)' = "void"

Moves ==
  \/ \E id \in ApprovalIds : DrawnIn(id) \/ AuthorizedIn(id) \/ SpentIn(id)
  \/ VoidedSome

TermsStay ==
  \A i \in DOMAIN approvals :
    i \in DOMAIN approvals' /\ SameTerms(approvals'[i], approvals[i])

GrantOnRecord(id) ==
  \E g \in grants : g.id = id /\ (approvals[id].justify => g.justified)

FileStep ==
  /\ TermsStay
  /\ Moves
  /\ grants \subseteq grants'
  /\ \A id \in ApprovalIds : AuthorizedIn(id) => GrantOnRecord(id)'

\* An approval in the file stands for a drawn authorization.
LEMMA AuthOfDrawn ==
  ASSUME IsStore(approvals), NEW i \in DOMAIN approvals
  PROVE  /\ i \in ApprovalIds
         /\ AuthOf(i) = "held" <=> approvals[i].status = "pending"
         /\ AuthOf(i) = "authorized" <=> approvals[i].status = "approved"
         /\ AuthOf(i) = "spent" <=> approvals[i].status = "consumed"
         /\ AuthOf(i) = "void" <=> approvals[i].status \in {"rejected", "expired"}
         /\ AuthOf(i) # "undrawn"
  <1>1. i \in ApprovalIds /\ approvals[i].status \in Statuses
    BY DEF IsStore, Approval
  <1>2. QED BY <1>1 DEF AuthOf, Statuses

\* What equal statuses say of the authorizations.
LEMMA SameAuth ==
  ASSUME IsStore(approvals), NEW i, i \in DOMAIN approvals <=> i \in DOMAIN approvals',
         i \in DOMAIN approvals => approvals'[i].status = approvals[i].status
  PROVE  AuthOf(i)' = AuthOf(i)
  <1>1. CASE i \notin DOMAIN approvals
    BY <1>1 DEF AuthOf
  <1>2. CASE i \in DOMAIN approvals
    <2>1. approvals[i].status \in Statuses
      BY <1>2 DEF IsStore, Approval
    <2>2. QED BY <1>2, <2>1 DEF AuthOf, Statuses
  <1>3. QED BY <1>1, <1>2

\* A step that leaves the file alone voids nothing.
LEMMA FileAlone ==
  ASSUME IsStore(approvals), UNCHANGED approvals
  PROVE  TermsStay /\ VoidedSome
  BY SameAuth DEF TermsStay, VoidedSome, SameTerms

\* What voids some, and nothing else, authorizes none.
LEMMA VoidingAuthorizesNone ==
  ASSUME VoidedSome, NEW id \in ApprovalIds
  PROVE  ~AuthorizedIn(id)
  BY DEF VoidedSome, AuthorizedIn

\* A new approval draws its token.
LEMMA PutMoves ==
  ASSUME IsStore(approvals), NEW id \in ApprovalIds \ DOMAIN approvals, NEW a,
         a.status = "pending", approvals' = Put(approvals, id, a)
  PROVE  TermsStay /\ DrawnIn(id)
  <1>1. /\ DOMAIN approvals' = DOMAIN approvals \cup {id}
        /\ approvals'[id].status = "pending"
        /\ \A i \in DOMAIN approvals : approvals'[i] = approvals[i]
    BY DEF Put
  <1>2. AuthOf(id) = "undrawn"
    BY DEF AuthOf
  <1>3. AuthOf(id)' = "held"
    BY <1>1 DEF AuthOf
  <1>4. OthersKeep(id)
    BY <1>1, SameAuth DEF OthersKeep
  <1>5. QED BY <1>1, <1>2, <1>3, <1>4 DEF TermsStay, DrawnIn, SameTerms

\* A grant authorizes what is held, or it came too late, or lacks its reason.
LEMMA GrantMoves ==
  ASSUME IsStore(approvals), NEW id \in ApprovalIds, Grantable(approvals, id),
         NEW outcome \in {"justification_required", "expired", "granted"},
         approvals' = Granted(approvals, id, outcome)
  PROVE  /\ TermsStay
         /\ outcome = "granted" => AuthorizedIn(id)
         /\ outcome # "granted" => VoidedSome
  <1>1. id \in DOMAIN approvals /\ approvals[id].status = "pending"
    BY DEF Grantable
  <1>2. /\ DOMAIN approvals' = DOMAIN approvals
        /\ \A i \in DOMAIN approvals :
             /\ i # id => approvals'[i] = approvals[i]
             /\ SameTerms(approvals'[i], approvals[i])
        /\ outcome = "granted" => approvals'[id].status = "approved"
        /\ outcome = "expired" => approvals'[id].status = "expired"
        /\ outcome = "justification_required" => approvals'[id].status = "pending"
    BY GrantEffect
  <1>3. AuthOf(id) = "held"
    BY <1>1, AuthOfDrawn
  <1>4. OthersKeep(id)
    BY <1>2, SameAuth DEF OthersKeep
  <1>5. TermsStay
    BY <1>2 DEF TermsStay
  <1>6. CASE outcome = "granted"
    <2>1. AuthOf(id)' = "authorized"
      BY <1>1, <1>2, <1>6 DEF AuthOf
    <2>2. QED BY <1>3, <1>4, <1>5, <1>6, <2>1 DEF AuthorizedIn
  <1>7. CASE outcome # "granted"
    <2>1. AuthOf(id)' = "void" \/ AuthOf(id)' = "held"
      BY <1>1, <1>2, <1>7 DEF AuthOf
    <2>2. VoidedSome
      BY <1>3, <1>4, <2>1 DEF VoidedSome, OthersKeep
    <2>3. QED BY <1>5, <1>7, <2>2
  <1>8. QED BY <1>6, <1>7

\* A rejection voids one open approval.
LEMMA RejectMoves ==
  ASSUME IsStore(approvals), NEW id \in ApprovalIds, Rejectable(approvals, id),
         approvals' = Rejected(approvals, id)
  PROVE  TermsStay /\ VoidedSome
  <1>1. id \in DOMAIN approvals /\ approvals[id].status \in {"pending", "approved"}
    BY DEF Rejectable
  <1>2. /\ DOMAIN approvals' = DOMAIN approvals
        /\ \A i \in DOMAIN approvals :
             /\ i # id => approvals'[i] = approvals[i]
             /\ SameTerms(approvals'[i], approvals[i])
        /\ approvals'[id].status = "rejected"
    BY RejectEffect
  <1>3. AuthOf(id) \in {"held", "authorized"}
    BY <1>1, AuthOfDrawn
  <1>4. AuthOf(id)' = "void"
    BY <1>1, <1>2 DEF AuthOf
  <1>5. OthersKeep(id)
    BY <1>2, SameAuth DEF OthersKeep
  <1>6. VoidedSome
    BY <1>3, <1>4, <1>5 DEF VoidedSome, OthersKeep
  <1>7. QED BY <1>2, <1>6 DEF TermsStay

\* consume spends an authorized approval, makes one expired, or only counts
\* the attempt.
LEMMA ConsumeMoves ==
  ASSUME IsStore(approvals), clock \in Nat, NEW id \in DOMAIN approvals, NEW b, NEW outcome,
         outcome = ConsumeOutcome(approvals[id], b, clock),
         approvals' = Consumed(approvals, id, outcome)
  PROVE  TermsStay /\ (SpentIn(id) \/ VoidedSome)
  <1>1. /\ DOMAIN approvals' = DOMAIN approvals
        /\ \A i \in DOMAIN approvals :
             /\ i # id => approvals'[i] = approvals[i]
             /\ SameTerms(approvals'[i], approvals[i])
        /\ outcome = "ok" =>
             /\ approvals[id].status = "approved"
             /\ approvals'[id].status = "consumed"
        /\ outcome # "ok" =>
             \/ approvals'[id].status = approvals[id].status
             \/ /\ approvals'[id].status = "expired"
                /\ approvals[id].status # "consumed"
    BY ConsumeEffect
  <1>2. TermsStay
    BY <1>1 DEF TermsStay
  <1>3. OthersKeep(id)
    BY <1>1, SameAuth DEF OthersKeep
  <1>4. CASE outcome = "ok"
    <2>1. AuthOf(id) = "authorized"
      BY <1>1, <1>4, AuthOfDrawn
    <2>2. AuthOf(id)' = "spent"
      BY <1>1, <1>4 DEF AuthOf
    <2>3. QED BY <1>2, <1>3, <2>1, <2>2 DEF SpentIn
  <1>5. CASE outcome # "ok"
    <2>1. CASE approvals'[id].status = approvals[id].status
      <3>1. AuthOf(id)' = AuthOf(id)
        BY <1>1, <2>1, SameAuth
      <3>2. QED BY <1>2, <1>3, <3>1 DEF VoidedSome, OthersKeep
    <2>2. CASE /\ approvals'[id].status = "expired"
               /\ approvals[id].status # "consumed"
      <3>1. AuthOf(id)' = "void"
        BY <1>1, <2>2 DEF AuthOf
      <3>2. AuthOf(id) \in {"held", "authorized", "void"}
        BY <2>2 DEF AuthOf, IsStore, Approval, Statuses
      <3>3. VoidedSome
        BY <1>3, <3>1, <3>2 DEF VoidedSome, OthersKeep
      <3>4. QED BY <1>2, <3>3
    <2>3. QED BY <1>1, <1>5, <2>1, <2>2
  <1>6. QED BY <1>4, <1>5

\* sweep_expired voids any number of open approvals.
LEMMA SweepMoves ==
  ASSUME IsStore(approvals), approvals' = Swept(approvals, clock)
  PROVE  TermsStay /\ VoidedSome
  <1>1. /\ DOMAIN approvals' = DOMAIN approvals
        /\ \A i \in DOMAIN approvals :
             /\ SameTerms(approvals'[i], approvals[i])
             /\ \/ approvals'[i].status = approvals[i].status
                \/ /\ approvals'[i].status = "expired"
                   /\ approvals[i].status \in {"pending", "approved"}
    BY SweepEffect
  <1>2. ASSUME NEW i \in ApprovalIds
        PROVE  \/ AuthOf(i)' = AuthOf(i)
               \/ AuthOf(i) \in {"held", "authorized"} /\ AuthOf(i)' = "void"
    <2>1. CASE i \notin DOMAIN approvals \/ approvals'[i].status = approvals[i].status
      BY <1>1, <2>1, SameAuth
    <2>2. CASE /\ i \in DOMAIN approvals
               /\ approvals'[i].status = "expired"
               /\ approvals[i].status \in {"pending", "approved"}
      BY <1>1, <2>2 DEF AuthOf
    <2>3. QED BY <1>1, <2>1, <2>2
  <1>3. QED BY <1>1, <1>2 DEF TermsStay, VoidedSome

\* A committed request draws one token, or hands out what is there.
LEMMA CommitRequestFile ==
  ASSUME ServiceTypeOK, NEW p \in Processes, CommitRequest(p)
  PROVE  FileStep
  <1>1. IsStore(approvals) /\ grants' = grants
    BY DEF ServiceTypeOK, CommitRequest
  <1>2. ASSUME NEW id \in ApprovalIds, Draw(p, id)
        PROVE  FileStep
    <2> DEFINE r == call[p].req
               a == NewApproval(r.bind, r.key, r.justify, call[p].now)
    <2>1. /\ approvals' = Put(approvals, id, a)
          /\ id \notin DOMAIN approvals
          /\ a.status = "pending"
      BY <1>2 DEF Draw, NewApproval
    <2> HIDE DEF a
    <2>2. TermsStay /\ DrawnIn(id)
      BY <1>1, <2>1, PutMoves
    <2>3. \A i \in ApprovalIds : ~AuthorizedIn(i)
      BY <2>2 DEF DrawnIn, AuthorizedIn, OthersKeep
    <2>4. QED BY <1>1, <2>2, <2>3 DEF FileStep, Moves
  <1>3. CASE Reuse(p)
    <2>1. TermsStay /\ VoidedSome
      BY <1>1, <1>3, FileAlone DEF Reuse
    <2>2. QED BY <1>1, <2>1, VoidingAuthorizesNone DEF FileStep, Moves
  <1>4. QED BY <1>2, <1>3 DEF CommitRequest

\* grant authorizes what is held, and only with its reason when one is asked for.
LEMMA GrantFile ==
  ASSUME ServiceTypeOK, NEW p \in Processes, NEW id \in ApprovalIds,
         NEW justified \in BOOLEAN, Grant(p, id, justified)
  PROVE  FileStep
  <1> DEFINE outcome == GrantOutcome(approvals[id], justified, clock)
  <1>1. /\ IsStore(approvals)
        /\ Grantable(approvals, id) /\ id \in DOMAIN approvals
        /\ approvals' = Granted(approvals, id, outcome)
        /\ grants' = IF outcome = "granted"
                     THEN grants \cup {[id |-> id, justified |-> justified]}
                     ELSE grants
    BY DEF ServiceTypeOK, Grant, Grantable
  <1>2. outcome \in {"justification_required", "expired", "granted"}
    BY DEF GrantOutcome
  <1>3. outcome = "granted" => (approvals[id].justify => justified)
    BY DEF GrantOutcome
  <1> HIDE DEF outcome
  <1>4. /\ TermsStay
        /\ outcome = "granted" => AuthorizedIn(id)
        /\ outcome # "granted" => VoidedSome
    BY <1>1, <1>2, GrantMoves
  <1>5. CASE outcome = "granted"
    <2>1. \A i \in ApprovalIds : AuthorizedIn(i) => i = id
      BY <1>4, <1>5 DEF AuthorizedIn, OthersKeep
    <2>2. approvals'[id].justify => justified
      BY <1>1, <1>3, <1>4, <1>5 DEF TermsStay, SameTerms
    <2>3. [id |-> id, justified |-> justified] \in grants'
      BY <1>1, <1>5
    <2>4. GrantOnRecord(id)'
      BY <2>2, <2>3 DEF GrantOnRecord
    <2>5. QED BY <1>1, <1>4, <1>5, <2>1, <2>4 DEF FileStep, Moves
  <1>6. CASE outcome # "granted"
    BY <1>1, <1>4, <1>6, VoidingAuthorizesNone DEF FileStep, Moves
  <1>7. QED BY <1>5, <1>6

\* reject voids one open approval.
LEMMA RejectFile ==
  ASSUME ServiceTypeOK, NEW p \in Processes, NEW id \in ApprovalIds, Reject(p, id)
  PROVE  FileStep
  <1>1. TermsStay /\ VoidedSome /\ grants' = grants
    BY RejectMoves DEF ServiceTypeOK, Reject
  <1>2. QED BY <1>1, VoidingAuthorizesNone DEF FileStep, Moves

\* consume spends an authorized approval, or voids.
LEMMA ConsumeFile ==
  ASSUME ServiceTypeOK, NEW p \in Processes, NEW id \in ApprovalIds, NEW b \in Bindings,
         Consume(p, id, b)
  PROVE  FileStep
  <1>1. IsStore(approvals) /\ clock \in Nat
    BY ClockAssumption DEF ServiceTypeOK, Times
  <1>2. /\ id \in DOMAIN approvals
        /\ approvals' = Consumed(approvals, id, ConsumeOutcome(approvals[id], b, clock))
        /\ grants' = grants
    BY DEF Consume
  <1>3. TermsStay /\ (SpentIn(id) \/ VoidedSome)
    BY <1>1, <1>2, ConsumeMoves
  <1>4. \A i \in ApprovalIds : ~AuthorizedIn(i)
    BY <1>3, VoidingAuthorizesNone DEF SpentIn, AuthorizedIn, OthersKeep
  <1>5. QED BY <1>2, <1>3, <1>4 DEF FileStep, Moves

\* sweep_expired voids any number of open approvals.
LEMMA SweepFile ==
  ASSUME ServiceTypeOK, NEW p \in Processes, SweepExpired(p)
  PROVE  FileStep
  <1>1. TermsStay /\ VoidedSome /\ grants' = grants
    BY SweepMoves DEF ServiceTypeOK, SweepExpired
  <1>2. QED BY <1>1, VoidingAuthorizesNone DEF FileStep, Moves

\* Every step of the service is a step of the file.
LEMMA NextFile ==
  ASSUME ServiceTypeOK, [ServiceNext]_serviceVars
  PROVE  FileStep
  <1>1. ASSUME UNCHANGED <<approvals, grants>>
        PROVE  FileStep
    <2>1. TermsStay /\ VoidedSome
      BY <1>1, FileAlone DEF ServiceTypeOK
    <2>2. QED BY <1>1, <2>1, VoidingAuthorizesNone DEF FileStep, Moves
  <1>2. CASE ServiceNext
    <2>1. CASE ServiceTick
      BY <1>1, <2>1 DEF ServiceTick
    <2>2. ASSUME NEW p \in Processes,
                 \/ \E r \in Requests : BeginRequest(p, r)
                 \/ \E id \in ApprovalIds : ConsumeUnknown(p, id)
                 \/ \E e \in outbox[p] : Emit(p, e)
                 \/ TellSuccess(p) \/ Abandon(p)
          PROVE  FileStep
      BY <1>1, <2>2 DEF BeginRequest, ConsumeUnknown, Emit, TellSuccess, Abandon
    <2>3. QED
      BY <1>2, <2>1, <2>2, CommitRequestFile, GrantFile, RejectFile, ConsumeFile, SweepFile
      DEF ServiceNext
  <1>3. CASE UNCHANGED serviceVars
    BY <1>1, <1>3 DEF serviceVars
  <1>4. QED BY <1>2, <1>3

\* What stands authorized or spent in the file has its grant on record. This
\* is inductive only with the steps of the file: an approval gets to approved
\* by a grant alone, and nothing brings one back from void.
GrantsOnRecord ==
  \A id \in ApprovalIds : AuthOf(id) \in {"authorized", "spent"} => GrantOnRecord(id)

\* Whatever the file does, what is authorized or spent after it has its grant.
LEMMA GrantsOnRecordStep ==
  ASSUME FileStep, GrantsOnRecord
  PROVE  GrantsOnRecord'
  <1> SUFFICES ASSUME NEW id \in ApprovalIds,
                      AuthOf(id)' \in {"authorized", "spent"}
               PROVE  GrantOnRecord(id)'
    BY DEF GrantsOnRecord
  <1>1. CASE AuthOf(id) \in {"authorized", "spent"}
    <2>1. approvals'[id].justify = approvals[id].justify
      BY <1>1 DEF FileStep, TermsStay, SameTerms, AuthOf
    <2>2. PICK g \in grants : g.id = id /\ (approvals[id].justify => g.justified)
      BY <1>1 DEF GrantsOnRecord, GrantOnRecord
    <2>3. QED BY <2>1, <2>2 DEF GrantOnRecord, FileStep
  <1>2. CASE AuthOf(id) \notin {"authorized", "spent"}
    <2>1. AuthorizedIn(id)
      BY <1>2 DEF FileStep, Moves, VoidedSome, DrawnIn, AuthorizedIn, SpentIn, OthersKeep
    <2>2. QED BY <2>1 DEF FileStep
  <1>3. QED BY <1>1, <1>2

(***************************************************************************)
(* The theorems.                                                           *)
(***************************************************************************)

\* The inductive invariant holds in every reachable state.
THEOREM ServiceInvariance == ServiceSpec => []ServiceIInv
  BY ServiceInitIInv, NextIInv, PTL DEF ServiceSpec

\* Every variable of the service keeps its type.
THEOREM ServiceTypeCorrect == ServiceSpec => []ServiceTypeOK
  <1>1. ServiceIInv => ServiceTypeOK BY DEF ServiceIInv
  <1>2. QED BY <1>1, ServiceInvariance, PTL

\* consume reports success for an approval to one caller at most.
THEOREM AtMostOneSuccess == ServiceSpec => []OneSuccess
  <1>1. ServiceIInv => OneSuccess BY DEF ServiceIInv
  <1>2. QED BY <1>1, ServiceInvariance, PTL

\* The evidence agrees with the file and with what callers were told, whatever
\* died between a commit, its event and the answer.
THEOREM EvidenceIsTrue == ServiceSpec => []EvidenceAgrees
  <1>1. ServiceIInv => EvidenceAgrees
    BY DEF ServiceIInv, EvidenceOfFile, Told, Emitted, Void, ConsumedInFile, EvidenceAgrees
  <1>2. QED BY <1>1, ServiceInvariance, PTL

\* An approval on which a reject was committed is never reported consumed.
THEOREM RejectedStaysRejected == ServiceSpec => []RejectionIsFinal
  <1>1. ServiceIInv => RejectionIsFinal
    BY DEF ServiceIInv, ServiceTypeOK, Spent, Void, ConsumedInFile, RejectionIsFinal
  <1>2. QED BY <1>1, ServiceInvariance, PTL

\* Requests under one key never hold two approvals.
THEOREM KeysAreUnique == ServiceSpec => []OneApprovalPerKey
  <1>1. ServiceIInv => OneApprovalPerKey BY DEF ServiceIInv
  <1>2. QED BY <1>1, ServiceInvariance, PTL

\* What is reported consumed was granted, with a justification when the
\* policy's obligations asked for one.
THEOREM ReleasedWasGranted == ServiceSpec => []ReleaseWasGranted
  <1>1. ServiceInit => GrantsOnRecord
    BY DEF ServiceInit, EmptyStore, GrantsOnRecord, AuthOf
  <1>2. ServiceIInv /\ ServiceIInv' /\ GrantsOnRecord /\ [ServiceNext]_serviceVars => GrantsOnRecord'
    BY NextFile, GrantsOnRecordStep DEF ServiceIInv
  <1>3. ServiceIInv /\ GrantsOnRecord => ReleaseWasGranted
    <2> SUFFICES ASSUME ServiceIInv, GrantsOnRecord, NEW id \in ApprovalIds, wins[id] > 0
                 PROVE  \E g \in grants :
                          g.id = id /\ (approvals[id].justify => g.justified)
      BY DEF ReleaseWasGranted
    <2>1. ConsumedInFile(id)
      BY DEF ServiceIInv, Spent
    <2>2. AuthOf(id) = "spent"
      BY <2>1, AuthOfDrawn DEF ServiceIInv, ServiceTypeOK, ConsumedInFile
    <2>3. QED BY <2>2 DEF GrantsOnRecord, GrantOnRecord
  <1>4. QED BY <1>1, <1>2, <1>3, ServiceInvariance, PTL DEF ServiceSpec

\* A step of the file is a step of the one-time authorizations, or none.
LEMMA StepRefines ==
  ASSUME Moves
  PROVE  [OneTime!Next]_[id \in ApprovalIds |-> AuthOf(id)]
  <1> DEFINE auth == [id \in ApprovalIds |-> AuthOf(id)]
  <1>1. ASSUME NEW id \in ApprovalIds, NEW from, NEW to,
               AuthOf(id) = from, AuthOf(id)' = to, OthersKeep(id)
        PROVE  auth[id] = from /\ auth' = [auth EXCEPT ![id] = to]
    BY <1>1 DEF OthersKeep
  <1>2. ASSUME NEW id \in ApprovalIds, DrawnIn(id) PROVE OneTime!Next
    <2>1. OneTime!Draw(id)
      BY <1>1, <1>2 DEF DrawnIn, OneTime!Draw, OneTime!Move
    <2>2. QED BY <2>1 DEF OneTime!Next
  <1>3. ASSUME NEW id \in ApprovalIds, AuthorizedIn(id) PROVE OneTime!Next
    <2>1. OneTime!Authorize(id)
      BY <1>1, <1>3 DEF AuthorizedIn, OneTime!Authorize, OneTime!Move
    <2>2. QED BY <2>1 DEF OneTime!Next
  <1>4. ASSUME NEW id \in ApprovalIds, SpentIn(id) PROVE OneTime!Next
    <2>1. OneTime!Spend(id)
      BY <1>1, <1>4 DEF SpentIn, OneTime!Spend, OneTime!Move
    <2>2. QED BY <2>1 DEF OneTime!Next
  <1>5. ASSUME VoidedSome PROVE OneTime!Next
    <2> DEFINE S == {i \in ApprovalIds : AuthOf(i)' # AuthOf(i)}
    <2>1. \A t \in S : auth[t] \in {"held", "authorized"} /\ AuthOf(t)' = "void"
      BY <1>5 DEF VoidedSome
    <2>2. auth' = [t \in ApprovalIds |-> IF t \in S THEN "void" ELSE auth[t]]
      BY <2>1
    <2>3. OneTime!Void(S)
      BY <2>1, <2>2 DEF OneTime!Void
    <2>4. S \in SUBSET ApprovalIds
      OBVIOUS
    <2>5. QED BY <2>3, <2>4 DEF OneTime!Next
  <1>6. QED BY <1>2, <1>3, <1>4, <1>5 DEF Moves

\* The approval file, its transactions and what surrounds them implement the
\* one-time authorization that APPROVAL_MODEL.md promises.
THEOREM Refinement == ServiceSpec => ImplementsOneTime
  <1>1. ServiceInit => OneTime!Init
    BY DEF ServiceInit, EmptyStore, AuthOf, OneTime!Init
  <1>2. ServiceTypeOK /\ [ServiceNext]_serviceVars =>
          [OneTime!Next]_[id \in ApprovalIds |-> AuthOf(id)]
    BY NextFile, StepRefines DEF FileStep
  <1>3. QED
    BY <1>1, <1>2, ServiceTypeCorrect, PTL DEF ServiceSpec, ImplementsOneTime, OneTime!Spec

-----------------------------------------------------------------------------
(* Hook processes: one release for each approval, releases approved for    *)
(* what they release, and evidence before an answer.                       *)

(***************************************************************************)
(* The inductive invariant, in parts.                                      *)
(***************************************************************************)
Working == {"lookup", "decide", "hold", "enforce", "respond"}

\* A call that has loaded a bundle knows what it wants to do.
Loaded ==
  \A c \in Calls :
    /\ stage[c] \in Working => seq[c] # 0
    /\ seq[c] # 0 => action[c] \in ToolActions

\* Every approval in the file is for a tool action, under a policy there was.
HeldForActions ==
  \A id \in DOMAIN approvals :
    /\ ActionIn(approvals[id].bind) \in ToolActions
    /\ approvals[id].bind.seq \in PolicySequences

\* Nothing is enforced before its stage, and only what is released is allowed.
EnforcedInTurn ==
  \A c \in Calls :
    /\ stage[c] \in {"idle", "lookup", "decide", "hold", "enforce"} => pep[c] = Unset
    /\ stage[c] # "done" => answer[c] = Unset
    /\ answer[c] = "allow" => pep[c] = "released"
    /\ pep[c] # Unset => seq[c] # 0

ReleasedByApproval(c) == pep[c] = "released" /\ EffectOf(c) = "REQUIRE_APPROVAL"

\* A release by approval has consumed an approval of its action and policy,
\* which no other call has consumed.
ReleasesConsume ==
  /\ \A c \in Calls : ReleasedByApproval(c) =>
       /\ resumed[c] \in DOMAIN approvals
       /\ approvals[resumed[c]].status = "consumed"
       /\ SameAction(approvals[resumed[c]].bind, action[c])
       /\ approvals[resumed[c]].bind.seq = seq[c]
  /\ \A c, d \in Calls :
       ReleasedByApproval(c) /\ ReleasedByApproval(d) /\ resumed[c] = resumed[d] => c = d

\* A rejection is still in the file.
RefusedIsVoid ==
  \A id \in refused :
    id \in DOMAIN approvals /\ approvals[id].status \in {"rejected", "expired"}

\* What a call has recorded, or will before it does anything else.
Covered(c, k) ==
  \/ [call |-> c, kind |-> k] \in chain
  \/ \E i \in DOMAIN todo[c] : todo[c][i] = k

IsAlert(c, k) == \E i \in DOMAIN VerdictOn(c).alerts : VerdictOn(c).alerts[i] = k

\* What must be covered in each stage, and in the chain with an answer.
Owed(c, k) ==
  \/ /\ stage[c] \in {"decide", "hold", "enforce", "respond"} \/ answer[c] = "allow"
     /\ k \in {"tool_request", "capability.checked"}
  \/ /\ stage[c] \in {"hold", "enforce", "respond"} \/ answer[c] = "allow"
     /\ k = "decision.created" \/ IsAlert(c, k)
  \/ /\ stage[c] = "respond" \/ answer[c] = "allow"
     /\ pep[c] = "released"
     /\ \/ k = "pep.enforced"
        \/ k = "approval.consumed" /\ EffectOf(c) = "REQUIRE_APPROVAL"

\* What is recorded stays in the chain: of all events only a failure of the
\* approval service may be found invalid and left out.
Lasting == Kinds \ {"approval.failed"}

EvidenceFollows ==
  \A c \in Calls :
    /\ \A k \in Lasting : Owed(c, k) => Covered(c, k)
    /\ answer[c] = "allow" => todo[c] = <<>>

HInv ==
  /\ TypeOK
  /\ Loaded
  /\ HeldForActions
  /\ EnforcedInTurn
  /\ ReleasesConsume
  /\ RefusedIsVoid
  /\ EvidenceFollows

(***************************************************************************)
(* The file: what a step of anybody does to it.                            *)
(***************************************************************************)
\* A loaded call presents a binding, and asks under a key.
LEMMA BindingType ==
  ASSUME TypeOK, Loaded, NEW c \in Calls, seq[c] # 0
  PROVE  /\ action[c] \in ToolActions /\ seq[c] \in PolicySequences
         /\ BindingOf(c) \in Bindings /\ KeyOf(c) \in Keys
         /\ VerdictOn(c) \in Verdicts
  <1>1. action[c] \in ToolActions /\ seq[c] \in PolicySequences
    BY DEF Loaded, TypeOK
  <1>2. KeyOf(c) \in Keys /\ VerdictOn(c) \in Verdicts
    BY <1>1, BindingsAreClosed, RuntimeAssumption DEF KeyOf, VerdictOn
  <1>3. CASE resumed[c] \in DOMAIN approvals
    <2>1. approvals[resumed[c]].bind \in Bindings
      BY <1>3 DEF TypeOK, IsStore, Approval
    <2>2. BindingFor(action[c], AdoptedIds(approvals[resumed[c]].bind), seq[c]) \in Bindings
      BY <1>1, <2>1, BindingsAreClosed
    <2>3. QED BY <1>1, <1>2, <1>3, <2>2 DEF BindingOf, IdsOf
  <1>4. CASE resumed[c] \notin DOMAIN approvals
    BY <1>1, <1>2, <1>4, BindingsAreClosed DEF BindingOf, IdsOf
  <1>5. QED BY <1>1, <1>2, <1>3, <1>4

\* What was held keeps its action and its policy.
LEMMA HeldForward ==
  ASSUME HeldForActions, Forward(approvals, approvals'),
         DOMAIN approvals' = DOMAIN approvals
  PROVE  HeldForActions'
  BY DEF HeldForActions, Forward, SameTerms, ActionIn

\* A hold adds one approval for what its call wants, or touches nothing.
LEMMA HoldFile ==
  ASSUME TypeOK, Loaded, HeldForActions, NEW c \in Calls, Hold(c)
  PROVE  Forward(approvals, approvals') /\ HeldForActions'
  <1>1. IsStore(approvals) /\ clock \in Nat /\ seq[c] # 0
    BY RuntimeAssumption, ClockAssumption DEF TypeOK, Times, Loaded, Hold, At, Working
  <1>2. CASE approvals' = approvals
    BY <1>1, <1>2, StayForward, HeldForward
  <1>3. ASSUME NEW id \in ApprovalIds \ DOMAIN approvals,
               approvals' = Put(approvals, id,
                                NewApproval(BindingOf(c), KeyOf(c), VerdictOn(c).justify, clock))
        PROVE  Forward(approvals, approvals') /\ HeldForActions'
    <2> DEFINE a == NewApproval(BindingOf(c), KeyOf(c), VerdictOn(c).justify, clock)
    <2>1. VerdictOn(c).justify \in BOOLEAN
      BY <1>1, BindingType DEF Verdicts
    <2>2. a \in Approval
      BY <1>1, <2>1, BindingType, NewApprovalType
    <2>3. a.bind = BindingOf(c)
      BY DEF NewApproval
    <2>4. ActionIn(BindingOf(c)) \in ToolActions /\ BindingOf(c).seq \in PolicySequences
      <3>1. action[c] \in ToolActions /\ seq[c] \in PolicySequences
        BY <1>1, BindingType
      <3>2. ActionIn(BindingOf(c)) = action[c] /\ BindingOf(c).seq = seq[c]
        BY <3>1, RuntimeAssumption DEF BindingOf, BindingFor, ActionIn
      <3>3. QED BY <3>1, <3>2
    <2> HIDE DEF a
    <2>5. Forward(approvals, Put(approvals, id, a))
      BY <1>1, <2>2, PutForward
    <2>6. /\ DOMAIN approvals' = DOMAIN approvals \cup {id}
          /\ approvals'[id] = a
          /\ \A i \in DOMAIN approvals : approvals'[i] = approvals[i]
      BY <1>3 DEF Put, a
    <2>7. HeldForActions'
      BY <2>3, <2>4, <2>6 DEF HeldForActions
    <2>8. QED BY <1>3, <2>5, <2>7 DEF a
  <1>4. QED BY <1>2, <1>3 DEF Hold

\* Enforcement consumes the approval that is resumed, or touches nothing.
LEMMA EnforceFile ==
  ASSUME TypeOK, HeldForActions, NEW c \in Calls, Enforce(c)
  PROVE  Forward(approvals, approvals') /\ HeldForActions'
  <1>1. IsStore(approvals) /\ clock \in Nat
    BY RuntimeAssumption, ClockAssumption DEF TypeOK, Times
  <1>2. CASE approvals' = approvals
    BY <1>1, <1>2, StayForward, HeldForward
  <1>3. CASE /\ resumed[c] \in DOMAIN approvals
             /\ approvals' = Consumed(approvals, resumed[c],
                   ConsumeOutcome(approvals[resumed[c]], BindingOf(c), clock))
    <2>1. Forward(approvals, approvals')
      BY <1>1, <1>3, ConsumeForward
    <2>2. DOMAIN approvals' = DOMAIN approvals
      BY <1>3 DEF Consumed
    <2>3. QED BY <2>1, <2>2, HeldForward
  <1>4. QED
    BY <1>2, <1>3 DEF Enforce, EnforceWithoutApproval, EnforceWithApproval

\* The operator works on open approvals.
LEMMA OperatorFile ==
  ASSUME TypeOK, HeldForActions,
         \/ \E id \in ApprovalIds : OperatorRejects(id) \/ \E justified \in BOOLEAN : OperatorGrants(id, justified)
         \/ Sweep
  PROVE  Forward(approvals, approvals') /\ HeldForActions'
  <1>1. IsStore(approvals)
    BY DEF TypeOK
  <1>2. ASSUME NEW id \in ApprovalIds, OperatorRejects(id)
        PROVE  Forward(approvals, approvals') /\ DOMAIN approvals' = DOMAIN approvals
    BY <1>1, <1>2, OperatorForward DEF OperatorRejects, Rejected
  <1>3. ASSUME NEW id \in ApprovalIds, NEW justified \in BOOLEAN, OperatorGrants(id, justified)
        PROVE  Forward(approvals, approvals') /\ DOMAIN approvals' = DOMAIN approvals
    <2> DEFINE outcome == GrantOutcome(approvals[id], justified, clock)
    <2>1. outcome \in {"justification_required", "expired", "granted"}
      BY DEF GrantOutcome
    <2>2. Grantable(approvals, id) /\ approvals' = Granted(approvals, id, outcome)
      BY <1>3 DEF OperatorGrants
    <2> HIDE DEF outcome
    <2>3. DOMAIN Granted(approvals, id, outcome) = DOMAIN approvals
      BY <2>1 DEF Granted
    <2>4. QED BY <1>1, <2>1, <2>2, <2>3, OperatorForward
  <1>4. CASE Sweep
    <2>1. DOMAIN approvals' = DOMAIN approvals
      BY <1>4 DEF Sweep, Swept
    <2>2. QED BY <1>1, <1>4, <2>1, OperatorForward, HeldForward DEF Sweep
  <1>5. QED BY <1>2, <1>3, <1>4, HeldForward

(***************************************************************************)
(* Types, and what a call knows when it works.                             *)
(***************************************************************************)
LocalType ==
  /\ stage \in [Calls -> Stages]
  /\ action \in [Calls -> ToolActions \cup {Unset}]
  /\ seq \in [Calls -> PolicySequences \cup {0}]
  /\ resumed \in [Calls -> ApprovalIds \cup {Unset, Unknown}]
  /\ todo \in [Calls -> Seq(Kinds)]
  /\ pep \in [Calls -> {"released", "blocked", "awaiting_approval", Unset}]
  /\ answer \in [Calls -> {"allow", "deny", Unset}]
  /\ error \in [Calls -> Errors \cup {Unset}]

\* The alerts of a verdict are events, in a sequence.
LEMMA AlertsType ==
  ASSUME NEW v \in Verdicts
  PROVE  v.alerts \in Seq(Kinds)
  <1>1. \A k \in Alerts : k \in Kinds
    BY DEF Kinds
  <1>2. CASE v.alerts = <<>>
    BY <1>2
  <1>3. ASSUME NEW k \in Alerts, v.alerts = <<k>>
        PROVE  v.alerts \in Seq(Kinds)
    BY <1>1, <1>3
  <1>4. CASE v.alerts = <<"policy_violation", "obligation.high_severity_alert">>
    BY <1>4 DEF Kinds, Alerts
  <1>5. QED BY <1>2, <1>3, <1>4 DEF Verdicts

\* What the stages record is a sequence of events.
LEMMA RecordsType ==
  /\ <<>> \in Seq(Kinds)
  /\ Intake \in Seq(Kinds)
  /\ \A v \in Verdicts : <<"decision.created">> \o v.alerts \in Seq(Kinds)
  /\ <<"approval.requested">> \in Seq(Kinds)
  /\ <<"pep.enforced">> \in Seq(Kinds)
  /\ <<"approval.consumed", "pep.enforced">> \in Seq(Kinds)
  /\ <<"approval.failed", "pep.enforced">> \in Seq(Kinds)
  <1>1. ASSUME NEW v \in Verdicts
        PROVE  <<"decision.created">> \o v.alerts \in Seq(Kinds)
    <2>1. v.alerts \in Seq(Kinds)
      BY AlertsType
    <2>2. <<"decision.created">> \in Seq(Kinds)
      BY DEF Kinds
    <2>3. QED BY <2>1, <2>2
  <1>2. QED BY <1>1 DEF Intake, Kinds

\* A call that is denied by cmd_hook keeps its types.
LEMMA DenyType ==
  ASSUME TypeOK, NEW c \in Calls, NEW why \in Errors, Deny(c, why)
  PROVE  /\ stage' \in [Calls -> Stages] /\ error' \in [Calls -> Errors \cup {Unset}]
         /\ answer' \in [Calls -> {"allow", "deny", Unset}] /\ todo' \in [Calls -> Seq(Kinds)]
  BY RecordsType DEF Deny, Goto, TypeOK, Stages

\* One call: start, lookup and what it records.
LEMMA EarlyType ==
  ASSUME TypeOK, NEW c \in Calls,
         \/ \E a \in ToolActions : Start(c, a)
         \/ \E given \in DOMAIN approvals \cup {Unset, Unknown} : Lookup(c, given)
         \/ Record(c)
  PROVE  LocalType'
  <1>1. ASSUME NEW a \in ToolActions, Start(c, a)
        PROVE  LocalType'
    <2>1. CASE active # 0 /\ Goto(c, "lookup") /\ seq' = [seq EXCEPT ![c] = active]
               /\ UNCHANGED <<todo, answer, error>>
      BY <1>1, <2>1 DEF Start, Goto, TypeOK, LocalType, Stages
    <2>2. CASE Deny(c, "no_active_policy") /\ UNCHANGED seq
      BY <1>1, <2>2, DenyType DEF Start, TypeOK, LocalType, Errors
    <2>3. QED BY <1>1, <2>1, <2>2 DEF Start
  <1>2. ASSUME NEW given \in DOMAIN approvals \cup {Unset, Unknown}, Lookup(c, given)
        PROVE  LocalType'
    <2>1. UNCHANGED <<action, seq, pep>>
      BY <1>2 DEF Lookup
    <2>2. DOMAIN approvals \subseteq ApprovalIds
      BY DEF TypeOK, IsStore
    <2>3. CASE Goto(c, "decide") /\ WillRecord(c, Intake) /\ UNCHANGED <<answer, error>>
               /\ \E id \in ApprovalIds \cup {Unset, Unknown} :
                    resumed' = [resumed EXCEPT ![c] = id]
      BY <2>1, <2>3, RecordsType DEF Goto, WillRecord, TypeOK, LocalType, Stages
    <2>4. CASE Deny(c, "ambiguous_approval") /\ UNCHANGED resumed
      BY <2>1, <2>4, DenyType DEF TypeOK, LocalType, Errors
    <2>5. QED
      BY <1>2, <2>2, <2>3, <2>4 DEF Lookup, ApprovedFor
  <1>3. CASE Record(c)
    <2>1. todo[c] \in Seq(Kinds) /\ todo[c] # <<>>
      BY <1>3 DEF Record, TypeOK
    <2>2. Tail(todo[c]) \in Seq(Kinds)
      BY <2>1
    <2>3. todo' \in [Calls -> Seq(Kinds)]
      BY <1>3, <2>2 DEF Record, TypeOK
    <2>4. QED BY <1>3, <2>3 DEF Record, TypeOK, LocalType
  <1>4. QED BY <1>1, <1>2, <1>3

\* One call: decision, hold, enforcement and answer.
LEMMA LateType ==
  ASSUME TypeOK, Loaded, NEW c \in Calls,
         Decide(c) \/ Hold(c) \/ Enforce(c) \/ Respond(c) \/ Raise(c) \/ Kill(c)
  PROVE  LocalType'
  <1>1. CASE Decide(c)
    <2>1. seq[c] # 0
      BY <1>1 DEF Decide, At, Loaded, Working
    <2>2. <<"decision.created">> \o VerdictOn(c).alerts \in Seq(Kinds)
      BY <2>1, BindingType, RecordsType
    <2>3. QED
      BY <1>1, <2>2 DEF Decide, Goto, WillRecord, TypeOK, LocalType, Stages
  <1>2. CASE Hold(c)
    <2>1. UNCHANGED <<action, seq, resumed, pep>>
      BY <1>2 DEF Hold
    <2>2. CASE /\ Goto(c, "enforce") /\ UNCHANGED <<answer, error>>
               /\ WillRecord(c, <<"approval.requested">>) \/ UNCHANGED todo
      BY <2>1, <2>2, RecordsType DEF Goto, WillRecord, TypeOK, LocalType, Stages
    <2>3. CASE Deny(c, "key_reused")
      BY <2>1, <2>3, DenyType DEF TypeOK, LocalType, Errors
    <2>4. QED BY <1>2, <2>2, <2>3 DEF Hold
  <1>3. CASE Enforce(c)
    <2>1. UNCHANGED <<action, seq, resumed, answer, error>> /\ Goto(c, "respond")
      BY <1>3 DEF Enforce
    <2>2. \E outcome \in {"released", "blocked", "awaiting_approval"} :
            \E kinds \in Seq(Kinds) : Enforced(c, outcome, kinds)
      BY <1>3, RecordsType DEF Enforce, EnforceWithoutApproval, EnforceWithApproval
    <2>3. QED
      BY <2>1, <2>2 DEF Enforced, Goto, WillRecord, TypeOK, LocalType, Stages
  <1>4. CASE Respond(c)
    BY <1>4 DEF Respond, Goto, TypeOK, LocalType, Stages
  <1>5. CASE Raise(c)
    BY <1>5, DenyType DEF Raise, TypeOK, LocalType, Errors
  <1>6. CASE Kill(c)
    BY <1>6, RecordsType DEF Kill, Goto, TypeOK, LocalType, Stages
  <1>7. QED BY <1>1, <1>2, <1>3, <1>4, <1>5, <1>6

\* What one call may do next, and what happens outside the calls.
CallStep(c) ==
  (\E a \in ToolActions : Start(c, a)) \/ Step(c) \/ Raise(c) \/ Kill(c)

Outside ==
  \/ \E id \in ApprovalIds : OperatorRejects(id) \/ \E justified \in BOOLEAN : OperatorGrants(id, justified)
  \/ Sweep
  \/ \E s \in PolicySequences : Activate(s)
  \/ ClockMoves

\* Whatever happens, the file goes forward.
LEMMA NextForward ==
  ASSUME TypeOK, Loaded, HeldForActions, [Next]_vars
  PROVE  Forward(approvals, approvals') /\ HeldForActions'
  <1>1. CASE approvals' = approvals
    BY <1>1, StayForward, HeldForward DEF TypeOK
  <1>2. ASSUME NEW c \in Calls, CallStep(c)
        PROVE  Forward(approvals, approvals') /\ HeldForActions'
    <2>1. CASE Hold(c) \/ Enforce(c)
      BY <2>1, HoldFile, EnforceFile
    <2>2. CASE \/ \E a \in ToolActions : Start(c, a)
               \/ \E given \in DOMAIN approvals \cup {Unset, Unknown} : Lookup(c, given)
               \/ Record(c) \/ Decide(c) \/ Respond(c) \/ Raise(c) \/ Kill(c)
      <3>1. approvals' = approvals
        BY <2>2 DEF Start, Lookup, Record, Decide, Respond, Raise, Kill
      <3>2. QED BY <1>1, <3>1
    <2>3. QED BY <1>2, <2>1, <2>2 DEF CallStep, Step
  <1>3. CASE Outside
    <2>1. CASE \/ \E s \in PolicySequences : Activate(s)
               \/ ClockMoves
      BY <1>1, <2>1 DEF Activate, ClockMoves
    <2>2. QED BY <1>3, <2>1, OperatorFile DEF Outside
  <1>4. CASE UNCHANGED vars
    BY <1>1, <1>4 DEF vars
  <1>5. QED BY <1>2, <1>3, <1>4 DEF Next, CallStep, Outside

\* Every step keeps every variable in its type.
LEMMA NextType ==
  ASSUME TypeOK, Loaded, HeldForActions, [Next]_vars
  PROVE  TypeOK'
  <1>1. IsStore(approvals)'
    BY NextForward DEF Forward
  <1>2. ASSUME NEW c \in Calls, CallStep(c)
        PROVE  TypeOK'
    <2>1. LocalType'
      BY <1>2, EarlyType, LateType DEF CallStep, Step
    <2>2. UNCHANGED <<clock, active, refused>>
      BY <1>2 DEF CallStep, Step, Start, Lookup, Record, Decide, Hold, Enforce, Respond,
                  Raise, Kill
    <2>3. chain' \subseteq [call : Calls, kind : Kinds]
      <3>1. CASE chain' = chain
        BY <3>1 DEF TypeOK
      <3>2. CASE Record(c)
        <4>1. todo[c] \in Seq(Kinds) /\ todo[c] # <<>>
          BY <3>2 DEF Record, TypeOK
        <4>2. Head(todo[c]) \in Kinds
          BY <4>1
        <4>3. QED BY <3>2, <4>2 DEF Record, TypeOK
      <3>3. QED
        BY <1>2, <3>1, <3>2 DEF CallStep, Step, Start, Lookup, Decide, Hold, Enforce,
                                Respond, Raise, Kill
    <2>4. QED BY <1>1, <2>1, <2>2, <2>3 DEF TypeOK, LocalType, Times
  <1>3. CASE Outside
    <2>1. UNCHANGED <<callVars, chain>>
      BY <1>3 DEF Outside, OperatorGrants, OperatorRejects, Sweep, Activate, ClockMoves
    <2>2. clock' \in Times /\ active' \in PolicySequences \cup {0} /\ refused' \subseteq ApprovalIds
      BY <1>3, RuntimeAssumption, ClockAssumption
      DEF Outside, OperatorGrants, OperatorRejects, Sweep, Activate, ClockMoves, TypeOK, Times
    <2>3. QED BY <1>1, <2>1, <2>2 DEF TypeOK, callVars, Times
  <1>4. CASE UNCHANGED vars
    BY <1>1, <1>4 DEF vars, callVars, TypeOK, Times
  <1>5. QED BY <1>2, <1>3, <1>4 DEF Next, CallStep, Outside

\* What a call does leaves the other calls where they are.
OthersStay(c) ==
  \A d \in Calls \ {c} :
    /\ stage'[d] = stage[d] /\ action'[d] = action[d] /\ seq'[d] = seq[d]
    /\ resumed'[d] = resumed[d] /\ todo'[d] = todo[d] /\ pep'[d] = pep[d]
    /\ answer'[d] = answer[d]

LEMMA CallStepIsLocal ==
  ASSUME TypeOK, NEW c \in Calls, CallStep(c)
  PROVE  OthersStay(c)
  <1>1. CASE (\E a \in ToolActions : Start(c, a)) \/ Raise(c) \/ Kill(c)
    BY <1>1 DEF Start, Raise, Kill, Deny, Goto, OthersStay, TypeOK
  <1>2. CASE \E given \in DOMAIN approvals \cup {Unset, Unknown} : Lookup(c, given)
    BY <1>2 DEF Lookup, Deny, Goto, WillRecord, OthersStay, TypeOK
  <1>3. CASE Record(c) \/ Decide(c) \/ Respond(c)
    BY <1>3 DEF Record, Decide, Respond, Goto, WillRecord, OthersStay, TypeOK
  <1>4. CASE Hold(c)
    BY <1>4 DEF Hold, Deny, Goto, WillRecord, OthersStay, TypeOK
  <1>5. CASE Enforce(c)
    BY <1>5 DEF Enforce, EnforceWithoutApproval, EnforceWithApproval, Enforced, Goto,
                WillRecord, OthersStay, TypeOK
  <1>6. QED BY <1>1, <1>2, <1>3, <1>4, <1>5 DEF CallStep, Step

\* Steps outside the calls, and stuttering, leave every call where it is.
LEMMA OutsideKeepsCalls ==
  ASSUME Outside \/ UNCHANGED vars
  PROVE  UNCHANGED callVars /\ chain' = chain
  BY DEF Outside, OperatorGrants, OperatorRejects, Sweep, Activate, ClockMoves, vars

(***************************************************************************)
(* One lemma for each part of the invariant.                               *)
(***************************************************************************)
\* A bundle is loaded with the action, before any work.
LEMMA LoadedStep ==
  ASSUME TypeOK, Loaded, [Next]_vars
  PROVE  Loaded'
  <1>1. ASSUME NEW c \in Calls, CallStep(c)
        PROVE  Loaded'
    <2>1. /\ stage'[c] \in Working => seq'[c] # 0
          /\ seq'[c] # 0 => action'[c] \in ToolActions
      <3>1. CASE \E a \in ToolActions : Start(c, a)
        BY <3>1 DEF Start, Deny, Goto, TypeOK, Loaded, Working
      <3>2. CASE Raise(c) \/ Kill(c)
        BY <3>2 DEF Raise, Kill, Deny, Goto, TypeOK, Loaded, Working
      <3>3. CASE Step(c)
        <4>1. UNCHANGED <<action, seq>>
          BY <3>3 DEF Step, Lookup, Record, Decide, Hold, Enforce, Respond
        <4>2. stage[c] \in Working \/ stage'[c] = stage[c]
          BY <3>3 DEF Step, Lookup, Record, Decide, Hold, Enforce, Respond, At, Working
        <4>3. QED BY <4>1, <4>2 DEF Loaded
      <3>4. QED BY <1>1, <3>1, <3>2, <3>3 DEF CallStep
    <2>2. QED BY <1>1, <2>1, CallStepIsLocal DEF Loaded, OthersStay
  <1>2. CASE Outside \/ UNCHANGED vars
    BY <1>2, OutsideKeepsCalls DEF Loaded, callVars
  <1>3. QED BY <1>1, <1>2 DEF Next, CallStep, Outside

\* Enforcement comes in its turn, and the answer after it.
LEMMA EnforcedInTurnStep ==
  ASSUME TypeOK, Loaded, EnforcedInTurn, [Next]_vars
  PROVE  EnforcedInTurn'
  <1> DEFINE Turn(c) ==
        /\ stage[c] \in {"idle", "lookup", "decide", "hold", "enforce"} => pep[c] = Unset
        /\ stage[c] # "done" => answer[c] = Unset
        /\ answer[c] = "allow" => pep[c] = "released"
        /\ pep[c] # Unset => seq[c] # 0
  <1>1. ASSUME NEW c \in Calls, CallStep(c)
        PROVE  Turn(c)'
    <2>1. Turn(c) /\ (stage[c] \in Working => seq[c] # 0)
      BY DEF EnforcedInTurn, Loaded
    <2>2. CASE \E a \in ToolActions : Start(c, a)
      BY <2>1, <2>2, RuntimeAssumption DEF Start, Deny, Goto, TypeOK
    <2>3. CASE \E given \in DOMAIN approvals \cup {Unset, Unknown} : Lookup(c, given)
      BY <2>1, <2>3, RuntimeAssumption DEF Lookup, At, Deny, Goto, TypeOK
    <2>4. CASE Record(c)
      BY <2>1, <2>4 DEF Record
    <2>5. CASE Decide(c)
      BY <2>1, <2>5 DEF Decide, At, Goto, TypeOK
    <2>6. CASE Hold(c)
      BY <2>1, <2>6, RuntimeAssumption DEF Hold, At, Deny, Goto, TypeOK
    <2>7. CASE Enforce(c)
      BY <2>1, <2>7, RuntimeAssumption DEF Enforce, At, Goto, TypeOK, Working
    <2>8. CASE Respond(c)
      BY <2>1, <2>8, RuntimeAssumption DEF Respond, At, Goto, TypeOK
    <2>9. CASE Raise(c) \/ Kill(c)
      BY <2>1, <2>9, RuntimeAssumption DEF Raise, Running, Kill, Deny, Goto, TypeOK
    <2>10. QED
      BY <1>1, <2>2, <2>3, <2>4, <2>5, <2>6, <2>7, <2>8, <2>9 DEF CallStep, Step
  <1>2. ASSUME NEW c \in Calls, CallStep(c)
        PROVE  EnforcedInTurn'
    BY <1>1, <1>2, CallStepIsLocal DEF EnforcedInTurn, OthersStay
  <1>3. CASE Outside \/ UNCHANGED vars
    BY <1>3, OutsideKeepsCalls DEF EnforcedInTurn, callVars
  <1>4. QED BY <1>2, <1>3 DEF Next, CallStep, Outside

\* Rejections stay in the file, for good.
LEMMA RefusedIsVoidStep ==
  ASSUME TypeOK, Loaded, HeldForActions, RefusedIsVoid, [Next]_vars
  PROVE  RefusedIsVoid'
  <1>1. \A id \in DOMAIN approvals :
          /\ id \in DOMAIN approvals'
          /\ approvals[id].status \in {"rejected", "expired"} =>
               approvals'[id].status \in {"rejected", "expired"}
    BY NextForward DEF Forward
  <1>2. CASE refused' = refused
    BY <1>1, <1>2 DEF RefusedIsVoid
  <1>3. ASSUME NEW id \in ApprovalIds, OperatorRejects(id)
        PROVE  RefusedIsVoid'
    <2>1. id \in DOMAIN approvals' /\ approvals'[id].status = "rejected"
      BY <1>3, RejectEffect DEF OperatorRejects, Rejectable, TypeOK
    <2>2. refused' = refused \cup {id}
      BY <1>3 DEF OperatorRejects
    <2>3. QED BY <1>1, <2>1, <2>2 DEF RefusedIsVoid
  <1>4. QED
    BY <1>2, <1>3 DEF Next, Step, Start, Lookup, Record, Decide, Hold, Enforce, Respond,
                      Raise, Kill, OperatorGrants, Sweep, Activate, ClockMoves, vars

\* A step after which no call is released that was not before keeps what
\* releases say of the file.
LEMMA NoNewRelease ==
  ASSUME ReleasesConsume, Forward(approvals, approvals'),
         \A d \in Calls : ReleasedByApproval(d)' =>
           /\ ReleasedByApproval(d)
           /\ resumed'[d] = resumed[d] /\ action'[d] = action[d] /\ seq'[d] = seq[d]
  PROVE  ReleasesConsume'
  <1>1. ASSUME NEW d \in Calls, ReleasedByApproval(d)'
        PROVE  /\ resumed'[d] \in DOMAIN approvals'
               /\ approvals'[resumed'[d]].status = "consumed"
               /\ SameAction(approvals'[resumed'[d]].bind, action'[d])
               /\ approvals'[resumed'[d]].bind.seq = seq'[d]
    BY <1>1 DEF ReleasesConsume, Forward, SameTerms
  <1>2. \A d, e \in Calls :
          ReleasedByApproval(d)' /\ ReleasedByApproval(e)' /\ resumed'[d] = resumed'[e] => d = e
    BY DEF ReleasesConsume
  <1>3. QED BY <1>1, <1>2 DEF ReleasesConsume

\* Enforcement releases by consuming what was approved: nobody had released
\* with it, and it is for this action and this policy.
LEMMA EnforceRelease ==
  ASSUME TypeOK, Loaded, HeldForActions, EnforcedInTurn, ReleasesConsume,
         NEW c \in Calls, Enforce(c)
  PROVE  ReleasesConsume'
  <1>1. /\ pep[c] = Unset /\ seq[c] # 0
        /\ action' = action /\ seq' = seq /\ resumed' = resumed
        /\ \A d \in Calls \ {c} : pep'[d] = pep[d]
    BY CallStepIsLocal
    DEF Enforce, At, EnforcedInTurn, Loaded, Working, CallStep, Step, OthersStay
  <1>2. Forward(approvals, approvals')
    BY EnforceFile
  <1>3. \A d \in Calls \ {c} : ReleasedByApproval(d)' <=> ReleasedByApproval(d)
    BY <1>1 DEF ReleasedByApproval, EffectOf, VerdictOn
  <1>4. CASE ~ReleasedByApproval(c)'
    BY <1>1, <1>2, <1>3, <1>4, NoNewRelease
  <1>5. CASE ReleasedByApproval(c)'
    <2> DEFINE id == resumed[c]
    <2>1. pep'[c] = "released" /\ EffectOf(c) = "REQUIRE_APPROVAL"
      BY <1>1, <1>5 DEF ReleasedByApproval, EffectOf, VerdictOn
    <2>2. /\ id \in DOMAIN approvals
          /\ ConsumeOutcome(approvals[id], BindingOf(c), clock) = "ok"
          /\ approvals' = Consumed(approvals, id, "ok")
      <3>1. EnforceWithApproval(c)
        BY <2>1 DEF Enforce, EnforceWithoutApproval, Enforced, TypeOK
      <3>2. ConsumeOutcome(approvals[id], BindingOf(c), clock) = "ok" /\ id \in DOMAIN approvals
        BY <2>1, <3>1 DEF EnforceWithApproval, Enforced, TypeOK
      <3>3. QED BY <3>1, <3>2 DEF EnforceWithApproval
    <2>3. /\ approvals[id].status = "approved"
          /\ BindingOf(c).payload = approvals[id].bind.payload
          /\ BindingOf(c).scope = approvals[id].bind.scope
          /\ SequenceMatches(approvals[id], BindingOf(c))
      BY <2>2, ConsumeMatches
    <2>4. action[c] \in ToolActions /\ ActionIn(approvals[id].bind) \in ToolActions
          /\ approvals[id].bind.seq \in PolicySequences
      BY <1>1, <2>2, BindingType DEF HeldForActions
    <2>5. SameAction(approvals[id].bind, action[c])
      <3>1. /\ approvals[id].bind.payload = action[c].payload
            /\ approvals[id].bind.scope = action[c].scope
        BY <2>3 DEF BindingOf, BindingFor
      <3>2. ActionIn(approvals[id].bind).target = action[c].target
        <4>1. ActionIn(approvals[id].bind).payload = action[c].payload
          BY <3>1 DEF ActionIn
        <4>2. QED BY <2>4, <4>1, TargetAssumption
      <3>3. QED BY <3>1, <3>2 DEF SameAction, ActionIn
    <2>6. approvals[id].bind.seq = seq[c]
      BY <2>3, <2>4, RuntimeAssumption DEF SequenceMatches, BindingOf, BindingFor
    <2>7. id \in DOMAIN approvals' /\ approvals'[id].status = "consumed"
          /\ approvals'[id].bind = approvals[id].bind
      <3>1. IsStore(approvals) /\ clock \in Nat
        BY RuntimeAssumption, ClockAssumption DEF TypeOK, Times
      <3>2. Consumed(approvals, id, "ok")[id].status = "consumed"
        BY <2>2, <3>1, ConsumeEffect
      <3>3. QED BY <1>2, <2>2, <3>2 DEF Forward, SameTerms
    <2>8. \A d \in Calls \ {c} : ReleasedByApproval(d)' => resumed[d] # id
      BY <1>3, <2>3 DEF ReleasesConsume
    <2>9. ASSUME NEW d \in Calls, ReleasedByApproval(d)'
          PROVE  /\ resumed'[d] \in DOMAIN approvals'
                 /\ approvals'[resumed'[d]].status = "consumed"
                 /\ SameAction(approvals'[resumed'[d]].bind, action'[d])
                 /\ approvals'[resumed'[d]].bind.seq = seq'[d]
      <3>1. CASE d = c
        BY <1>1, <2>5, <2>6, <2>7, <3>1
      <3>2. CASE d # c
        BY <1>1, <1>2, <1>3, <2>9, <3>2 DEF ReleasesConsume, Forward, SameTerms
      <3>3. QED BY <3>1, <3>2
    <2>10. ASSUME NEW d \in Calls, NEW e \in Calls, ReleasedByApproval(d)',
                  ReleasedByApproval(e)', resumed'[d] = resumed'[e]
           PROVE  d = e
      BY <1>1, <1>3, <2>8, <2>10 DEF ReleasesConsume
    <2>11. QED BY <2>9, <2>10 DEF ReleasesConsume
  <1>6. QED BY <1>4, <1>5

\* No other step of a call releases it, and none alters a released call.
LEMMA ReleasesConsumeStep ==
  ASSUME TypeOK, Loaded, HeldForActions, EnforcedInTurn, ReleasesConsume, [Next]_vars
  PROVE  ReleasesConsume'
  <1>1. Forward(approvals, approvals')
    BY NextForward
  <1>2. ASSUME NEW c \in Calls, CallStep(c), ~Enforce(c)
        PROVE  ReleasesConsume'
    <2>1. pep' = pep
      BY <1>2 DEF CallStep, Step, Start, Lookup, Record, Decide, Hold, Respond, Raise, Kill
    <2>2. stage[c] \in {"idle", "lookup"} => pep[c] # "released"
      BY RuntimeAssumption DEF EnforcedInTurn
    <2>3. stage[c] \in {"idle", "lookup"} \/ UNCHANGED <<action, seq, resumed>>
      BY <1>2 DEF CallStep, Step, Start, Lookup, At, Record, Decide, Hold, Respond, Raise, Kill
    <2>4. \A d \in Calls : pep[d] = "released" =>
            resumed'[d] = resumed[d] /\ action'[d] = action[d] /\ seq'[d] = seq[d]
      BY <1>2, <2>2, <2>3, CallStepIsLocal DEF OthersStay
    <2>5. \A d \in Calls : ReleasedByApproval(d)' => ReleasedByApproval(d)
      BY <2>1, <2>4 DEF ReleasedByApproval, EffectOf, VerdictOn
    <2>6. QED
      BY <1>1, <2>4, <2>5, NoNewRelease DEF ReleasedByApproval
  <1>3. CASE Outside \/ UNCHANGED vars
    <2>1. UNCHANGED <<action, seq, resumed, pep>>
      BY <1>3, OutsideKeepsCalls DEF callVars
    <2>2. \A d \in Calls : ReleasedByApproval(d)' => ReleasedByApproval(d)
      BY <2>1 DEF ReleasedByApproval, EffectOf, VerdictOn
    <2>3. QED BY <1>1, <2>1, <2>2, NoNewRelease
  <1>4. QED BY <1>2, <1>3, EnforceRelease DEF Next, CallStep, Outside

(***************************************************************************)
(* Evidence.                                                               *)
(***************************************************************************)
\* When a call has nothing left to record, what is covered is in the chain.
LEMMA CoveredIsRecorded ==
  ASSUME NEW c, NEW k, todo[c] = <<>>, Covered(c, k)
  PROVE  [call |-> c, kind |-> k] \in chain
  BY DEF Covered

\* Recording an event takes it from what is to record into the chain.
LEMMA RecordCovers ==
  ASSUME TypeOK, NEW c \in Calls, Record(c), NEW k \in Lasting, Covered(c, k)
  PROVE  Covered(c, k)'
  <1>1. /\ todo[c] \in Seq(Kinds) /\ todo[c] # <<>>
        /\ chain \subseteq chain'
        /\ k = Head(todo[c]) => [call |-> c, kind |-> k] \in chain'
        /\ todo'[c] = Tail(todo[c])
    BY DEF Record, TypeOK, Lasting
  <1>2. CASE [call |-> c, kind |-> k] \in chain
    BY <1>1, <1>2 DEF Covered
  <1>3. ASSUME NEW i \in DOMAIN todo[c], todo[c][i] = k
        PROVE  Covered(c, k)'
    <2>1. CASE i = 1
      BY <1>1, <1>3, <2>1 DEF Covered
    <2>2. CASE i # 1
      <3>1. i - 1 \in DOMAIN Tail(todo[c]) /\ Tail(todo[c])[i - 1] = k
        BY <1>1, <1>3, <2>2
      <3>2. QED BY <1>1, <3>1 DEF Covered
    <2>3. QED BY <2>1, <2>2
  <1>4. QED BY <1>2, <1>3 DEF Covered

\* A sequence with something in front of it.
LEMMA Prepended ==
  ASSUME NEW S, NEW x \in S, NEW t \in Seq(S)
  PROVE  /\ DOMAIN (<<x>> \o t) = 1..(1 + Len(t))
         /\ (<<x>> \o t)[1] = x
         /\ \A j \in 1..Len(t) : (<<x>> \o t)[j + 1] = t[j]
  <1> DEFINE first == <<x>>
             all == first \o t
  <1>1. first \in Seq(S) /\ Len(first) = 1 /\ first[1] = x
    OBVIOUS
  <1>2. Len(t) \in Nat
    OBVIOUS
  <1> HIDE DEF first
  <1>3. /\ all \in Seq(S)
        /\ Len(all) = Len(first) + Len(t)
        /\ \A i \in 1..Len(first) + Len(t) :
             all[i] = IF i <= Len(first) THEN first[i] ELSE t[i - Len(first)]
    BY <1>1, ConcatProperties
  <1> HIDE DEF all
  <1>4. DOMAIN all = 1..(1 + Len(t)) /\ all[1] = x
    BY <1>1, <1>2, <1>3
  <1>5. \A j \in 1..Len(t) : all[j + 1] = t[j]
    BY <1>1, <1>2, <1>3
  <1>6. QED BY <1>4, <1>5 DEF all, first

\* The records of the decision hold all its alerts.
LEMMA DecisionRecords ==
  ASSUME NEW v \in Verdicts
  PROVE  LET records == <<"decision.created">> \o v.alerts IN
         /\ \E i \in DOMAIN records : records[i] = "decision.created"
         /\ \A j \in DOMAIN v.alerts : \E i \in DOMAIN records : records[i] = v.alerts[j]
  <1> DEFINE alerts == v.alerts
             records == <<"decision.created">> \o alerts
  <1>1. alerts \in Seq(Kinds) /\ "decision.created" \in Kinds
    BY AlertsType DEF Kinds
  <1> HIDE DEF alerts
  <1>2. Len(alerts) \in Nat /\ DOMAIN alerts = 1..Len(alerts)
    BY <1>1
  <1>3. /\ DOMAIN records = 1..(1 + Len(alerts))
        /\ records[1] = "decision.created"
        /\ \A j \in 1..Len(alerts) : records[j + 1] = alerts[j]
    BY <1>1, Prepended
  <1> HIDE DEF records
  <1>4. 1 \in DOMAIN records /\ \A j \in DOMAIN alerts : j + 1 \in DOMAIN records
    BY <1>2, <1>3
  <1>5. /\ \E i \in DOMAIN records : records[i] = "decision.created"
        /\ \A j \in DOMAIN alerts : \E i \in DOMAIN records : records[i] = alerts[j]
    BY <1>2, <1>3, <1>4
  <1>6. QED BY <1>5 DEF records, alerts

EvidenceOf(c) ==
  /\ \A k \in Lasting : Owed(c, k) => Covered(c, k)
  /\ answer[c] = "allow" => todo[c] = <<>>

\* Events only get into the chain: what a call that stays has covered is covered.
LEMMA EvidenceStays ==
  ASSUME EvidenceFollows, NEW d \in Calls, chain \subseteq chain',
         stage'[d] = stage[d], action'[d] = action[d], seq'[d] = seq[d],
         todo'[d] = todo[d], pep'[d] = pep[d], answer'[d] = answer[d]
  PROVE  EvidenceOf(d)'
  <1>1. EffectOf(d)' = EffectOf(d) /\ \A k : IsAlert(d, k)' <=> IsAlert(d, k)
    BY DEF EffectOf, VerdictOn, IsAlert
  <1>2. \A k : Owed(d, k)' <=> Owed(d, k)
    BY <1>1 DEF Owed
  <1>3. \A k : Covered(d, k) => Covered(d, k)'
    BY DEF Covered
  <1>4. QED BY <1>2, <1>3 DEF EvidenceFollows, EvidenceOf

\* Before a call is looked up nothing is owed, nor when it is denied or killed.
LEMMA NothingOwed ==
  ASSUME NEW c, stage'[c] \in {"idle", "lookup", "done", "dead"}, answer'[c] # "allow"
  PROVE  EvidenceOf(c)'
  BY DEF EvidenceOf, Owed

\* The intake is recorded on the way from the lookup to the decision.
LEMMA LookupEvidence ==
  ASSUME TypeOK, EnforcedInTurn, NEW c \in Calls,
         NEW given \in DOMAIN approvals \cup {Unset, Unknown}, Lookup(c, given)
  PROVE  EvidenceOf(c)'
  <1>1. pep[c] = Unset /\ answer[c] = Unset /\ pep' = pep
    BY DEF EnforcedInTurn, Lookup, At
  <1>2. CASE Goto(c, "decide") /\ WillRecord(c, Intake) /\ UNCHANGED answer
    <2>1. stage'[c] = "decide" /\ todo'[c] = Intake /\ answer'[c] # "allow"
      BY <1>1, <1>2, RuntimeAssumption DEF Goto, WillRecord, TypeOK
    <2>2. \A k \in {"tool_request", "capability.checked"} :
            \E i \in DOMAIN Intake : Intake[i] = k
      BY DEF Intake
    <2>3. QED
      BY <2>1, <2>2 DEF EvidenceOf, Owed, Covered
  <1>3. CASE Deny(c, "ambiguous_approval")
    <2>1. stage'[c] = "done" /\ answer'[c] = "deny"
      BY <1>3 DEF Deny, Goto, TypeOK
    <2>2. QED BY <2>1, NothingOwed
  <1>4. QED BY <1>2, <1>3 DEF Lookup

\* The decision and its alerts are recorded before it takes effect.
LEMMA DecideEvidence ==
  ASSUME TypeOK, Loaded, EnforcedInTurn, EvidenceFollows, NEW c \in Calls, Decide(c)
  PROVE  EvidenceOf(c)'
  <1> DEFINE records == <<"decision.created">> \o VerdictOn(c).alerts
  <1>1. /\ stage[c] = "decide" /\ todo[c] = <<>> /\ seq[c] # 0
        /\ stage'[c] \in {"hold", "enforce"} /\ todo'[c] = records
        /\ answer'[c] # "allow" /\ chain' = chain
        /\ action' = action /\ seq' = seq
    BY RuntimeAssumption
    DEF Decide, At, Goto, WillRecord, TypeOK, EnforcedInTurn, Loaded, Working
  <1>2. \A k \in {"tool_request", "capability.checked"} : [call |-> c, kind |-> k] \in chain
    BY <1>1 DEF EvidenceFollows, Owed, Covered, Kinds, Lasting
  <1>3. VerdictOn(c) \in Verdicts
    BY <1>1, BindingType
  <1>4. /\ \E i \in DOMAIN records : records[i] = "decision.created"
        /\ \A j \in DOMAIN VerdictOn(c).alerts :
             \E i \in DOMAIN records : records[i] = VerdictOn(c).alerts[j]
    BY <1>3, DecisionRecords
  <1> HIDE DEF records
  <1>5. \A k : IsAlert(c, k)' => \E i \in DOMAIN records : records[i] = k
    BY <1>1, <1>4 DEF IsAlert, VerdictOn
  <1>6. QED
    BY <1>1, <1>2, <1>4, <1>5 DEF EvidenceOf, Owed, Covered

\* A hold records what it requested on top of what is in the chain.
LEMMA HoldEvidence ==
  ASSUME TypeOK, EnforcedInTurn, EvidenceFollows, NEW c \in Calls, Hold(c)
  PROVE  EvidenceOf(c)'
  <1>1. /\ stage[c] = "hold" /\ todo[c] = <<>> /\ chain' = chain
        /\ action' = action /\ seq' = seq /\ answer[c] # "allow"
    BY RuntimeAssumption DEF Hold, At, EnforcedInTurn
  <1>2. \A k \in Lasting : Owed(c, k) => [call |-> c, kind |-> k] \in chain
    BY <1>1 DEF EvidenceFollows, Covered
  <1>3. CASE Goto(c, "enforce") /\ UNCHANGED answer
    <2>1. stage'[c] = "enforce" /\ answer'[c] # "allow"
      BY <1>1, <1>3 DEF Goto, TypeOK
    <2>2. \A k \in Lasting : Owed(c, k)' => Owed(c, k)
      BY <1>1, <2>1 DEF Owed, IsAlert, VerdictOn
    <2>3. QED BY <1>1, <1>2, <2>1, <2>2 DEF EvidenceOf, Covered
  <1>4. CASE Deny(c, "key_reused")
    <2>1. stage'[c] = "done" /\ answer'[c] = "deny"
      BY <1>4 DEF Deny, Goto, TypeOK
    <2>2. QED BY <2>1, NothingOwed
  <1>5. QED BY <1>3, <1>4 DEF Hold

\* A release is recorded, with the consumption it rests on, before the answer.
LEMMA EnforceEvidence ==
  ASSUME TypeOK, EnforcedInTurn, EvidenceFollows, NEW c \in Calls, Enforce(c)
  PROVE  EvidenceOf(c)'
  <1>1. /\ stage[c] = "enforce" /\ todo[c] = <<>> /\ chain' = chain
        /\ action' = action /\ seq' = seq /\ answer' = answer /\ answer[c] # "allow"
        /\ stage'[c] = "respond"
    BY RuntimeAssumption DEF Enforce, At, EnforcedInTurn, Goto, TypeOK
  <1>2. \A k \in Lasting : Owed(c, k) => [call |-> c, kind |-> k] \in chain
    BY <1>1 DEF EvidenceFollows, Covered
  <1>3. EffectOf(c)' = EffectOf(c) /\ \A k : IsAlert(c, k)' <=> IsAlert(c, k)
    BY <1>1 DEF EffectOf, VerdictOn, IsAlert
  <1>4. pep'[c] = "released" =>
          /\ \E i \in DOMAIN todo'[c] : todo'[c][i] = "pep.enforced"
          /\ EffectOf(c) = "REQUIRE_APPROVAL" =>
               \E i \in DOMAIN todo'[c] : todo'[c][i] = "approval.consumed"
    <2>1. CASE EnforceWithoutApproval(c)
      BY <2>1 DEF EnforceWithoutApproval, Enforced, WillRecord, TypeOK
    <2>2. CASE EnforceWithApproval(c)
      <3>1. pep'[c] = "released" => todo'[c] = <<"approval.consumed", "pep.enforced">>
        BY <2>2 DEF EnforceWithApproval, Enforced, WillRecord, TypeOK
      <3>2. /\ \E i \in DOMAIN <<"approval.consumed", "pep.enforced">> :
                 <<"approval.consumed", "pep.enforced">>[i] = "pep.enforced"
            /\ \E i \in DOMAIN <<"approval.consumed", "pep.enforced">> :
                 <<"approval.consumed", "pep.enforced">>[i] = "approval.consumed"
        OBVIOUS
      <3>3. QED BY <3>1, <3>2
    <2>3. QED BY <2>1, <2>2 DEF Enforce
  <1>5. ASSUME NEW k \in Lasting, Owed(c, k)'
        PROVE  Covered(c, k)'
    <2>1. CASE Owed(c, k)
      BY <1>1, <1>2, <2>1 DEF Covered
    <2>2. CASE ~Owed(c, k)
      <3>1. /\ pep'[c] = "released"
            /\ k = "pep.enforced" \/ (k = "approval.consumed" /\ EffectOf(c) = "REQUIRE_APPROVAL")
        BY <1>1, <1>3, <1>5, <2>2 DEF Owed
      <3>2. QED BY <1>4, <3>1 DEF Covered
    <2>3. QED BY <2>1, <2>2
  <1>6. QED BY <1>1, <1>5 DEF EvidenceOf

\* The answer comes when everything owed is in the chain.
LEMMA RespondEvidence ==
  ASSUME TypeOK, EnforcedInTurn, EvidenceFollows, NEW c \in Calls, Respond(c)
  PROVE  EvidenceOf(c)'
  <1>1. /\ stage[c] = "respond" /\ todo[c] = <<>> /\ chain' = chain /\ todo' = todo
        /\ action' = action /\ seq' = seq /\ pep' = pep
        /\ stage'[c] = "done"
        /\ answer'[c] = "allow" => pep[c] = "released"
    BY DEF Respond, At, Goto, TypeOK
  <1>2. \A k \in Lasting : Owed(c, k) => [call |-> c, kind |-> k] \in chain
    BY <1>1 DEF EvidenceFollows, Covered
  <1>3. EffectOf(c)' = EffectOf(c) /\ \A k : IsAlert(c, k)' <=> IsAlert(c, k)
    BY <1>1 DEF EffectOf, VerdictOn, IsAlert
  <1>4. \A k \in Lasting : Owed(c, k)' => Owed(c, k)
    BY <1>1, <1>3 DEF Owed
  <1>5. QED BY <1>1, <1>2, <1>4 DEF EvidenceOf, Covered

\* Whatever a call does, what it owes is covered.
LEMMA EvidenceStep ==
  ASSUME TypeOK, Loaded, EnforcedInTurn, EvidenceFollows, [Next]_vars
  PROVE  EvidenceFollows'
  <1>1. ASSUME NEW c \in Calls, CallStep(c)
        PROVE  EvidenceOf(c)'
    <2>1. CASE \E a \in ToolActions : Start(c, a)
      <3>1. stage'[c] \in {"lookup", "done"} /\ answer'[c] # "allow"
        BY <2>1, RuntimeAssumption DEF Start, Deny, Goto, TypeOK, EnforcedInTurn
      <3>2. QED BY <3>1, NothingOwed
    <2>2. CASE Record(c)
      <3>1. \A k \in Lasting : Covered(c, k) => Covered(c, k)'
        BY <2>2, RecordCovers
      <3>2. UNCHANGED <<stage, answer, pep, action, seq>> /\ todo[c] # <<>>
        BY <2>2 DEF Record
      <3>3. \A k : Owed(c, k)' <=> Owed(c, k)
        BY <3>2 DEF Owed, IsAlert, EffectOf, VerdictOn
      <3>4. QED BY <3>1, <3>2, <3>3 DEF EvidenceOf, EvidenceFollows
    <2>3. CASE Raise(c) \/ Kill(c)
      <3>1. stage'[c] \in {"done", "dead"} /\ answer'[c] # "allow"
        BY <2>3, RuntimeAssumption DEF Raise, Running, Kill, Deny, Goto, TypeOK, EnforcedInTurn
      <3>2. QED BY <3>1, NothingOwed
    <2>4. QED
      BY <1>1, <2>1, <2>2, <2>3, LookupEvidence, DecideEvidence, HoldEvidence,
         EnforceEvidence, RespondEvidence
      DEF CallStep, Step
  <1>2. ASSUME NEW c \in Calls, CallStep(c)
        PROVE  EvidenceFollows'
    <2>1. chain \subseteq chain'
      BY <1>2 DEF CallStep, Step, Start, Lookup, Record, Decide, Hold, Enforce, Respond,
                  Raise, Kill
    <2>2. \A d \in Calls \ {c} : EvidenceOf(d)'
      BY <1>2, <2>1, CallStepIsLocal, EvidenceStays DEF OthersStay
    <2>3. \A d \in Calls : EvidenceOf(d)'
      BY <1>1, <1>2, <2>2
    <2>4. QED BY <2>3 DEF EvidenceFollows, EvidenceOf
  <1>3. CASE Outside \/ UNCHANGED vars
    <2>1. UNCHANGED callVars /\ chain' = chain
      BY <1>3, OutsideKeepsCalls
    <2>2. \A d \in Calls : EvidenceOf(d)'
      BY <2>1, EvidenceStays DEF callVars
    <2>3. QED BY <2>2 DEF EvidenceFollows, EvidenceOf
  <1>4. QED BY <1>2, <1>3 DEF Next, CallStep, Outside

\* At the start the file is empty or holds what an earlier hook asked for, and
\* no call has done anything.
LEMMA InitHInv == Init => HInv
  <1> SUFFICES ASSUME Init PROVE HInv
    OBVIOUS
  <1>1. IsStore(approvals) /\ HeldForActions
    <2>1. CASE approvals = EmptyStore
      BY <2>1 DEF EmptyStore, IsStore, HeldForActions
    <2>2. ASSUME NEW id \in ApprovalIds, NEW b \in EarlierHolds,
                 approvals = Put(EmptyStore, id,
                   NewApproval(b, KeyFor(ActionIn(b), b.seq),
                               Verdict[b.seq][ActionIn(b)].justify, 0))
          PROVE  IsStore(approvals) /\ HeldForActions
      <3> DEFINE justify == Verdict[b.seq][ActionIn(b)].justify
                 key == KeyFor(ActionIn(b), b.seq)
                 a == NewApproval(b, key, justify, 0)
      <3>1. ActionIn(b) \in ToolActions /\ b.seq \in PolicySequences /\ b \in Bindings
        BY BindingsAreClosed, RuntimeAssumption
      <3>2. Verdict[b.seq][ActionIn(b)] \in Verdicts
        BY <3>1, RuntimeAssumption
      <3>3. justify \in BOOLEAN /\ key \in Keys
        BY <3>1, <3>2, BindingsAreClosed DEF Verdicts
      <3>4. a.bind = b
        BY DEF NewApproval
      <3> HIDE DEF justify, key
      <3>5. a \in Approval
        BY <3>1, <3>3, NewApprovalType
      <3>6. approvals = Put(EmptyStore, id, a)
        BY <2>2 DEF justify, key
      <3> HIDE DEF a
      <3>7. DOMAIN approvals = {id} /\ approvals[id] = a /\ approvals = [i \in {id} |-> a]
        BY <3>6 DEF Put, EmptyStore
      <3>8. IsStore(approvals)
        BY <3>5, <3>7 DEF IsStore
      <3>9. QED BY <3>1, <3>4, <3>7, <3>8 DEF HeldForActions
    <2>3. QED BY <2>1, <2>2 DEF Init, EarlierStores
  <1>2. TypeOK
    BY <1>1, RuntimeAssumption, ClockAssumption, RecordsType DEF Init, TypeOK, Times, Stages
  <1>3. Loaded /\ EnforcedInTurn /\ ReleasesConsume /\ RefusedIsVoid
    BY RuntimeAssumption
    DEF Init, Loaded, Working, EnforcedInTurn, ReleasesConsume, ReleasedByApproval,
        RefusedIsVoid
  <1>4. EvidenceFollows
    BY RuntimeAssumption DEF Init, EvidenceFollows, Owed
  <1>5. QED BY <1>1, <1>2, <1>3, <1>4 DEF HInv

(***************************************************************************)
(* The theorems.                                                           *)
(***************************************************************************)

\* The inductive invariant holds in every reachable state.
THEOREM Invariance == Spec => []HInv
  <1>1. HInv /\ [Next]_vars => HInv'
    <2> SUFFICES ASSUME HInv, [Next]_vars PROVE HInv'
      OBVIOUS
    <2>1. /\ TypeOK /\ Loaded /\ HeldForActions /\ EnforcedInTurn /\ ReleasesConsume
          /\ RefusedIsVoid /\ EvidenceFollows
      BY DEF HInv
    <2>2. TypeOK' /\ HeldForActions'
      BY <2>1, NextType, NextForward
    <2>3. Loaded' /\ EnforcedInTurn' /\ RefusedIsVoid'
      BY <2>1, LoadedStep, EnforcedInTurnStep, RefusedIsVoidStep
    <2>4. ReleasesConsume' /\ EvidenceFollows'
      BY <2>1, ReleasesConsumeStep, EvidenceStep
    <2>5. QED BY <2>2, <2>3, <2>4 DEF HInv
  <1>2. QED BY <1>1, InitHInv, PTL DEF Spec

\* Every variable of the hooks keeps its type.
THEOREM TypeCorrect == Spec => []TypeOK
  <1>1. HInv => TypeOK BY DEF HInv
  <1>2. QED BY <1>1, Invariance, PTL

\* One approval releases one tool call, however many hooks resume it.
THEOREM ApprovalReleasesOnce == Spec => []OneReleasePerApproval
  <1>1. HInv => OneReleasePerApproval
    BY DEF HInv, EnforcedInTurn, ReleasesConsume, ReleasedByApproval, OneReleasePerApproval,
           AllowedByApproval, Allowed
  <1>2. QED BY <1>1, Invariance, PTL

\* What is released under REQUIRE_APPROVAL has consumed an approval for this
\* action and this policy sequence, which nobody rejected.
THEOREM ReleasesAreApproved == Spec => []ReleaseIsApproved
  <1>1. HInv => ReleaseIsApproved
    <2> SUFFICES ASSUME HInv, NEW c \in Calls, AllowedByApproval(c)
                 PROVE  /\ resumed[c] \in DOMAIN approvals \ refused
                        /\ approvals[resumed[c]].status = "consumed"
                        /\ SameAction(approvals[resumed[c]].bind, action[c])
                        /\ approvals[resumed[c]].bind.seq = seq[c]
      BY DEF ReleaseIsApproved
    <2>1. ReleasedByApproval(c)
      BY DEF HInv, EnforcedInTurn, ReleasedByApproval, AllowedByApproval, Allowed
    <2>2. QED BY <2>1 DEF HInv, ReleasesConsume, RefusedIsVoid
  <1>2. QED BY <1>1, Invariance, PTL

\* No agent is told to go on before all that led to it is in evidence.
THEOREM ReleasesAreInEvidence == Spec => []ReleaseIsInEvidence
  <1>1. HInv => ReleaseIsInEvidence
    <2> SUFFICES ASSUME HInv, NEW c \in Calls, Allowed(c), NEW k,
                        \/ k \in {"tool_request", "capability.checked", "decision.created",
                                  "pep.enforced"}
                        \/ k = "approval.consumed" /\ EffectOf(c) = "REQUIRE_APPROVAL"
                        \/ IsAlert(c, k)
                 PROVE  [call |-> c, kind |-> k] \in chain
      BY DEF ReleaseIsInEvidence, IsAlert
    <2>1. answer[c] = "allow" /\ pep[c] = "released" /\ todo[c] = <<>> /\ seq[c] # 0
      BY RuntimeAssumption DEF HInv, EnforcedInTurn, EvidenceFollows, Allowed
    <2>2. Owed(c, k)
      BY <2>1 DEF Owed
    <2>3. k \in Lasting
      <3>1. VerdictOn(c) \in Verdicts
        BY <2>1, BindingType DEF HInv
      <3>2. \A i \in DOMAIN VerdictOn(c).alerts : VerdictOn(c).alerts[i] \in Alerts
        BY <3>1 DEF Verdicts, Alerts
      <3>3. IsAlert(c, k) => k \in Alerts
        BY <3>2 DEF IsAlert
      <3>4. QED BY <3>3 DEF Lasting, Kinds, Alerts
    <2>4. Covered(c, k)
      BY <2>2, <2>3 DEF HInv, EvidenceFollows
    <2>5. QED BY <2>1, <2>4, CoveredIsRecorded
  <1>2. QED BY <1>1, Invariance, PTL

(***************************************************************************)
(* The hooks and their operator move the approvals as the service does.    *)
(***************************************************************************)
\* A hold draws one token, or none.
LEMMA HoldMoves ==
  ASSUME TypeOK, NEW c \in Calls, Hold(c)
  PROVE  TermsStay /\ Moves
  <1>1. IsStore(approvals)
    BY DEF TypeOK
  <1>2. CASE approvals' = approvals
    BY <1>1, <1>2, FileAlone DEF Moves
  <1>3. ASSUME NEW id \in ApprovalIds \ DOMAIN approvals,
               approvals' = Put(approvals, id,
                                NewApproval(BindingOf(c), KeyOf(c), VerdictOn(c).justify, clock))
        PROVE  TermsStay /\ Moves
    <2> DEFINE a == NewApproval(BindingOf(c), KeyOf(c), VerdictOn(c).justify, clock)
    <2>1. a.status = "pending" /\ approvals' = Put(approvals, id, a)
      BY <1>3 DEF NewApproval
    <2> HIDE DEF a
    <2>2. TermsStay /\ DrawnIn(id)
      BY <1>1, <2>1, PutMoves
    <2>3. QED BY <2>2 DEF Moves
  <1>4. QED BY <1>2, <1>3 DEF Hold

\* Enforcement spends the approval that is resumed, voids it, or leaves it.
LEMMA EnforceMoves ==
  ASSUME TypeOK, NEW c \in Calls, Enforce(c)
  PROVE  TermsStay /\ Moves
  <1>1. IsStore(approvals) /\ clock \in Nat
    BY ClockAssumption DEF TypeOK, Times
  <1>2. CASE approvals' = approvals
    BY <1>1, <1>2, FileAlone DEF Moves
  <1>3. CASE /\ resumed[c] \in DOMAIN approvals
             /\ approvals' = Consumed(approvals, resumed[c],
                   ConsumeOutcome(approvals[resumed[c]], BindingOf(c), clock))
    <2>1. TermsStay /\ (SpentIn(resumed[c]) \/ VoidedSome)
      BY <1>1, <1>3, ConsumeMoves
    <2>2. resumed[c] \in ApprovalIds
      BY <1>1, <1>3 DEF IsStore
    <2>3. QED BY <2>1, <2>2 DEF Moves
  <1>4. QED
    BY <1>2, <1>3 DEF Enforce, EnforceWithoutApproval, EnforceWithApproval

\* The operator authorizes what is held, and voids what is open.
LEMMA OperatorMoves ==
  ASSUME TypeOK,
         \/ \E id \in ApprovalIds :
              OperatorRejects(id) \/ \E justified \in BOOLEAN : OperatorGrants(id, justified)
         \/ Sweep
  PROVE  TermsStay /\ Moves
  <1>1. IsStore(approvals)
    BY DEF TypeOK
  <1>2. ASSUME NEW id \in ApprovalIds, OperatorRejects(id)
        PROVE  TermsStay /\ Moves
    BY <1>1, <1>2, RejectMoves DEF OperatorRejects, Moves
  <1>3. ASSUME NEW id \in ApprovalIds, NEW justified \in BOOLEAN, OperatorGrants(id, justified)
        PROVE  TermsStay /\ Moves
    <2> DEFINE outcome == GrantOutcome(approvals[id], justified, clock)
    <2>1. outcome \in {"justification_required", "expired", "granted"}
      BY DEF GrantOutcome
    <2>2. Grantable(approvals, id) /\ approvals' = Granted(approvals, id, outcome)
      BY <1>3 DEF OperatorGrants
    <2> HIDE DEF outcome
    <2>3. TermsStay /\ (AuthorizedIn(id) \/ VoidedSome)
      BY <1>1, <2>1, <2>2, GrantMoves
    <2>4. QED BY <2>3 DEF Moves
  <1>4. CASE Sweep
    BY <1>1, <1>4, SweepMoves DEF Sweep, Moves
  <1>5. QED BY <1>2, <1>3, <1>4

\* Whatever a hook, the operator, the policy or the clock does.
LEMMA HooksMove ==
  ASSUME TypeOK, [Next]_vars
  PROVE  TermsStay /\ Moves
  <1>1. CASE approvals' = approvals
    BY <1>1, FileAlone DEF TypeOK, Moves
  <1>2. ASSUME NEW c \in Calls, CallStep(c)
        PROVE  TermsStay /\ Moves
    <2>1. CASE Hold(c) \/ Enforce(c)
      BY <2>1, HoldMoves, EnforceMoves
    <2>2. CASE \/ \E a \in ToolActions : Start(c, a)
               \/ \E given \in DOMAIN approvals \cup {Unset, Unknown} : Lookup(c, given)
               \/ Record(c) \/ Decide(c) \/ Respond(c) \/ Raise(c) \/ Kill(c)
      <3>1. approvals' = approvals
        BY <2>2 DEF Start, Lookup, Record, Decide, Respond, Raise, Kill
      <3>2. QED BY <1>1, <3>1
    <2>3. QED BY <1>2, <2>1, <2>2 DEF CallStep, Step
  <1>3. CASE Outside
    <2>1. CASE \/ \E s \in PolicySequences : Activate(s)
               \/ ClockMoves
      BY <1>1, <2>1 DEF Activate, ClockMoves
    <2>2. QED BY <1>3, <2>1, OperatorMoves DEF Outside
  <1>4. CASE UNCHANGED vars
    BY <1>1, <1>4 DEF vars
  <1>5. QED BY <1>2, <1>3, <1>4 DEF Next, CallStep, Outside

\* Hooks that hold, resume, consume and die at any stage, with an operator, a
\* clock and policies that change, move the approvals as one-time
\* authorizations move (APPROVAL_MODEL.md), and never alter what an approval was
\* requested with. It is a statement about steps: the file that hooks begin
\* with may hold what an earlier hook requested.
THEOREM HooksMoveOneTime ==
  Spec => /\ [][OneTime!Next]_[id \in ApprovalIds |-> AuthOf(id)]
          /\ [][TermsStay]_approvals
  <1>1. TypeOK /\ [Next]_vars => [OneTime!Next]_[id \in ApprovalIds |-> AuthOf(id)]
    BY HooksMove, StepRefines
  <1>2. TypeOK /\ [Next]_vars => [TermsStay]_approvals
    BY HooksMove
  <1>3. QED BY <1>1, <1>2, TypeCorrect, PTL DEF Spec
=============================================================================
