--------------------------- MODULE ApprovalService ---------------------------
(***************************************************************************)
(* Processes sharing one approval file: hooks that request and consume,    *)
(* operator commands that grant, reject and sweep.                         *)
(*                                                                         *)
(* Each transaction of ApprovalStore is one step. A method is more than    *)
(* its transaction: request reads the clock before it has the lock, and    *)
(* every method emits its evidence after it has released it, so that a     *)
(* process can die, or the emission can raise, when the file is already    *)
(* replaced. grant_ref and reject_ref read the file, then call grant or    *)
(* reject with the token found: a call with any token stands for them.     *)
(***************************************************************************)
EXTENDS ApprovalStore

CONSTANTS
  Processes,
  Requests,     \* the [bind, key, justify] that request is called with
  MaxAttempts,  \* bound: consume calls on one approval
  MaxInvalid    \* bound: events the evidence path finds invalid

ASSUME RequestsAssumption ==
  Requests \subseteq [bind : Bindings, key : Keys \cup {Unset}, justify : BOOLEAN]

ASSUME BoundsAssumption == MaxAttempts \in Nat /\ MaxInvalid \in Nat

VARIABLES
  call,         \* per process: the request it is about to commit, or Unset
  outbox,       \* per process: events committed and not yet emitted
  success,      \* per process: the approval it has consumed and not yet told of
  evidence,     \* events the evidence path has taken
  deadLetters,  \* events it found invalid (the gateway's dead-letter file)
  wins,         \* history: ConsumeResult(True) returned, per approval
  grants        \* history: [id, justified] of each grant committed

serviceVars == <<approvals, clock, call, outbox, success, evidence, deadLetters, wins,
                 refused, grants>>

Actions == {"requested", "granted", "rejected", "consumed", "failed"}

Event(action, id) == [action |-> action, id |-> id]

Events == [action : Actions, id : ApprovalIds \cup {Unset}]

PendingRequest == [req : Requests, now : Times]

ServiceTypeOK ==
  /\ IsStore(approvals)
  /\ clock \in Times
  /\ call \in [Processes -> PendingRequest \cup {Unset}]
  /\ outbox \in [Processes -> SUBSET Events]
  /\ success \in [Processes -> ApprovalIds \cup {Unset}]
  /\ evidence \subseteq Events
  /\ deadLetters \subseteq Events
  /\ wins \in [ApprovalIds -> Nat]
  /\ refused \subseteq ApprovalIds
  /\ grants \subseteq [id : ApprovalIds, justified : BOOLEAN]

ServiceInit ==
  /\ approvals = EmptyStore
  /\ clock = 0
  /\ call = [p \in Processes |-> Unset]
  /\ outbox = [p \in Processes |-> {}]
  /\ success = [p \in Processes |-> Unset]
  /\ evidence = {}
  /\ deadLetters = {}
  /\ wins = [id \in ApprovalIds |-> 0]
  /\ refused = {}
  /\ grants = {}

Free(p) == call[p] = Unset /\ outbox[p] = {} /\ success[p] = Unset

\* The lock is released with this event left to emit.
ToEmit(p, action, id) ==
  outbox' = [outbox EXCEPT ![p] = {Event(action, id)}]

(***************************************************************************)
(* request: the clock first, the transaction later.                        *)
(***************************************************************************)
BeginRequest(p, r) ==
  /\ Free(p)
  /\ call' = [call EXCEPT ![p] = [req |-> r, now |-> clock]]
  /\ UNCHANGED <<approvals, clock, outbox, success, evidence, deadLetters, wins, refused, grants>>

Draw(p, id) ==
  LET r == call[p].req IN
  /\ WithKey(approvals, r.key) = {}
  /\ id \notin DOMAIN approvals
  /\ approvals' = Put(approvals, id, NewApproval(r.bind, r.key, r.justify, call[p].now))
  /\ ToEmit(p, "requested", id)

\* The key is known: the approval is returned when the request is the same
\* one, and ValueError is raised when it is not. Neither changes anything.
Reuse(p) ==
  /\ WithKey(approvals, call[p].req.key) # {}
  /\ UNCHANGED <<approvals, outbox>>

CommitRequest(p) ==
  /\ call[p] # Unset
  /\ \/ \E id \in ApprovalIds : Draw(p, id)
     \/ Reuse(p)
  /\ call' = [call EXCEPT ![p] = Unset]
  /\ UNCHANGED <<clock, success, evidence, deadLetters, wins, refused, grants>>

(***************************************************************************)
(* grant, reject, consume, sweep_expired                                   *)
(***************************************************************************)
Grant(p, id, justified) ==
  /\ Free(p)
  /\ Grantable(approvals, id)
  /\ LET outcome == GrantOutcome(approvals[id], justified, clock) IN
     /\ approvals' = Granted(approvals, id, outcome)
     /\ ToEmit(p, IF outcome = "granted" THEN "granted" ELSE "failed", id)
     /\ grants' = IF outcome = "granted"
                  THEN grants \cup {[id |-> id, justified |-> justified]}
                  ELSE grants
  /\ UNCHANGED <<clock, call, success, evidence, deadLetters, wins, refused>>

Reject(p, id) ==
  /\ Free(p)
  /\ Rejectable(approvals, id)
  /\ approvals' = Rejected(approvals, id)
  /\ ToEmit(p, "rejected", id)
  /\ refused' = refused \cup {id}
  /\ UNCHANGED <<clock, call, success, evidence, deadLetters, wins, grants>>

ConsumeUnknown(p, id) ==
  /\ Free(p)
  /\ id \notin DOMAIN approvals
  /\ ToEmit(p, "failed", Unset)
  /\ UNCHANGED <<approvals, clock, call, success, evidence, deadLetters, wins, refused,
                 grants>>

Consume(p, id, b) ==
  /\ Free(p)
  /\ id \in DOMAIN approvals
  /\ approvals[id].attempts < MaxAttempts
  /\ LET outcome == ConsumeOutcome(approvals[id], b, clock) IN
     /\ approvals' = Consumed(approvals, id, outcome)
     /\ ToEmit(p, IF outcome = "ok" THEN "consumed" ELSE "failed", id)
     /\ success' = [success EXCEPT ![p] = IF outcome = "ok" THEN id ELSE Unset]
  /\ UNCHANGED <<clock, call, evidence, deadLetters, wins, refused, grants>>

SweepExpired(p) ==
  /\ Free(p)
  /\ Sweepable(approvals, clock) # {}
  /\ approvals' = Swept(approvals, clock)
  /\ outbox' = [outbox EXCEPT ![p] =
                  {Event("failed", id) : id \in Sweepable(approvals, clock)}]
  /\ UNCHANGED <<clock, call, success, evidence, deadLetters, wins, refused, grants>>

(***************************************************************************)
(* After the lock: emission, then the return to the caller.                *)
(***************************************************************************)
\* gateway.emit takes the event, or finds it invalid, before or after the row
\* is in the chain, puts it into the dead-letter file, and says nothing of it.
Emit(p, e) ==
  /\ e \in outbox[p]
  /\ outbox' = [outbox EXCEPT ![p] = @ \ {e}]
  /\ \/ /\ evidence' = evidence \cup {e}
        /\ UNCHANGED deadLetters
     \/ /\ Cardinality(deadLetters) < MaxInvalid
        /\ evidence' \in {evidence, evidence \cup {e}}
        /\ deadLetters' = deadLetters \cup {e}
  /\ UNCHANGED <<approvals, clock, call, success, wins, refused, grants>>

\* Fault: the caller is told before the event is emitted.
TellSuccessFirst(p) ==
  /\ success[p] # Unset
  /\ success' = [success EXCEPT ![p] = Unset]
  /\ wins' = [wins EXCEPT ![success[p]] = @ + 1]
  /\ UNCHANGED <<approvals, clock, call, outbox, evidence, deadLetters, refused, grants>>

\* consume returns ConsumeResult(True).
TellSuccess(p) ==
  /\ success[p] # Unset
  /\ outbox[p] = {}
  /\ success' = [success EXCEPT ![p] = Unset]
  /\ wins' = [wins EXCEPT ![success[p]] = @ + 1]
  /\ UNCHANGED <<approvals, clock, call, outbox, evidence, deadLetters, refused, grants>>

\* The process dies, or the evidence path raises: what was committed stays,
\* what was not emitted is lost, and the caller gets no result.
Abandon(p) ==
  /\ ~Free(p)
  /\ call' = [call EXCEPT ![p] = Unset]
  /\ outbox' = [outbox EXCEPT ![p] = {}]
  /\ success' = [success EXCEPT ![p] = Unset]
  /\ UNCHANGED <<approvals, clock, evidence, deadLetters, wins, refused, grants>>

ServiceTick ==
  /\ clock' \in Times \ {clock}
  /\ UNCHANGED <<approvals, call, outbox, success, evidence, deadLetters, wins, refused,
                 grants>>

ServiceNext ==
  \/ \E p \in Processes :
       \/ \E r \in Requests : BeginRequest(p, r)
       \/ CommitRequest(p)
       \/ \E id \in ApprovalIds :
            \/ \E justified \in BOOLEAN : Grant(p, id, justified)
            \/ Reject(p, id)
            \/ ConsumeUnknown(p, id)
            \/ \E b \in Bindings : Consume(p, id, b)
       \/ SweepExpired(p)
       \/ \E e \in outbox[p] : Emit(p, e)
       \/ TellSuccess(p)
       \/ Abandon(p)
  \/ ServiceTick

ServiceSpec == ServiceInit /\ [][ServiceNext]_serviceVars

(***************************************************************************)
(* Safety                                                                  *)
(***************************************************************************)
\* However many processes consume one approval, and whatever dies in
\* between, no more than one of them is told it succeeded
\* (APPROVAL_MODEL.md: "exactly one success; later attempts produce
\* approval_replay").
OneSuccess == \A id \in ApprovalIds : wins[id] <= 1

\* What the evidence says of an approval agrees with the file and with what
\* callers were told, in whatever order the processes emit what they committed
\* and whichever of them die before: a consumption in evidence is one the file
\* has, of an approval that no evidence says was rejected; and whoever was told
\* of a success, the event that tells of it had been through the evidence path
\* by then, and is in evidence unless that found it invalid.
EvidenceAgrees ==
  \A id \in ApprovalIds :
    /\ Event("consumed", id) \in evidence =>
         /\ id \in DOMAIN approvals /\ approvals[id].status = "consumed"
         /\ Event("rejected", id) \notin evidence
    /\ wins[id] > 0 => Event("consumed", id) \in evidence \cup deadLetters

\* An approval an operator has rejected is never released afterwards, through
\* any path: not by a grant that was under way, nor by a second one.
RejectionIsFinal == \A id \in refused : wins[id] = 0

\* What is released was granted, with a justification when the policy's
\* obligations asked for one.
ReleaseWasGranted ==
  \A id \in ApprovalIds : wins[id] > 0 =>
    \E g \in grants : g.id = id /\ (approvals[id].justify => g.justified)

\* Concurrent requests for one action under one key hold one approval, not
\* two an operator could grant separately.
OneApprovalPerKey ==
  \A i, j \in DOMAIN approvals :
    approvals[i].key = approvals[j].key /\ approvals[i].key # Unset => i = j

\* The store implements the one-time authorization: it draws, authorizes,
\* spends and voids, and nothing void or spent comes back.
AuthOf(id) ==
  IF id \notin DOMAIN approvals THEN "undrawn"
  ELSE CASE approvals[id].status = "pending" -> "held"
         [] approvals[id].status = "approved" -> "authorized"
         [] approvals[id].status = "consumed" -> "spent"
         [] approvals[id].status \in {"rejected", "expired"} -> "void"

OneTime == INSTANCE OneTimeAuthorization
             WITH Tokens <- ApprovalIds, auth <- [id \in ApprovalIds |-> AuthOf(id)]

ImplementsOneTime == OneTime!Spec
=============================================================================
