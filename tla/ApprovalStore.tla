--------------------------- MODULE ApprovalStore ---------------------------
(***************************************************************************)
(* The approval file (watchmyai/approval/service.py), and each of its      *)
(* locked transactions as an operator on what is in it.                    *)
(*                                                                         *)
(* Every public method of ApprovalService holds a thread lock and an       *)
(* inter-process file lock, reloads the file, works on it and replaces it: *)
(* whatever processes do, the transactions below happen one at a time.     *)
(* What happens around them (the clock read before the lock, the evidence  *)
(* emitted after it, crashes) belongs to the modules that use this one.    *)
(***************************************************************************)
EXTENDS Integers, FiniteSets

CONSTANTS
  ApprovalIds,  \* the random bearer tokens that may be drawn
  Bindings,     \* what an approval can be bound to, or a caller can present
  Keys,         \* idempotency keys
  Unset,        \* a field left empty: "" or None in the code
  TTL,          \* ttl_seconds
  MaxTime       \* bound: the clock stays in 0..MaxTime

VARIABLES
  approvals,  \* the file
  clock,      \* time.time(), a wall clock: it may be set back
  refused     \* history: approvals for which a reject was committed

OptionalFields == {"action_id", "request_id", "decision_id", "policy_bundle_id"}

\* A binding names the scope (session, task, agent and tool), the payload
\* hash, the target hash or Unset, the four optional identifiers and the
\* policy sequence, 0 when there is none.
ASSUME BindingsAssumption ==
  \A b \in Bindings :
    /\ DOMAIN b = {"scope", "payload", "target", "ids", "seq"}
    /\ DOMAIN b.ids = OptionalFields
    /\ b.seq \in Nat

ASSUME TTLAssumption == TTL \in Nat \ {0}

ASSUME ClockAssumption == MaxTime \in Nat

Times == 0..MaxTime

Statuses == {"pending", "approved", "rejected", "expired", "consumed"}

MaxUses == 1

\* The identity of a held action: what an approval is compared on when it is
\* looked up by find_approved.
SameAction(a, b) ==
  /\ a.scope = b.scope
  /\ a.payload = b.payload
  /\ a.target = b.target

Approval ==
  [ bind     : Bindings,
    key      : Keys \cup {Unset},
    justify  : BOOLEAN,          \* requires_justification
    issued   : Nat,
    expires  : Nat,
    status   : Statuses,
    uses     : 0..MaxUses,
    attempts : Nat ]

\* The file: a partial function from drawn tokens to approvals.
IsStore(store) ==
  /\ DOMAIN store \subseteq ApprovalIds
  /\ store \in [DOMAIN store -> Approval]

EmptyStore == [id \in {} |-> Unset]

Put(store, id, a) ==
  [i \in DOMAIN store \cup {id} |-> IF i = id THEN a ELSE store[i]]

Expired(a, now) == now >= a.expires

Live(a, now) ==
  /\ a.status \in {"pending", "approved"}
  /\ a.uses < MaxUses
  /\ ~Expired(a, now)

(***************************************************************************)
(* request                                                                 *)
(***************************************************************************)
NewApproval(b, key, justify, now) ==
  [ bind |-> b, key |-> key, justify |-> justify,
    issued |-> now, expires |-> now + TTL,
    status |-> "pending", uses |-> 0, attempts |-> 0 ]

\* Fault: a key is forgotten once its approval is no longer open.
WithOpenKey(store, key) ==
  {id \in DOMAIN store : /\ store[id].key = key
                         /\ store[id].status \in {"pending", "approved"}}

\* The approvals a request with this idempotency key runs into, whatever
\* their status.
WithKey(store, key) ==
  IF key = Unset THEN {} ELSE {id \in DOMAIN store : store[id].key = key}

\* Two requests under one key agree on every bound field.
SameRequest(a, b, justify) == a.bind = b /\ a.justify = justify

(***************************************************************************)
(* grant and reject                                                        *)
(***************************************************************************)
\* Fault: grant looks only at whether the approval was used.
GrantableUnlessUsed(store, id) == id \in DOMAIN store /\ store[id].uses = 0

Grantable(store, id) == id \in DOMAIN store /\ store[id].status = "pending"

\* Fault: the justification obligation is dropped.
GrantOutcomeUnjustified(a, justified, now) ==
  IF Expired(a, now) THEN "expired" ELSE "granted"

GrantOutcome(a, justified, now) ==
  CASE a.justify /\ ~justified -> "justification_required"
    [] ~(a.justify /\ ~justified) /\ Expired(a, now) -> "expired"
    [] ~(a.justify /\ ~justified) /\ ~Expired(a, now) -> "granted"

Granted(store, id, outcome) ==
  CASE outcome = "granted" -> [store EXCEPT ![id].status = "approved"]
    [] outcome = "expired" -> [store EXCEPT ![id].status = "expired"]
    [] outcome = "justification_required" -> store

Rejectable(store, id) ==
  id \in DOMAIN store /\ store[id].status \in {"pending", "approved"}

Rejected(store, id) == [store EXCEPT ![id].status = "rejected"]

(***************************************************************************)
(* consume                                                                 *)
(***************************************************************************)
\* The presented target is compared only when the approval has one.
TargetMatches(a, b) == a.bind.target # Unset => b.target = a.bind.target

\* An optional identifier binds only when the approval holds one.
IdsMatch(a, b) ==
  \A f \in OptionalFields : a.bind.ids[f] # Unset => b.ids[f] = a.bind.ids[f]

\* Fault: a newer policy is taken to cover what an older one held.
SequenceNotBehind(a, b) == b.seq >= a.bind.seq

SequenceMatches(a, b) == a.bind.seq # 0 => b.seq = a.bind.seq

\* Fault: only refusals and the binding are looked at, not the use count.
ConsumeOutcomeNoReplay(a, b, now) ==
  IF a.status \in {"pending", "rejected", "expired"} THEN "not_approved"
  ELSE IF b # a.bind THEN "binding_mismatch"
  ELSE "ok"

\* The reason consume gives, its tests in the order the code makes them.
ConsumeOutcome(a, b, now) ==
  IF a.uses >= MaxUses \/ a.status = "consumed" THEN "approval_replay"
  ELSE IF Expired(a, now) \/ a.status = "expired" THEN "expired"
  ELSE IF a.status = "rejected" THEN "rejected"
  ELSE IF a.status # "approved" THEN "not_approved"
  ELSE IF b.payload # a.bind.payload THEN "payload_mismatch"
  ELSE IF ~TargetMatches(a, b) THEN "resolved_path_mismatch"
  ELSE IF b.scope # a.bind.scope \/ ~IdsMatch(a, b) THEN "binding_mismatch"
  ELSE IF ~SequenceMatches(a, b) THEN "policy_mismatch"
  ELSE "ok"

\* Every attempt is counted, and an attempt on a rejected approval past its
\* time makes it expired.
Attempted(a, outcome) ==
  [a EXCEPT !.attempts = @ + 1,
            !.uses = IF outcome = "ok" THEN @ + 1 ELSE @,
            !.status = IF outcome = "ok" THEN "consumed"
                       ELSE IF outcome = "expired" THEN "expired" ELSE @]

\* Fault: the use is decided on under the lock but not written back.
ConsumedUnsaved(store, id, outcome) == [store EXCEPT ![id].attempts = @ + 1]

Consumed(store, id, outcome) ==
  [store EXCEPT ![id] = Attempted(store[id], outcome)]

(***************************************************************************)
(* sweep_expired, and the read-only lookup find_approved                   *)
(***************************************************************************)
\* Fault: the sweep expires whatever is past its time.
SweepableAnyStatus(store, now) == {id \in DOMAIN store : Expired(store[id], now)}

Sweepable(store, now) ==
  {id \in DOMAIN store : /\ store[id].status \in {"pending", "approved"}
                         /\ Expired(store[id], now)}

Swept(store, now) ==
  [id \in DOMAIN store |->
     IF id \in Sweepable(store, now)
     THEN [store[id] EXCEPT !.status = "expired"]
     ELSE store[id]]

\* More than one match is an error for find_approved.
ApprovedFor(store, b, now) ==
  {id \in DOMAIN store : /\ store[id].status = "approved"
                         /\ Live(store[id], now)
                         /\ SameAction(store[id].bind, b)}
=============================================================================
