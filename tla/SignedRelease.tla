---------------------------- MODULE SignedRelease ----------------------------
(***************************************************************************)
(* What a distribution client trusts, and which releases it accepts        *)
(* (watchmyai/distribution/client.py and metadata.py), as values and       *)
(* predicates.                                                             *)
(*                                                                         *)
(* Timestamp pins the Snapshot by hash, Snapshot pins Targets, Targets     *)
(* pins the policy file: a release is the four of them together. What the  *)
(* client finds in the bytes alone (envelopes, lengths, hashes, versions   *)
(* that differ from their descriptors, organization, schema, agent         *)
(* version, binding of the policy to its descriptor, capabilities) is one  *)
(* Boolean: each of these tests refuses, and none depends on what is       *)
(* trusted. The tests that do are written out.                             *)
(***************************************************************************)
EXTENDS Integers

CONSTANTS
  Releases,
  Bundles,    \* policy bundle identifiers
  Digests,    \* of signed role metadata
  Unset,
  MaxRoot,    \* root versions are 1..MaxRoot
  Tolerance,  \* clock_rollback_tolerance
  Grace,      \* grace_period
  Skew        \* how far in the future a release may have been issued

Roles == {"timestamp", "snapshot", "targets"}

Roots == 1..MaxRoot

Authorization ==
  [from : Nat, to : Nat, bundle : Bundles, issued : Nat, expires : Nat, minimum : Nat]

ASSUME ReleasesAssumption ==
  /\ MaxRoot \in Nat \ {0} /\ Tolerance \in Nat /\ Grace \in Nat /\ Skew \in Nat
  /\ Unset \notin Releases /\ Unset \notin Digests /\ Unset \notin Bundles
  /\ \A r \in Releases :
       /\ r.sound \in BOOLEAN /\ r.healthy \in BOOLEAN
       /\ r.roots \subseteq Roots          \* thresholds met under these roots
       /\ r.versions \in [Roles -> Nat \ {0}]
       /\ r.digests \in [Roles -> Digests]
       /\ r.expires \in [Roles -> Nat]
       /\ r.bundle \in Bundles /\ r.seq \in Nat \ {0}
       /\ r.issued \in Nat /\ r.targetExpires \in Nat
       /\ r.rollback \in Authorization \cup {Unset}

OfflineStates == {"FRESH", "STALE_GRACE", "STALE_BLOCKED", "CLOCK_UNTRUSTED"}

\* distribution-state.json
Trust ==
  [ versions      : [Roles -> Nat],
    digests       : [Roles -> Digests \cup {Unset}],
    highest       : Nat,                   \* highest_seen_policy_sequence
    active        : Nat,                   \* active_policy_sequence
    bundle        : Bundles \cup {Unset},  \* active_policy_bundle_id
    stampExpires  : Nat \cup {Unset},
    targetExpires : Nat \cup {Unset},
    lastTrusted   : Nat \cup {Unset},
    offline       : OfflineStates ]

NoTrust ==
  [ versions |-> [role \in Roles |-> 0],
    digests |-> [role \in Roles |-> Unset],
    highest |-> 0, active |-> 0, bundle |-> Unset,
    stampExpires |-> Unset, targetExpires |-> Unset, lastTrusted |-> Unset,
    offline |-> "FRESH" ]

ClockTrusted(t, now) ==
  t.lastTrusted # Unset => now + Tolerance >= t.lastTrusted

(***************************************************************************)
(* Acceptance                                                              *)
(***************************************************************************)
\* Fault: a version seen before is taken whatever document it is.
VersionNotLower(t, r, role) == r.versions[role] >= t.versions[role]

\* Not lower than the highest seen, and the same document at the same version.
VersionAccepted(t, r, role) ==
  /\ r.versions[role] >= t.versions[role]
  /\ r.versions[role] = t.versions[role] /\ t.digests[role] # Unset
       => r.digests[role] = t.digests[role]

RoleAccepted(t, root, r, role, now) ==
  /\ root \in r.roots
  /\ now < r.expires[role]
  /\ VersionAccepted(t, r, role)

TargetCurrent(r, now) ==
  /\ now < r.targetExpires
  /\ r.issued <= now + Skew

\* Fault: the sequence is compared with the active one.
LowerThanActive(t, r) == r.seq < t.active

IsRollback(t, r) == r.seq < t.highest

RollbackAuthorized(t, r, now, approvals) ==
  /\ r.rollback # Unset
  /\ r.rollback.from = t.active
  /\ r.rollback.to = r.seq
  /\ r.rollback.bundle = r.bundle
  /\ r.rollback.issued <= now /\ now < r.rollback.expires
  /\ approvals >= r.rollback.minimum

\* A sequence seen before belongs to the bundle that is active.
SequenceAccepted(t, r, now, approvals) ==
  /\ IsRollback(t, r) => RollbackAuthorized(t, r, now, approvals)
  /\ r.seq = t.highest /\ t.highest # 0 => t.bundle = r.bundle

Accepts(t, root, r, now, approvals) ==
  /\ ClockTrusted(t, now)
  /\ r.sound
  /\ \A role \in Roles : RoleAccepted(t, root, r, role, now)
  /\ TargetCurrent(r, now)
  /\ SequenceAccepted(t, r, now, approvals)

(***************************************************************************)
(* What is trusted afterwards                                              *)
(***************************************************************************)
Highest(a, b) == IF a > b THEN a ELSE b

\* Fault: what a rollback activates becomes the highest seen.
CommittedAsSeen(t, r, now) ==
  [ versions |-> r.versions, digests |-> r.digests,
    highest |-> r.seq, active |-> r.seq, bundle |-> r.bundle,
    stampExpires |-> r.expires["timestamp"], targetExpires |-> r.targetExpires,
    lastTrusted |-> now, offline |-> "FRESH" ]

Committed(t, r, now) ==
  [ versions |-> [role \in Roles |-> Highest(t.versions[role], r.versions[role])],
    digests |-> r.digests,
    highest |-> Highest(t.highest, r.seq),
    active |-> r.seq, bundle |-> r.bundle,
    stampExpires |-> r.expires["timestamp"], targetExpires |-> r.targetExpires,
    lastTrusted |-> now, offline |-> "FRESH" ]

Lower(a, b) == IF a < b THEN a ELSE b

\* offline_state, when the clock is trusted.
Freshness(t, now) ==
  IF t.stampExpires = Unset \/ t.targetExpires = Unset THEN "STALE_BLOCKED"
  ELSE IF now < t.stampExpires /\ now < t.targetExpires THEN "FRESH"
  ELSE IF now < Lower(t.stampExpires + Grace, t.targetExpires) THEN "STALE_GRACE"
  ELSE "STALE_BLOCKED"
=============================================================================
