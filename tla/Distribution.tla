---------------------------- MODULE Distribution ----------------------------
(***************************************************************************)
(* Policy commands (cli/main.py cmd_policy) over one distribution          *)
(* directory: trusted root, distribution state, and the ACTIVE and         *)
(* LAST_KNOWN_GOOD pointers (distribution/client.py and store.py).         *)
(*                                                                         *)
(* Each command is a process that loads the root and the state when it     *)
(* starts and writes its own copy back when it is done; nothing locks the  *)
(* directory. Every replacement of a file is a step, any step may raise,   *)
(* and the process may die between two of them.                            *)
(***************************************************************************)
EXTENDS SignedRelease

CONSTANTS
  Clients,       \* commands that may run at once
  RootExpires,   \* [Roots -> Nat]
  MaxApprovals,  \* bound: rollback_approval_count given to a command
  MaxTime        \* bound: the clock stays in 0..MaxTime

ASSUME DistributionAssumption ==
  /\ RootExpires \in [Roots -> Nat]
  /\ MaxApprovals \in Nat /\ MaxTime \in Nat

VARIABLES
  saved,     \* distribution-state.json
  root,      \* trusted-root.json: its version
  active,    \* ACTIVE: the release of the state it points to, or Unset
  lkg,       \* LAST_KNOWN_GOOD
  clock,
  stage,     \* per command: the step it is at
  mem,       \* per command: the state as it loaded it
  cand,      \* per command: the release it activates
  at,        \* per command: the time it was started with
  prev,      \* per command: what ACTIVE pointed to before it switched
  outcome,   \* per command: what it is about to audit
  trail,     \* per command: how far the event that tells of it has come
  told,      \* per command: what its operator was told
  before     \* history: ACTIVE when the command started

disk == <<saved, root, active, lkg>>
local == <<mem, cand, at, prev>>
report == <<outcome, trail, told, before>>
vars == <<disk, clock, stage, local, report>>

Times == 0..MaxTime

Stages == {"idle", "keep", "switch", "check", "restore", "commit", "root", "audit", "flush"}

Outcomes == {"activated", "refused", "unhealthy", "raised", "rotated"}

\* Having no outcome is none of them.
ASSUME UnsetAssumption == Unset \notin Outcomes \cup {"done", "rejected"}

Pointers == Releases \cup {Unset}

Trails == {"none", "recorded", "exported"}

TypeOK ==
  /\ saved \in Trust /\ root \in Roots
  /\ active \in Pointers /\ lkg \in Pointers
  /\ clock \in Times
  /\ stage \in [Clients -> Stages]
  /\ mem \in [Clients -> Trust]
  /\ cand \in [Clients -> Pointers] /\ prev \in [Clients -> Pointers]
  /\ before \in [Clients -> Pointers]
  /\ at \in [Clients -> Times]
  /\ outcome \in [Clients -> Outcomes \cup {Unset}]
  /\ trail \in [Clients -> Trails]
  /\ told \in [Clients -> {"done", "rejected", Unset}]

Init ==
  /\ saved = NoTrust /\ root = 1
  /\ active = Unset /\ lkg = Unset
  /\ clock = 0
  /\ stage = [c \in Clients |-> "idle"]
  /\ mem = [c \in Clients |-> NoTrust]
  /\ cand = [c \in Clients |-> Unset]
  /\ prev = [c \in Clients |-> Unset]
  /\ before = [c \in Clients |-> Unset]
  /\ at = [c \in Clients |-> 0]
  /\ outcome = [c \in Clients |-> Unset]
  /\ trail = [c \in Clients |-> "none"]
  /\ told = [c \in Clients |-> Unset]

Goto(c, s) == stage' = [stage EXCEPT ![c] = s]

Audit(c, o) ==
  /\ Goto(c, "audit")
  /\ outcome' = [outcome EXCEPT ![c] = o]

\* The process ends, and what it held in memory with it.
End(c, what) ==
  /\ Goto(c, "idle")
  /\ mem' = [mem EXCEPT ![c] = NoTrust]
  /\ at' = [at EXCEPT ![c] = 0]
  /\ prev' = [prev EXCEPT ![c] = Unset]
  /\ outcome' = [outcome EXCEPT ![c] = Unset]
  /\ told' = [told EXCEPT ![c] = what]
  /\ UNCHANGED <<cand, before>>

\* A command starts: RoleVerifier.enroll wants a root that has not expired.
Load(c, r) ==
  /\ stage[c] = "idle"
  /\ clock < RootExpires[root]
  /\ cand' = [cand EXCEPT ![c] = r]
  /\ before' = [before EXCEPT ![c] = active]
  /\ UNCHANGED prev
  /\ told' = [told EXCEPT ![c] = Unset]

(***************************************************************************)
(* policy activate                                                         *)
(***************************************************************************)
\* Verification and staging: the staged copy is nobody's until it is pointed to.
Verify(c, r, approvals) ==
  /\ Load(c, r)
  /\ at' = [at EXCEPT ![c] = clock]
  /\ trail' = [trail EXCEPT ![c] = "none"]
  /\ \/ /\ Accepts(saved, root, r, clock, approvals)
        /\ mem' = [mem EXCEPT ![c] = saved]
        /\ Goto(c, "keep")
        /\ UNCHANGED <<saved, outcome>>
     \/ /\ ~ClockTrusted(saved, clock)
        /\ saved' = [saved EXCEPT !.offline = "CLOCK_UNTRUSTED"]
        /\ mem' = [mem EXCEPT ![c] = saved']
        /\ Audit(c, "refused")
     \/ /\ ClockTrusted(saved, clock)
        /\ ~Accepts(saved, root, r, clock, approvals)
        /\ mem' = [mem EXCEPT ![c] = saved]
        /\ Audit(c, "refused")
        /\ UNCHANGED saved
  /\ UNCHANGED <<root, active, lkg, clock>>

KeepLastKnownGood(c) ==
  /\ stage[c] = "keep"
  /\ prev' = [prev EXCEPT ![c] = active]
  /\ lkg' = IF active = Unset THEN lkg ELSE active
  /\ Goto(c, "switch")
  /\ UNCHANGED <<saved, root, active, clock, mem, cand, at, report>>

Switch(c) ==
  /\ stage[c] = "switch"
  /\ active' = cand[c]
  /\ Goto(c, "check")
  /\ UNCHANGED <<saved, root, lkg, clock, local, report>>

CheckHealth(c) ==
  /\ stage[c] = "check"
  /\ Goto(c, IF cand[c].healthy THEN "commit" ELSE "restore")
  /\ UNCHANGED <<disk, clock, local, report>>

\* Fault: an unhealthy candidate is left when there is nothing to go back to.
RestoreIfAny(c) ==
  /\ stage[c] = "restore"
  /\ active' = IF prev[c] = Unset THEN active ELSE prev[c]
  /\ Audit(c, "unhealthy")
  /\ UNCHANGED <<saved, root, lkg, clock, local, trail, told, before>>

Restore(c) ==
  /\ stage[c] = "restore"
  /\ active' = prev[c]
  /\ Audit(c, "unhealthy")
  /\ UNCHANGED <<saved, root, lkg, clock, local, trail, told, before>>

\* The command's own copy is what it brings up to date and writes.
Commit(c) ==
  /\ stage[c] = "commit"
  /\ mem' = [mem EXCEPT ![c] = Committed(@, cand[c], at[c])]
  /\ saved' = mem'[c]
  /\ Audit(c, "activated")
  /\ UNCHANGED <<root, active, lkg, clock, cand, at, prev, trail, told, before>>

(***************************************************************************)
(* policy rotate-root                                                      *)
(***************************************************************************)
\* Sequential roots up to version v, none of them expired; the file first, the
\* state after it.
RotateRoot(c, v) ==
  /\ Load(c, Unset)
  /\ mem' = [mem EXCEPT ![c] = saved]
  /\ trail' = [trail EXCEPT ![c] = "none"]
  /\ \/ /\ ClockTrusted(saved, clock)
        /\ v > root
        /\ \A w \in (root + 1)..v : clock < RootExpires[w]
        /\ root' = v
        /\ Goto(c, "root")
        /\ UNCHANGED <<saved, outcome>>
     \/ /\ ClockTrusted(saved, clock)
        /\ v <= root \/ \E w \in (root + 1)..v : clock >= RootExpires[w]
        /\ Audit(c, "refused")
        /\ UNCHANGED <<root, saved>>
     \/ /\ ~ClockTrusted(saved, clock)
        /\ saved' = [saved EXCEPT !.offline = "CLOCK_UNTRUSTED"]
        /\ Audit(c, "refused")
        /\ UNCHANGED root
  /\ UNCHANGED <<active, lkg, clock, at>>

SaveRoot(c) ==
  /\ stage[c] = "root"
  /\ saved' = mem[c]
  /\ Audit(c, "rotated")
  /\ UNCHANGED <<root, active, lkg, clock, local, trail, told, before>>

(***************************************************************************)
(* policy status                                                           *)
(***************************************************************************)
\* A change of offline state is saved and recorded; an untrusted clock is
\* neither, because the check has already marked the copy it is compared with.
Status(c) ==
  /\ Load(c, Unset)
  /\ LET now == Freshness(saved, clock) IN
     \/ /\ ClockTrusted(saved, clock) /\ now # saved.offline
        /\ saved' = [saved EXCEPT !.offline = now]
        /\ trail' = [trail EXCEPT ![c] = "exported"]
     \/ /\ ~ClockTrusted(saved, clock) \/ now = saved.offline
        /\ trail' = [trail EXCEPT ![c] = "none"]
        /\ UNCHANGED saved
  /\ UNCHANGED <<root, active, lkg, clock, stage, mem, at, outcome>>

(***************************************************************************)
(* The end of a command: evidence, export, and what the operator reads.    *)
(***************************************************************************)
Good(o) == o \in {"activated", "rotated"}

\* A refusal propagates to main, which prints it and exits: what is queued for
\* export is not flushed.
Record(c) ==
  /\ stage[c] = "audit"
  /\ trail' = [trail EXCEPT ![c] = "recorded"]
  /\ \/ /\ Good(outcome[c])
        /\ Goto(c, "flush")
        /\ UNCHANGED <<local, outcome, told, before>>
     \/ /\ ~Good(outcome[c])
        /\ End(c, "rejected")
  /\ UNCHANGED <<disk, clock>>

Flush(c) ==
  /\ stage[c] = "flush"
  /\ trail' = [trail EXCEPT ![c] = "exported"]
  /\ End(c, "done")
  /\ UNCHANGED <<disk, clock>>

\* A step raises: a full disk, a database that is locked, or a directory that
\* cannot be synced after the file in it was replaced. Within an activation that
\* is audited as a rejection; after it, and within the audit, nothing catches it
\* but main.
Raise(c) ==
  /\ \/ /\ \/ stage[c] \in {"keep", "switch", "check", "restore", "commit"}
           \/ stage[c] = "audit" /\ outcome[c] \in {"activated", "unhealthy"}
        /\ Audit(c, "raised")
        /\ UNCHANGED <<local, told, before>>
     \/ /\ stage[c] \in {"root", "audit", "flush"}
        /\ End(c, "rejected")
  /\ UNCHANGED <<disk, clock, trail>>

Crash(c) ==
  /\ stage[c] # "idle"
  /\ End(c, Unset)
  /\ UNCHANGED <<disk, clock, trail>>

Tick ==
  /\ clock' \in Times \ {clock}
  /\ UNCHANGED <<disk, stage, local, report>>

Activation(c) ==
  \/ \E r \in Releases, approvals \in 0..MaxApprovals : Verify(c, r, approvals)
  \/ KeepLastKnownGood(c)
  \/ Switch(c)
  \/ CheckHealth(c)
  \/ Restore(c)
  \/ Commit(c)

Next ==
  \/ \E c \in Clients :
       \/ Activation(c)
       \/ \E v \in Roots : RotateRoot(c, v)
       \/ SaveRoot(c)
       \/ Status(c)
       \/ Record(c)
       \/ Flush(c)
       \/ Raise(c)
       \/ Crash(c)
  \/ Tick

Spec == Init /\ [][Next]_vars

(***************************************************************************)
(* Properties                                                              *)
(***************************************************************************)
\* The highest versions and the highest policy sequence that were ever
\* committed, and the trusted root, never decrease, whatever a rollback does to
\* ACTIVE and wherever commands die (SIGNED_POLICY_DISTRIBUTION.md: "ACTIVE may
\* move lower, but highest-seen versions and policy sequence never decrease").
NothingTrustedGoesBack ==
  [][/\ saved'.highest >= saved.highest
     /\ \A role \in Roles : saved'.versions[role] >= saved.versions[role]
     /\ root' >= root]_vars

\* A sequence below the highest one committed becomes the active one only by
\* an authorization for this very step down.
LowerIsAuthorized ==
  [][\A c \in Clients :
       stage[c] = "commit" /\ saved' # saved /\ saved'.active < saved.highest =>
         LET auth == cand[c].rollback IN
         /\ auth # Unset
         /\ auth.from = saved.active /\ auth.to = saved'.active
         /\ auth.issued <= at[c] /\ at[c] < auth.expires]_vars

\* One version of a role is one document: what is committed at a version seen
\* before is what was accepted at that version.
OneDocumentPerVersion ==
  [][\A role \in Roles :
       /\ saved'.versions[role] = saved.versions[role]
       /\ saved.digests[role] # Unset
       => saved'.digests[role] = saved.digests[role]]_vars

\* What a command tells its operator is so: a candidate that failed its health
\* check has left ACTIVE where it was, also when there was none; a command that is
\* done has moved ACTIVE and the state alike, and left an event of it in the
\* chain and with the exporter.
OutcomeIsTrue ==
  \A c \in Clients :
    /\ outcome[c] = "unhealthy" => active = before[c]
    /\ told[c] = "done" /\ cand[c] # Unset =>
         /\ active = cand[c]
         /\ saved.active = cand[c].seq /\ saved.bundle = cand[c].bundle
         /\ trail[c] = "exported"
=============================================================================
