-------------------------- MODULE DistributionProofs --------------------------
(***************************************************************************)
(* What a distribution client trusts, for any releases, roots and clock.   *)
(* The types hold however many commands run at once. The rest is proved    *)
(* for one command at a time: nothing locks the directory, and a command   *)
(* that writes its own copy of the state over another's takes back what    *)
(* the other committed.                                                    *)
(***************************************************************************)
EXTENDS Distribution, TLAPS

\* The hypothesis of the theorems on what is trusted.
OneAtATime == \A c, d \in Clients : c = d

(***************************************************************************)
(* The inductive invariant, for the one command c.                         *)
(***************************************************************************)
Activating == {"keep", "switch", "check", "restore", "commit"}

\* The copy a command works on is the state on disk until it writes it.
CopyIsCurrent(c) == stage[c] \in Activating \cup {"root"} => mem[c] = saved

\* What is being activated was accepted against that very state.
Vetted(c) ==
  stage[c] \in Activating =>
    /\ cand[c] \in Releases
    /\ \A role \in Roles : VersionAccepted(saved, cand[c], role)
    /\ IsRollback(saved, cand[c]) =>
         \E approvals \in Nat : RollbackAuthorized(saved, cand[c], at[c], approvals)

\* Where ACTIVE is in each stage of an activation, and what it can go back to.
PointerFollows(c) ==
  /\ stage[c] = "keep" => active = before[c]
  /\ stage[c] = "switch" => active = before[c] /\ prev[c] = before[c]
  /\ stage[c] \in {"check", "restore", "commit"} => active = cand[c] /\ prev[c] = before[c]
  /\ outcome[c] = "unhealthy" => active = before[c]

CandidateIsActive(c) ==
  active = cand[c] /\ saved.active = cand[c].seq /\ saved.bundle = cand[c].bundle

\* What a command has come to, and what that says of ACTIVE and the state.
ReportFollows(c) ==
  /\ stage[c] \in {"audit", "flush"} <=> outcome[c] # Unset
  /\ stage[c] = "flush" => outcome[c] \in {"activated", "rotated"}
  /\ stage[c] = "root" \/ outcome[c] = "rotated" => cand[c] = Unset
  /\ outcome[c] = "activated" => CandidateIsActive(c)
  /\ told[c] # Unset => stage[c] = "idle"
  /\ told[c] = "done" /\ cand[c] # Unset => CandidateIsActive(c) /\ trail[c] = "exported"

CInv(c) ==
  CopyIsCurrent(c) /\ Vetted(c) /\ PointerFollows(c) /\ ReportFollows(c)

DInv == TypeOK /\ \A c \in Clients : CInv(c)

(***************************************************************************)
(* Types, for any number of commands.                                      *)
(***************************************************************************)
\* No directory, no pointer, no command: everything starts typed.
LEMMA InitType == Init => TypeOK
  <1>1. NoTrust \in Trust
    BY ReleasesAssumption DEF NoTrust, Trust, OfflineStates
  <1>2. QED
    BY <1>1, ReleasesAssumption, DistributionAssumption
    DEF Init, TypeOK, Roots, Pointers, Times, Stages, Outcomes, Trails

\* What activation writes is a distribution state.
LEMMA CommittedType ==
  ASSUME NEW t \in Trust, NEW r \in Releases, NEW now \in Nat
  PROVE  Committed(t, r, now) \in Trust
  <1>1. /\ r.versions \in [Roles -> Nat] /\ r.digests \in [Roles -> Digests]
        /\ r.expires["timestamp"] \in Nat /\ r.targetExpires \in Nat
        /\ r.bundle \in Bundles /\ r.seq \in Nat
    BY ReleasesAssumption DEF Roles
  <1>2. [role \in Roles |-> Highest(t.versions[role], r.versions[role])] \in [Roles -> Nat]
    BY <1>1 DEF Trust, Highest
  <1>3. Highest(t.highest, r.seq) \in Nat
    BY <1>1 DEF Trust, Highest
  <1>4. r.digests \in [Roles -> Digests \cup {Unset}]
    BY <1>1
  <1> HIDE DEF Highest
  <1>5. QED BY <1>1, <1>2, <1>3, <1>4 DEF Committed, Trust, OfflineStates

\* Marking a state with what is known of its freshness keeps it a state.
LEMMA OfflineType ==
  ASSUME NEW t \in Trust, NEW o \in OfflineStates
  PROVE  [t EXCEPT !.offline = o] \in Trust
  BY DEF Trust

\* Whatever the clock, freshness is one of the offline states.
LEMMA FreshnessType ==
  ASSUME NEW t, NEW now
  PROVE  Freshness(t, now) \in OfflineStates
  BY DEF Freshness, OfflineStates

\* The end of a command leaves its variables typed.
LEMMA EndType ==
  ASSUME TypeOK, NEW c \in Clients, NEW what \in {"done", "rejected", Unset},
         End(c, what), UNCHANGED <<disk, clock>>, trail' \in [Clients -> Trails]
  PROVE  TypeOK'
  <1>1. NoTrust \in Trust /\ 0 \in Times
    BY ReleasesAssumption, DistributionAssumption
    DEF NoTrust, Trust, OfflineStates, Times
  <1>2. QED
    BY <1>1 DEF TypeOK, End, Goto, disk, Stages, Pointers, Times

\* What one command may do next.
CommandStep(c) ==
  \/ Activation(c)
  \/ \E v \in Roots : RotateRoot(c, v)
  \/ SaveRoot(c)
  \/ Status(c)
  \/ Record(c)
  \/ Flush(c)
  \/ Raise(c)
  \/ Crash(c)

\* What is being activated is a release.
Staged == \A c \in Clients : stage[c] \in Activating => cand[c] \in Releases

\* policy activate: verification, and what it leaves when it refuses.
LEMMA VerifyType ==
  ASSUME TypeOK, NEW c \in Clients, NEW r \in Releases, NEW approvals,
         Verify(c, r, approvals)
  PROVE  TypeOK'
  <1>1. saved' \in Trust
    BY OfflineType DEF Verify, TypeOK, OfflineStates
  <1>2. mem' \in [Clients -> Trust]
    BY <1>1 DEF Verify, TypeOK
  <1>3. stage' \in [Clients -> Stages] /\ outcome' \in [Clients -> Outcomes \cup {Unset}]
    BY DEF Verify, Goto, Audit, Stages, Outcomes, TypeOK
  <1>4. QED
    BY <1>1, <1>2, <1>3 DEF Verify, Load, TypeOK, Pointers, Trails, Times

\* policy activate: the pointers, the health check and the state.
LEMMA ActivationType ==
  ASSUME TypeOK, Staged, NEW c \in Clients, Activation(c)
  PROVE  TypeOK'
  <1>1. CASE KeepLastKnownGood(c)
    BY <1>1 DEF KeepLastKnownGood, TypeOK, Goto, Stages, Pointers, report, Times
  <1>2. CASE Switch(c)
    BY <1>2 DEF Switch, TypeOK, Goto, Stages, Pointers, local, report, Times
  <1>3. CASE CheckHealth(c)
    BY <1>3 DEF CheckHealth, TypeOK, Goto, Stages, disk, local, report, Times
  <1>4. CASE Restore(c)
    BY <1>4 DEF Restore, Audit, TypeOK, Goto, Stages, Outcomes, Pointers, local, Times
  <1>5. CASE Commit(c)
    <2>1. Committed(mem[c], cand[c], at[c]) \in Trust
      BY <1>5, CommittedType, DistributionAssumption
      DEF TypeOK, Times, Staged, Activating, Commit
    <2>2. mem' \in [Clients -> Trust] /\ saved' \in Trust
      BY <1>5, <2>1 DEF Commit, TypeOK
    <2>3. QED
      BY <1>5, <2>2 DEF Commit, Audit, TypeOK, Goto, Stages, Outcomes, Pointers, Times
  <1>6. QED
    BY <1>1, <1>2, <1>3, <1>4, <1>5, VerifyType DEF Activation

\* policy rotate-root: the root file and the state after it.
LEMMA RotateRootType ==
  ASSUME TypeOK, NEW c \in Clients,
         (\E v \in Roots : RotateRoot(c, v)) \/ SaveRoot(c)
  PROVE  TypeOK'
  <1>1. ASSUME NEW v \in Roots, RotateRoot(c, v)
        PROVE  TypeOK'
    <2>1. saved' \in Trust
      BY <1>1, OfflineType DEF RotateRoot, TypeOK, OfflineStates
    <2>2. /\ stage' \in [Clients -> Stages]
          /\ outcome' \in [Clients -> Outcomes \cup {Unset}]
          /\ root' \in Roots
      BY <1>1 DEF RotateRoot, Goto, Audit, Stages, Outcomes, TypeOK
    <2>3. QED
      BY <1>1, <2>1, <2>2 DEF RotateRoot, Load, TypeOK, Pointers, Trails, Times
  <1>2. CASE SaveRoot(c)
    BY <1>2 DEF SaveRoot, Audit, Goto, TypeOK, Stages, Outcomes, local, Times
  <1>3. QED BY <1>1, <1>2

\* policy status: the state with another offline state, or as it was.
LEMMA StatusType ==
  ASSUME TypeOK, NEW c \in Clients, Status(c)
  PROVE  TypeOK'
  <1>1. saved' \in Trust
    BY OfflineType, FreshnessType DEF Status, TypeOK
  <1>2. QED
    BY <1>1 DEF Status, Load, TypeOK, Pointers, Trails, Times

\* The end of a command, however it ends.
LEMMA EndingType ==
  ASSUME TypeOK, NEW c \in Clients, Record(c) \/ Flush(c) \/ Raise(c) \/ Crash(c)
  PROVE  TypeOK'
  <1>1. CASE Record(c)
    <2>1. trail' \in [Clients -> Trails]
      BY <1>1 DEF Record, TypeOK, Trails
    <2>2. CASE End(c, "rejected")
      BY <1>1, <2>1, <2>2, EndType DEF Record
    <2>3. CASE Goto(c, "flush") /\ UNCHANGED <<local, outcome, told, before>>
      BY <1>1, <2>1, <2>3 DEF Record, Goto, TypeOK, Stages, disk, local, Times
    <2>4. QED BY <1>1, <2>2, <2>3 DEF Record
  <1>2. CASE Flush(c)
    <2>1. trail' \in [Clients -> Trails]
      BY <1>2 DEF Flush, TypeOK, Trails
    <2>2. QED BY <1>2, <2>1, EndType DEF Flush
  <1>3. CASE Raise(c)
    <2>1. CASE End(c, "rejected")
      BY <1>3, <2>1, EndType DEF Raise, TypeOK
    <2>2. CASE Audit(c, "raised") /\ UNCHANGED <<local, told, before>>
      BY <1>3, <2>2 DEF Raise, Audit, Goto, TypeOK, Stages, Outcomes, disk, local, Times
    <2>3. QED BY <1>3, <2>1, <2>2 DEF Raise
  <1>4. CASE Crash(c)
    BY <1>4, EndType DEF Crash, TypeOK
  <1>5. QED BY <1>1, <1>2, <1>3, <1>4

\* No command but one that verified a release moves on to activate it.
LEMMA StagedStep ==
  ASSUME TypeOK, Staged, NEW c \in Clients, CommandStep(c)
  PROVE  Staged'
  <1>1. CASE \E r \in Releases, approvals \in 0..MaxApprovals : Verify(c, r, approvals)
    BY <1>1 DEF Verify, Load, Goto, Audit, Staged, TypeOK, Activating
  <1>2. CASE KeepLastKnownGood(c) \/ Switch(c) \/ CheckHealth(c) \/ Restore(c) \/ Commit(c)
    BY <1>2 DEF KeepLastKnownGood, Switch, CheckHealth, Restore, Commit, local, Goto, Audit,
                Staged, TypeOK, Activating
  <1>3. CASE \E v \in Roots : RotateRoot(c, v)
    BY <1>3 DEF RotateRoot, Load, Goto, Audit, Staged, TypeOK, Activating
  <1>4. CASE SaveRoot(c) \/ Status(c)
    BY <1>4 DEF SaveRoot, Status, Load, local, Goto, Audit, Staged, TypeOK, Activating
  <1>5. CASE Record(c) \/ Flush(c) \/ Raise(c) \/ Crash(c)
    BY <1>5 DEF Record, Flush, Raise, Crash, End, local, Goto, Audit, Staged, TypeOK,
                Activating
  <1>6. QED BY <1>1, <1>2, <1>3, <1>4, <1>5 DEF CommandStep, Activation

\* Whatever commands do, and however many at once, everything keeps its type.
THEOREM TypeCorrect == Spec => [](TypeOK /\ Staged)
  <1>1. Init => TypeOK /\ Staged
    BY InitType DEF Init, Staged, Activating
  <1>2. ASSUME TypeOK, Staged, [Next]_vars
        PROVE  TypeOK' /\ Staged'
    <2>1. CASE Tick
      BY <1>2, <2>1 DEF Tick, TypeOK, Staged, disk, local, report, Times
    <2>2. CASE UNCHANGED vars
      BY <1>2, <2>2 DEF vars, TypeOK, Staged, disk, local, report, Times
    <2>3. ASSUME NEW c \in Clients, CommandStep(c)
          PROVE  TypeOK' /\ Staged'
      <3>1. TypeOK'
        BY <1>2, <2>3, ActivationType, RotateRootType, StatusType, EndingType DEF CommandStep
      <3>2. QED BY <1>2, <2>3, <3>1, StagedStep
    <2>4. QED
      BY <1>2, <2>1, <2>2, <2>3 DEF Next, CommandStep
  <1>3. QED BY <1>1, <1>2, PTL DEF Spec

(***************************************************************************)
(* One command at a time: what each of its steps preserves.                *)
(***************************************************************************)
\* policy activate: what verification accepts is vetted against the state on
\* disk, and a refusal leaves ACTIVE alone.
LEMMA VerifyStep ==
  ASSUME TypeOK, NEW c \in Clients, NEW r \in Releases, NEW approvals \in Nat, CInv(c),
         Verify(c, r, approvals)
  PROVE  CInv(c)'
  <1>1. /\ stage[c] = "idle" /\ outcome[c] = Unset
        /\ cand'[c] = r /\ before'[c] = active /\ at'[c] = clock
        /\ told'[c] = Unset /\ active' = active /\ r # Unset
    BY ReleasesAssumption DEF Verify, Load, TypeOK, CInv, ReportFollows
  <1>2. CASE Accepts(saved, root, r, clock, approvals) /\ stage'[c] = "keep"
             /\ mem'[c] = saved /\ UNCHANGED <<saved, outcome>>
    <2>1. \A role \in Roles : VersionAccepted(saved, r, role)
      BY <1>2 DEF Accepts, RoleAccepted
    <2>2. IsRollback(saved, r) => RollbackAuthorized(saved, r, clock, approvals)
      BY <1>2 DEF Accepts, SequenceAccepted
    <2>3. CopyIsCurrent(c)' /\ Vetted(c)'
      BY <1>1, <1>2, <2>1, <2>2 DEF CopyIsCurrent, Vetted, Activating
    <2>4. PointerFollows(c)' /\ ReportFollows(c)'
      BY <1>1, <1>2, UnsetAssumption DEF PointerFollows, ReportFollows, Outcomes
    <2>5. QED BY <2>3, <2>4 DEF CInv
  <1>3. CASE stage'[c] = "audit" /\ outcome'[c] = "refused"
    BY <1>1, <1>3, UnsetAssumption
    DEF CInv, CopyIsCurrent, Vetted, PointerFollows, ReportFollows, Activating, Outcomes
  <1>4. QED BY <1>2, <1>3 DEF Verify, Goto, Audit, TypeOK

\* policy activate: the pointers. The state does not move until the last step.
LEMMA PointerStep ==
  ASSUME TypeOK, NEW c \in Clients, CInv(c),
         KeepLastKnownGood(c) \/ Switch(c) \/ CheckHealth(c) \/ Restore(c)
  PROVE  CInv(c)'
  <1>1. /\ stage[c] \in {"keep", "switch", "check", "restore"}
        /\ outcome[c] = Unset /\ told[c] = Unset
        /\ saved' = saved /\ mem' = mem /\ cand' = cand /\ at' = at
        /\ told' = told /\ before' = before
    BY DEF KeepLastKnownGood, Switch, CheckHealth, Restore, CInv, ReportFollows, disk,
           local, report
  <1>2. CopyIsCurrent(c)'
    BY <1>1 DEF CInv, CopyIsCurrent, KeepLastKnownGood, Switch, CheckHealth, Restore,
                Activating, Goto, Audit, TypeOK
  <1>3. Vetted(c)'
    BY <1>1 DEF CInv, Vetted, KeepLastKnownGood, Switch, CheckHealth, Restore,
                Activating, Goto, Audit, TypeOK
  <1>4. PointerFollows(c)' /\ ReportFollows(c)'
    BY <1>1, UnsetAssumption
    DEF CInv, PointerFollows, ReportFollows, KeepLastKnownGood, Switch, CheckHealth, Restore,
        Goto, Audit, TypeOK, Outcomes, disk, local, report
  <1>5. QED BY <1>2, <1>3, <1>4 DEF CInv

\* policy activate: the state, which then tells of the release ACTIVE points to.
LEMMA CommitStep ==
  ASSUME TypeOK, NEW c \in Clients, CInv(c), Commit(c)
  PROVE  CInv(c)'
  <1>1. /\ active' = active /\ active = cand[c] /\ cand' = cand
        /\ stage'[c] = "audit" /\ outcome'[c] = "activated" /\ told'[c] = Unset
    BY DEF Commit, Goto, Audit, TypeOK, CInv, PointerFollows, ReportFollows
  <1>2. saved' = Committed(mem[c], cand[c], at[c])
    BY DEF Commit, TypeOK
  <1>3. saved'.active = cand[c].seq /\ saved'.bundle = cand[c].bundle
    BY <1>2 DEF Committed
  <1>4. QED
    BY <1>1, <1>3, UnsetAssumption
    DEF CInv, CopyIsCurrent, Vetted, PointerFollows, ReportFollows, CandidateIsActive,
        Activating, Outcomes

\* policy rotate-root and status activate nothing: they name no release.
LEMMA OtherCommandStep ==
  ASSUME TypeOK, NEW c \in Clients, CInv(c),
         (\E v \in Roots : RotateRoot(c, v)) \/ SaveRoot(c) \/ Status(c)
  PROVE  CInv(c)'
  <1>1. ASSUME NEW v \in Roots, RotateRoot(c, v)
        PROVE  CInv(c)'
    <2>1. /\ outcome[c] = Unset /\ active' = active
          /\ cand'[c] = Unset /\ told'[c] = Unset /\ before'[c] = active
          /\ mem'[c] = saved
      BY <1>1 DEF RotateRoot, Load, TypeOK, CInv, ReportFollows
    <2>2. \/ stage'[c] = "root" /\ saved' = saved /\ outcome' = outcome
          \/ stage'[c] = "audit" /\ outcome'[c] = "refused"
      BY <1>1 DEF RotateRoot, Goto, Audit, TypeOK
    <2>3. QED
      BY <2>1, <2>2, UnsetAssumption
      DEF CInv, CopyIsCurrent, Vetted, PointerFollows, ReportFollows, Activating, Outcomes
  <1>2. CASE SaveRoot(c)
    <2>1. /\ cand'[c] = Unset /\ told'[c] = Unset
          /\ stage'[c] = "audit" /\ outcome'[c] = "rotated"
      BY <1>2 DEF SaveRoot, Goto, Audit, local, TypeOK, CInv, ReportFollows
    <2>2. QED
      BY <2>1, UnsetAssumption
      DEF CInv, CopyIsCurrent, Vetted, PointerFollows, ReportFollows, Activating, Outcomes
  <1>3. CASE Status(c)
    <2>1. /\ stage'[c] = "idle" /\ outcome'[c] = Unset /\ told'[c] = Unset
      BY <1>3 DEF Status, Load, TypeOK, CInv, ReportFollows
    <2>2. QED
      BY <2>1, UnsetAssumption
      DEF CInv, CopyIsCurrent, Vetted, PointerFollows, ReportFollows, Activating, Outcomes
  <1>4. QED BY <1>1, <1>2, <1>3

\* The end of a command: nothing moves any more, and what is told is so.
LEMMA EndingStep ==
  ASSUME TypeOK, NEW c \in Clients, CInv(c),
         Record(c) \/ Flush(c) \/ Raise(c) \/ Crash(c)
  PROVE  CInv(c)'
  <1>1. active' = active /\ saved' = saved /\ cand' = cand /\ before' = before
    BY DEF Record, Flush, Raise, Crash, End, disk, local
  <1>2. ASSUME NEW what \in {"rejected", Unset}, End(c, what)
        PROVE  CInv(c)'
    <2>1. stage'[c] = "idle" /\ outcome'[c] = Unset /\ told'[c] = what
      BY <1>2 DEF End, Goto, TypeOK
    <2>2. QED
      BY <2>1, UnsetAssumption
      DEF CInv, CopyIsCurrent, Vetted, PointerFollows, ReportFollows, Activating, Outcomes
  <1>3. CASE Record(c)
    <2>1. CASE End(c, "rejected")
      BY <1>2, <2>1
    <2>2. CASE Good(outcome[c]) /\ Goto(c, "flush") /\ UNCHANGED <<local, outcome, told, before>>
      BY <1>1, <1>3, <2>2, UnsetAssumption
      DEF Record, Good, Goto, TypeOK, CInv, CopyIsCurrent, Vetted, PointerFollows,
          ReportFollows, CandidateIsActive, Activating, Outcomes, local
    <2>3. QED BY <1>3, <2>1, <2>2 DEF Record
  <1>4. CASE Flush(c)
    <2>1. /\ stage'[c] = "idle" /\ outcome'[c] = Unset /\ told'[c] = "done"
          /\ trail'[c] = "exported"
          /\ stage[c] = "flush"
      BY <1>4 DEF Flush, End, Goto, TypeOK
    <2>2. cand[c] # Unset => CandidateIsActive(c)
      BY <2>1 DEF CInv, ReportFollows
    <2>3. QED
      BY <1>1, <2>1, <2>2, UnsetAssumption
      DEF CInv, CopyIsCurrent, Vetted, PointerFollows, ReportFollows, CandidateIsActive,
          Activating, Outcomes
  <1>5. CASE Raise(c)
    <2>1. CASE End(c, "rejected")
      BY <1>2, <2>1
    <2>2. CASE Audit(c, "raised") /\ UNCHANGED <<local, told, before>>
               /\ stage[c] \in Activating \cup {"audit"}
      <3>1. stage'[c] = "audit" /\ outcome'[c] = "raised" /\ told'[c] = Unset
        BY <2>2 DEF Audit, Goto, TypeOK, CInv, ReportFollows, Activating
      <3>2. QED
        BY <3>1, UnsetAssumption
        DEF CInv, CopyIsCurrent, Vetted, PointerFollows, ReportFollows, Activating, Outcomes
    <2>3. QED BY <1>5, <2>1, <2>2 DEF Raise, Activating
  <1>6. CASE Crash(c)
    BY <1>2, <1>6 DEF Crash
  <1>7. QED BY <1>3, <1>4, <1>5, <1>6

\* With one command, the one that steps is the one the invariant is about.
LEMMA NextDInv ==
  ASSUME OneAtATime, DInv, TypeOK', [Next]_vars
  PROVE  DInv'
  <1>1. ASSUME NEW c \in Clients, CommandStep(c)
        PROVE  CInv(c)'
    <2>1. TypeOK /\ CInv(c)
      BY DEF DInv
    <2>2. ASSUME NEW r \in Releases, NEW approvals \in 0..MaxApprovals, Verify(c, r, approvals)
          PROVE  CInv(c)'
      BY <2>1, <2>2, VerifyStep
    <2>3. QED
      BY <1>1, <2>1, <2>2, PointerStep, CommitStep, OtherCommandStep, EndingStep
      DEF CommandStep, Activation
  <1>2. ASSUME UNCHANGED <<saved, active, stage, local, report>>, NEW c \in Clients
        PROVE  CInv(c)'
    BY <1>2 DEF DInv, CInv, CopyIsCurrent, Vetted, PointerFollows, ReportFollows,
                CandidateIsActive, local, report
  <1>3. ASSUME NEW c \in Clients
        PROVE  CInv(c)'
    <2>1. CASE \E d \in Clients : CommandStep(d)
      BY <1>1, <2>1 DEF OneAtATime
    <2>2. CASE Tick \/ UNCHANGED vars
      BY <1>2, <2>2 DEF Tick, vars, disk
    <2>3. QED BY <2>1, <2>2 DEF Next, CommandStep
  <1>4. QED BY <1>3 DEF DInv

\* The inductive invariant holds as long as one command runs at a time.
THEOREM Invariance ==
  ASSUME OneAtATime
  PROVE  Spec => []DInv
  <1>1. Init => DInv
    <2>1. Init => \A c \in Clients : CInv(c)
      BY UnsetAssumption
      DEF Init, CInv, CopyIsCurrent, Vetted, PointerFollows, ReportFollows, Activating, Outcomes
    <2>2. QED BY <2>1, InitType DEF DInv
  <1>2. DInv /\ TypeOK' /\ [Next]_vars => DInv'
    BY NextDInv
  <1>3. QED BY <1>1, <1>2, TypeCorrect, PTL DEF Spec

(***************************************************************************)
(* What is trusted. A step leaves the state alone, marks it with what is   *)
(* known of its freshness, or commits a vetted release on it.              *)
(***************************************************************************)
SavedStep ==
  \/ saved' = saved
  \/ /\ \A c \in Clients : stage[c] = "idle"
     /\ \E o \in OfflineStates : saved' = [saved EXCEPT !.offline = o]
  \/ \E c \in Clients :
       /\ stage[c] = "commit"
       /\ saved' = Committed(saved, cand[c], at[c])

\* Only verification, a rotation and status mark the state; only activation
\* commits to it; and a rotation writes back the state as it was.
LEMMA SavedSteps ==
  ASSUME OneAtATime, DInv, [Next]_vars
  PROVE  SavedStep /\ root' >= root
  <1>1. TypeOK /\ root \in Nat /\ "CLOCK_UNTRUSTED" \in OfflineStates
    BY ReleasesAssumption DEF DInv, TypeOK, OfflineStates, Roots
  <1>2. ASSUME NEW c \in Clients, stage[c] = "idle", UNCHANGED root,
               \/ saved' = saved
               \/ \E o \in OfflineStates : saved' = [saved EXCEPT !.offline = o]
        PROVE  SavedStep /\ root' >= root
    BY <1>1, <1>2 DEF SavedStep, OneAtATime
  <1>3. ASSUME UNCHANGED <<saved, root>>
        PROVE  SavedStep /\ root' >= root
    BY <1>1, <1>3 DEF SavedStep
  <1>4. ASSUME NEW c \in Clients, CommandStep(c)
        PROVE  SavedStep /\ root' >= root
    <2>1. ASSUME NEW r \in Releases, NEW approvals, Verify(c, r, approvals)
          PROVE  SavedStep /\ root' >= root
      BY <1>1, <1>2, <2>1 DEF Verify, Load
    <2>2. CASE KeepLastKnownGood(c) \/ Switch(c) \/ CheckHealth(c) \/ Restore(c)
      BY <1>3, <2>2 DEF KeepLastKnownGood, Switch, CheckHealth, Restore, disk
    <2>3. CASE Commit(c)
      <3>1. mem[c] = saved
        BY <2>3 DEF Commit, DInv, CInv, CopyIsCurrent, Activating
      <3>2. saved' = Committed(saved, cand[c], at[c]) /\ stage[c] = "commit" /\ root' = root
        BY <1>1, <2>3, <3>1 DEF Commit, TypeOK
      <3>3. QED BY <1>1, <3>2 DEF SavedStep
    <2>4. ASSUME NEW v \in Roots, RotateRoot(c, v)
          PROVE  SavedStep /\ root' >= root
      <3>1. CASE UNCHANGED root
        BY <1>1, <1>2, <2>4, <3>1 DEF RotateRoot, Load
      <3>2. CASE v > root /\ root' = v /\ saved' = saved
        BY <1>1, <3>2 DEF SavedStep, Roots
      <3>3. QED BY <2>4, <3>1, <3>2 DEF RotateRoot
    <2>5. CASE SaveRoot(c)
      BY <1>3, <2>5 DEF SaveRoot, DInv, CInv, CopyIsCurrent
    <2>6. CASE Status(c)
      BY <1>2, <2>6, FreshnessType DEF Status, Load
    <2>7. CASE Record(c) \/ Flush(c) \/ Raise(c) \/ Crash(c)
      BY <1>3, <2>7 DEF Record, Flush, Raise, Crash, disk
    <2>8. QED
      BY <1>4, <2>1, <2>2, <2>3, <2>4, <2>5, <2>6, <2>7 DEF CommandStep, Activation
  <1>5. CASE Tick \/ UNCHANGED vars
    BY <1>3, <1>5 DEF Tick, vars, disk
  <1>6. QED BY <1>4, <1>5 DEF Next, CommandStep

\* What a vetted release commits is never below what was trusted, is one
\* document per version, and lower than the highest sequence only when it is
\* authorized for this very step down.
LEMMA CommittedIsVetted ==
  ASSUME NEW t \in Trust, NEW r \in Releases, NEW now \in Nat,
         \A role \in Roles : VersionAccepted(t, r, role),
         IsRollback(t, r) => \E approvals \in Nat : RollbackAuthorized(t, r, now, approvals)
  PROVE  LET u == Committed(t, r, now) IN
         /\ u.highest >= t.highest
         /\ \A role \in Roles :
              /\ u.versions[role] >= t.versions[role]
              /\ u.versions[role] = t.versions[role] /\ t.digests[role] # Unset =>
                   u.digests[role] = t.digests[role]
         /\ u.active < t.highest =>
              /\ r.rollback # Unset
              /\ r.rollback.from = t.active /\ r.rollback.to = u.active
              /\ r.rollback.issued <= now /\ now < r.rollback.expires
  <1> DEFINE u == Committed(t, r, now)
  <1>1. /\ t.highest \in Nat /\ r.seq \in Nat
        /\ \A role \in Roles : t.versions[role] \in Nat /\ r.versions[role] \in Nat
    BY ReleasesAssumption DEF Trust
  <1>2. /\ u.highest = Highest(t.highest, r.seq)
        /\ u.active = r.seq
        /\ \A role \in Roles :
             /\ u.versions[role] = Highest(t.versions[role], r.versions[role])
             /\ u.digests[role] = r.digests[role]
    BY DEF Committed
  <1> HIDE DEF u
  <1>3. u.highest >= t.highest
    BY <1>1, <1>2 DEF Highest
  <1>4. ASSUME NEW role \in Roles
        PROVE  /\ u.versions[role] >= t.versions[role]
               /\ u.versions[role] = t.versions[role] /\ t.digests[role] # Unset =>
                    u.digests[role] = t.digests[role]
    BY <1>1, <1>2 DEF Highest, VersionAccepted
  <1>5. u.active < t.highest =>
          /\ r.rollback # Unset
          /\ r.rollback.from = t.active /\ r.rollback.to = u.active
          /\ r.rollback.issued <= now /\ now < r.rollback.expires
    BY <1>2 DEF IsRollback, RollbackAuthorized
  <1>6. QED BY <1>3, <1>4, <1>5 DEF u

\* A commit is the commit of a release vetted against the state it replaces.
LEMMA CommitIsVetted ==
  ASSUME DInv, NEW c \in Clients, stage[c] = "commit"
  PROVE  /\ saved \in Trust /\ cand[c] \in Releases /\ at[c] \in Nat
         /\ \A role \in Roles : VersionAccepted(saved, cand[c], role)
         /\ IsRollback(saved, cand[c]) =>
              \E approvals \in Nat : RollbackAuthorized(saved, cand[c], at[c], approvals)
  BY DistributionAssumption DEF DInv, TypeOK, CInv, Vetted, Activating, Times

(***************************************************************************)
(* The theorems.                                                           *)
(***************************************************************************)

\* The highest versions, the highest sequence and the trusted root never
\* decrease, wherever commands raise or die and whatever is rolled back.
THEOREM TrustNeverGoesBack ==
  ASSUME OneAtATime
  PROVE  Spec => NothingTrustedGoesBack
  <1> DEFINE Forward == /\ saved'.highest >= saved.highest
                        /\ \A role \in Roles : saved'.versions[role] >= saved.versions[role]
                        /\ root' >= root
  <1>1. ASSUME DInv, [Next]_vars
        PROVE  Forward
    <2>1. SavedStep /\ root' >= root
      BY <1>1, SavedSteps
    <2>2. saved.highest \in Nat /\ \A role \in Roles : saved.versions[role] \in Nat
      BY <1>1 DEF DInv, TypeOK, Trust
    <2>3. CASE saved' = saved \/ \E o \in OfflineStates : saved' = [saved EXCEPT !.offline = o]
      <3>1. saved'.highest = saved.highest /\ saved'.versions = saved.versions
        BY <1>1, <2>3 DEF DInv, TypeOK, Trust
      <3>2. QED BY <2>1, <2>2, <3>1
    <2>4. ASSUME NEW c \in Clients, stage[c] = "commit",
                 saved' = Committed(saved, cand[c], at[c])
          PROVE  Forward
      <3>1. /\ Committed(saved, cand[c], at[c]).highest >= saved.highest
            /\ \A role \in Roles :
                 Committed(saved, cand[c], at[c]).versions[role] >= saved.versions[role]
        BY <1>1, <2>4, CommitIsVetted, CommittedIsVetted
      <3>2. QED BY <2>1, <2>4, <3>1
    <2>5. QED BY <2>1, <2>3, <2>4 DEF SavedStep
  <1>2. DInv /\ [Next]_vars => [Forward]_vars
    BY <1>1
  <1>3. QED BY <1>2, Invariance, PTL DEF Spec, NothingTrustedGoesBack

\* A sequence below the highest is activated only by an authorization for it.
THEOREM RollbacksAreAuthorized ==
  ASSUME OneAtATime
  PROVE  Spec => LowerIsAuthorized
  <1> DEFINE Authorized ==
        \A c \in Clients :
          stage[c] = "commit" /\ saved' # saved /\ saved'.active < saved.highest =>
            LET auth == cand[c].rollback IN
            /\ auth # Unset
            /\ auth.from = saved.active /\ auth.to = saved'.active
            /\ auth.issued <= at[c] /\ at[c] < auth.expires
  <1>1. ASSUME DInv, [Next]_vars
        PROVE  Authorized
    <2> SUFFICES ASSUME NEW c \in Clients, stage[c] = "commit", saved' # saved,
                        saved'.active < saved.highest
                 PROVE  /\ cand[c].rollback # Unset
                        /\ cand[c].rollback.from = saved.active
                        /\ cand[c].rollback.to = saved'.active
                        /\ cand[c].rollback.issued <= at[c]
                        /\ at[c] < cand[c].rollback.expires
      OBVIOUS
    <2>1. saved' = Committed(saved, cand[c], at[c])
      BY <1>1, SavedSteps DEF SavedStep, OneAtATime
    <2>2. Committed(saved, cand[c], at[c]).active < saved.highest =>
            /\ cand[c].rollback # Unset
            /\ cand[c].rollback.from = saved.active
            /\ cand[c].rollback.to = Committed(saved, cand[c], at[c]).active
            /\ cand[c].rollback.issued <= at[c] /\ at[c] < cand[c].rollback.expires
      BY <1>1, CommitIsVetted, CommittedIsVetted
    <2>3. QED BY <2>1, <2>2
  <1>2. DInv /\ [Next]_vars => [Authorized]_vars
    BY <1>1
  <1>3. QED BY <1>2, Invariance, PTL DEF Spec, LowerIsAuthorized

\* A version that was seen keeps the document it was seen with.
THEOREM VersionsAreDocuments ==
  ASSUME OneAtATime
  PROVE  Spec => OneDocumentPerVersion
  <1> DEFINE Same ==
        \A role \in Roles :
          /\ saved'.versions[role] = saved.versions[role]
          /\ saved.digests[role] # Unset
          => saved'.digests[role] = saved.digests[role]
  <1>1. ASSUME DInv, [Next]_vars
        PROVE  Same
    <2>1. SavedStep
      BY <1>1, SavedSteps
    <2>2. CASE saved' = saved \/ \E o \in OfflineStates : saved' = [saved EXCEPT !.offline = o]
      BY <1>1, <2>2 DEF DInv, TypeOK, Trust
    <2>3. ASSUME NEW c \in Clients, stage[c] = "commit",
                 saved' = Committed(saved, cand[c], at[c])
          PROVE  Same
      <3>1. \A role \in Roles :
              /\ Committed(saved, cand[c], at[c]).versions[role] = saved.versions[role]
              /\ saved.digests[role] # Unset
              => Committed(saved, cand[c], at[c]).digests[role] = saved.digests[role]
        BY <1>1, <2>3, CommitIsVetted, CommittedIsVetted
      <3>2. QED BY <2>3, <3>1
    <2>4. QED BY <2>1, <2>2, <2>3 DEF SavedStep
  <1>2. DInv /\ [Next]_vars => [Same]_vars
    BY <1>1
  <1>3. QED BY <1>2, Invariance, PTL DEF Spec, OneDocumentPerVersion

\* What a command reports of ACTIVE, of the state and of its event is so.
THEOREM ReportsAreTrue ==
  ASSUME OneAtATime
  PROVE  Spec => []OutcomeIsTrue
  <1>1. DInv => OutcomeIsTrue
    BY DEF DInv, CInv, PointerFollows, ReportFollows, CandidateIsActive, OutcomeIsTrue
  <1>2. QED BY <1>1, Invariance, PTL
=============================================================================
