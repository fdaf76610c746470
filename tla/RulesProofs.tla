------------------------------ MODULE RulesProofs ------------------------------
(***************************************************************************)
(* The supported rules, for any rules, texts, exports and queries and any  *)
(* number of changes: what the tools say of source and tree is so, and     *)
(* what is shipped belongs together (RulePack); and what a validation      *)
(* reports of a deployment was earned there (LiveValidation).              *)
(***************************************************************************)
EXTENDS RulePack, LiveValidation, SequenceTheorems, FunctionTheorems, FiniteSetTheorems,
        WellFoundedInduction, TLAPS

-----------------------------------------------------------------------------
(* Natural numbers. *)

LEMMA LeastElement ==
  ASSUME NEW T, T \subseteq Nat, T # {}
  PROVE  \E x \in T : \A y \in T : x <= y
<1>1. IsWellFoundedOn(OpToRel(<, Nat), Nat)
  BY NatLessThanWellFounded
<1>2. PICK x \in T : \A y \in T : ~ (<<y, x>> \in OpToRel(<, Nat))
  BY <1>1, WFMin, Zenon
<1>3. \A y \in T : ~ (y < x)
  BY <1>2 DEF OpToRel
<1>4. QED
  BY <1>3

LEMMA Induction ==
  ASSUME NEW S, 0 \in S, \A n \in Nat : n \in S => n + 1 \in S
  PROVE  \A n \in Nat : n \in S
<1>1. SUFFICES ASSUME {n \in Nat : n \notin S} # {} PROVE FALSE
  OBVIOUS
<1>2. PICK x \in {n \in Nat : n \notin S} : \A y \in {n \in Nat : n \notin S} : x <= y
  BY <1>1, LeastElement
<1>3. x # 0 /\ x - 1 \in Nat /\ x - 1 \in S
  BY <1>2
<1>4. QED
  BY <1>2, <1>3

LEMMA MinIsLeast ==
  ASSUME NEW T, T \subseteq Nat, T # {}
  PROVE  Min(T) \in T /\ \A y \in T : Min(T) <= y
BY LeastElement DEF Min

-----------------------------------------------------------------------------
(* Sequences. *)

LEMMA SetToSeqLists ==
  ASSUME NEW S, IsFiniteSet(S)
  PROVE  SetToSeq(S) \in Seq(S) /\ Range(SetToSeq(S)) = S
<1>1. Cardinality(S) \in Nat /\ ExistsBijection(1..Cardinality(S), S)
  BY FS_CardinalityType
<1>2. PICK f \in Bijection(1..Cardinality(S), S) : TRUE
  BY <1>1 DEF ExistsBijection
<1>3. f \in [1..Cardinality(S) -> S] /\ IsInjective(f)
  BY <1>2, Fun_IsBij DEF Bijection, Injection, IsInjective
<1>4. SetToSeq(S) \in [1..Cardinality(S) -> S] /\ IsInjective(SetToSeq(S))
  BY <1>3 DEF SetToSeq
<1>5. SetToSeq(S) \in Injection(1..Cardinality(S), S)
  BY <1>4 DEF Injection, IsInjective
<1>6. IsFiniteSet(1..Cardinality(S)) /\ Cardinality(1..Cardinality(S)) = Cardinality(S)
  BY <1>1, FS_Interval
<1>7. SetToSeq(S) \in Surjection(1..Cardinality(S), S)
  BY <1>5, <1>6, FS_Injection
<1>8. Range(SetToSeq(S)) = S
  BY <1>7, Fun_SurjectionProperties
<1>9. QED
  BY <1>1, <1>4, <1>8, IsASeq

LEMMA AlternatelyLists ==
  ASSUME NEW S, NEW s \in Seq(S), NEW t \in Seq(S), Len(s) = Len(t)
  PROVE  /\ Alternately(s, t) \in Seq(S)
         /\ Range(Alternately(s, t)) = Range(s) \cup Range(t)
<1> DEFINE u == Alternately(s, t)
           n == Len(s)
<1>1. n \in Nat /\ DOMAIN s = 1..n /\ DOMAIN t = 1..n
  BY LenProperties
<1>2. u = [i \in 1..(2 * n) |-> IF i % 2 = 1 THEN s[(i + 1) \div 2] ELSE t[i \div 2]]
  BY DEF Alternately
<1>3. \A i \in 1..(2 * n) : /\ i % 2 = 1 => (i + 1) \div 2 \in 1..n
                            /\ i % 2 # 1 => i \div 2 \in 1..n
  BY <1>1
<1>4. \A i \in 1..n : /\ (2 * i - 1) \in 1..(2 * n) /\ (2 * i - 1) % 2 = 1 /\ ((2 * i - 1) + 1) \div 2 = i
                      /\ (2 * i) \in 1..(2 * n) /\ (2 * i) % 2 # 1 /\ (2 * i) \div 2 = i
  BY <1>1
<1>5. ASSUME NEW i \in 1..(2 * n) PROVE u[i] \in Range(s) \cup Range(t) /\ u[i] \in S
  <2>1. CASE i % 2 = 1
    <3>1. (i + 1) \div 2 \in DOMAIN s /\ u[i] = s[(i + 1) \div 2]
      BY <1>1, <1>2, <1>3, <2>1
    <3>2. QED
      BY <3>1, ElementOfSeq DEF Range
  <2>2. CASE i % 2 # 1
    <3>1. i \div 2 \in DOMAIN t /\ u[i] = t[i \div 2]
      BY <1>1, <1>2, <1>3, <2>2
    <3>2. QED
      BY <3>1, ElementOfSeq DEF Range
  <2>3. QED
    BY <2>1, <2>2
<1>6. \A i \in 1..n : u[2 * i - 1] = s[i] /\ u[2 * i] = t[i]
  BY <1>2, <1>4
<1>7. DOMAIN u = 1..(2 * n)
  BY <1>2
<1>8. Range(s) \cup Range(t) \subseteq Range(u)
  <2> HIDE DEF u
  <2>1. ASSUME NEW i \in 1..n PROVE s[i] \in Range(u) /\ t[i] \in Range(u)
    BY <1>4, <1>6, <1>7 DEF Range
  <2>2. QED
    BY <1>1, <2>1 DEF Range
<1>9. u \in Seq(S)
  BY <1>1, <1>2, <1>5, <1>7, IsASeq
<1>10. QED
  BY <1>5, <1>7, <1>8, <1>9 DEF Range

-----------------------------------------------------------------------------
(* The plan of a synchronization. *)

\* The groups of which it writes a file for each rule.
Written == {"elastic", "metadata", "playbook", "conformance", "atomic", "malicious", "benign"}
Derived == Foreign \cup Singles \cup (Written \X Rules)

LEMMA ConcatLists ==
  ASSUME NEW S, NEW s \in Seq(S), NEW t \in Seq(S)
  PROVE  s \o t \in Seq(S) /\ Range(s \o t) = Range(s) \cup Range(t)
BY RangeConcatenation, ConcatProperties

LEMMA RulesAreListed ==
  /\ Supported \in Seq(Rules) /\ DOMAIN Supported = 1..Len(Supported) /\ Len(Supported) \in Nat
  /\ \A r \in Rules : \E i \in DOMAIN Supported : Supported[i] = r
  /\ \A i \in DOMAIN Supported : Supported[i] \in Rules
<1>1. Supported \in Seq(Rules)
  BY SupportedAssumption
<1>2. QED
  BY <1>1, LenProperties DEF Rules

\* The files of one group, in the order of the rules.
LEMMA GroupLists ==
  ASSUME NEW g
  PROVE  LET s == [i \in DOMAIN Supported |-> <<g, Supported[i]>>]
         IN  /\ s \in Seq({g} \X Rules) /\ Len(s) = Len(Supported)
             /\ Range(s) = {g} \X Rules
<1> DEFINE s == [i \in DOMAIN Supported |-> <<g, Supported[i]>>]
<1>1. s \in [1..Len(Supported) -> {g} \X Rules]
  BY RulesAreListed
<1>2. s \in Seq({g} \X Rules) /\ Len(s) = Len(Supported)
  <2>1. Len(Supported) \in Nat
    BY RulesAreListed
  <2> HIDE DEF s
  <2>2. QED
    BY <1>1, <2>1, IsASeq
<1>3. Range(s) = {g} \X Rules
  <2>1. Range(s) \subseteq {g} \X Rules
    BY <1>1 DEF Range
  <2>2. ASSUME NEW p \in {g} \X Rules PROVE p \in Range(s)
    <3>1. PICK i \in DOMAIN Supported : Supported[i] = p[2]
      BY RulesAreListed
    <3>2. s[i] = p /\ i \in DOMAIN s
      BY <3>1
    <3>3. QED
      BY <3>2 DEF Range
  <2>3. QED
    BY <2>1, <2>2
<1>4. QED
  BY <1>2, <1>3

\* Files that are removed.
LEMMA UnlinkLists ==
  ASSUME NEW groups \in SUBSET Groups
  PROVE  LET s == SetToSeq(groups \X Retired)
         IN  s \in Seq(groups \X Retired) /\ Range(s) = groups \X Retired
<1>1. IsFiniteSet(Groups)
  <2>1. \A S, x : IsFiniteSet(S) => IsFiniteSet(S \cup {x})
    BY FS_AddElement
  <2>2. IsFiniteSet({"elastic"} \cup {"metadata"} \cup {"playbook"} \cup {"malicious"})
    BY <2>1, FS_Singleton, Zenon
  <2>3. IsFiniteSet({"elastic"} \cup {"metadata"} \cup {"playbook"} \cup {"malicious"}
                      \cup {"benign"} \cup {"atomic"} \cup {"evasion"} \cup {"conformance"})
    BY <2>1, <2>2, Zenon
  <2>4. Groups = {"elastic"} \cup {"metadata"} \cup {"playbook"} \cup {"malicious"}
                      \cup {"benign"} \cup {"atomic"} \cup {"evasion"} \cup {"conformance"}
    BY DEF Groups
  <2>5. QED
    BY <2>3, <2>4
<1>2. IsFiniteSet(groups)
  BY <1>1, FS_Subset
<1>3. IsFiniteSet(groups \X Retired)
  BY <1>2, FS_Product, RulePackAssumption
<1>4. QED
  BY <1>3, SetToSeqLists

LEMMA WiderLists ==
  ASSUME NEW S, NEW T, NEW s \in Seq(S), S \subseteq T
  PROVE  s \in Seq(T)
BY SeqMonotonic

\* It visits every path that is derived from the source, or removed, and no other.
LEMMA PlanLists ==
  Plan \in Seq(Derived) /\ Range(Plan) = Derived
<1> DEFINE of(g) == [i \in DOMAIN Supported |-> <<g, Supported[i]>>]
           gone == {"elastic", "metadata"}
           a == SetToSeq(gone \X Retired)
           b == Alternately(of("elastic"), of("metadata"))
           c == of("playbook")
           d == SetToSeq((Groups \ gone) \X Retired)
           e == << <<"packManifest", "pack">>, <<"scenarios", "pack">> >>
           f == of("conformance")
           g == of("atomic")
           h == Alternately(of("malicious"), of("benign"))
           k == << <<"fixtureManifest", "pack">> >>
<1>1. Plan = a \o b \o c \o d \o e \o f \o g \o h \o k
  BY DEF Plan
<1>2. /\ gone \X Retired \subseteq Derived /\ (Groups \ gone) \X Retired \subseteq Derived
      /\ \A x \in Written : {x} \X Rules \subseteq Derived
      /\ Singles \subseteq Derived
  BY DEF Derived, Foreign, Groups, Written
<1>3. a \in Seq(Derived) /\ Range(a) = gone \X Retired
  <2>1. gone \in SUBSET Groups
    BY DEF Groups
  <2>2. a \in Seq(gone \X Retired) /\ Range(a) = gone \X Retired
    BY <2>1, UnlinkLists
  <2>3. QED
    BY <1>2, <2>2, WiderLists
<1>4. d \in Seq(Derived) /\ Range(d) = (Groups \ gone) \X Retired
  <2>1. (Groups \ gone) \in SUBSET Groups
    OBVIOUS
  <2>2. d \in Seq((Groups \ gone) \X Retired) /\ Range(d) = (Groups \ gone) \X Retired
    BY <2>1, UnlinkLists
  <2>3. QED
    BY <1>2, <2>2, WiderLists
<1>5. ASSUME NEW x \in Written
      PROVE  of(x) \in Seq(Derived) /\ Range(of(x)) = {x} \X Rules /\ Len(of(x)) = Len(Supported)
  <2>1. of(x) \in Seq({x} \X Rules) /\ Range(of(x)) = {x} \X Rules /\ Len(of(x)) = Len(Supported)
    BY GroupLists
  <2>2. QED
    BY <1>2, <2>1, WiderLists
<1>6. b \in Seq(Derived) /\ Range(b) = {"elastic", "metadata"} \X Rules
  <2>1. "elastic" \in Written /\ "metadata" \in Written
    BY DEF Written
  <2>2. b \in Seq(Derived) /\ Range(b) = Range(of("elastic")) \cup Range(of("metadata"))
    <3> DEFINE s == of("elastic")
               t == of("metadata")
    <3>1. s \in Seq(Derived) /\ t \in Seq(Derived) /\ Len(s) = Len(t)
      BY <1>5, <2>1
    <3> HIDE DEF s, t
    <3>2. Alternately(s, t) \in Seq(Derived) /\ Range(Alternately(s, t)) = Range(s) \cup Range(t)
      BY <3>1, AlternatelyLists
    <3>3. QED
      BY <3>2 DEF s, t
  <2>3. QED
    BY <1>5, <2>1, <2>2
<1>7. h \in Seq(Derived) /\ Range(h) = {"malicious", "benign"} \X Rules
  <2>1. "malicious" \in Written /\ "benign" \in Written
    BY DEF Written
  <2>2. h \in Seq(Derived) /\ Range(h) = Range(of("malicious")) \cup Range(of("benign"))
    <3> DEFINE s == of("malicious")
               t == of("benign")
    <3>1. s \in Seq(Derived) /\ t \in Seq(Derived) /\ Len(s) = Len(t)
      BY <1>5, <2>1
    <3> HIDE DEF s, t
    <3>2. Alternately(s, t) \in Seq(Derived) /\ Range(Alternately(s, t)) = Range(s) \cup Range(t)
      BY <3>1, AlternatelyLists
    <3>3. QED
      BY <3>2 DEF s, t
  <2>3. QED
    BY <1>5, <2>1, <2>2
<1>8. /\ c \in Seq(Derived) /\ Range(c) = {"playbook"} \X Rules
      /\ f \in Seq(Derived) /\ Range(f) = {"conformance"} \X Rules
      /\ g \in Seq(Derived) /\ Range(g) = {"atomic"} \X Rules
  BY <1>5 DEF Written
<1>9. e \in Seq(Derived) /\ Range(e) = {<<"packManifest", "pack">>, <<"scenarios", "pack">>}
  <2>1. e \in [1..2 -> Singles]
    BY DEF Singles
  <2>2. e \in Seq(Derived)
    BY <1>2, <2>1
  <2>3. Range(e) = {e[1], e[2]}
    BY <2>1 DEF Range
  <2>4. QED
    BY <2>2, <2>3
<1>10. k \in Seq(Derived) /\ Range(k) = {<<"fixtureManifest", "pack">>}
  <2>1. k \in [1..1 -> Singles]
    BY DEF Singles
  <2>2. k \in Seq(Derived)
    BY <1>2, <2>1
  <2>3. Range(k) = {k[1]}
    BY <2>1 DEF Range
  <2>4. QED
    BY <2>2, <2>3
<1> DEFINE ab == a \o b
           ac == ab \o c
           ad == ac \o d
           ae == ad \o e
           af == ae \o f
           ag == af \o g
           ah == ag \o h
           ak == ah \o k
<1>11. Plan = ak
  BY <1>1
<1> HIDE DEF a, b, c, d, e, f, g, h, k, ab, ac, ad, ae, af, ag, ah, ak
<1>12. ab \in Seq(Derived) /\ Range(ab) = Range(a) \cup Range(b)
  BY <1>3, <1>6, ConcatLists DEF ab
<1>13. ac \in Seq(Derived) /\ Range(ac) = Range(ab) \cup Range(c)
  BY <1>12, <1>8, ConcatLists DEF ac
<1>14. ad \in Seq(Derived) /\ Range(ad) = Range(ac) \cup Range(d)
  BY <1>13, <1>4, ConcatLists DEF ad
<1>15. ae \in Seq(Derived) /\ Range(ae) = Range(ad) \cup Range(e)
  BY <1>14, <1>9, ConcatLists DEF ae
<1>16. af \in Seq(Derived) /\ Range(af) = Range(ae) \cup Range(f)
  BY <1>15, <1>8, ConcatLists DEF af
<1>17. ag \in Seq(Derived) /\ Range(ag) = Range(af) \cup Range(g)
  BY <1>16, <1>8, ConcatLists DEF ag
<1>18. ah \in Seq(Derived) /\ Range(ah) = Range(ag) \cup Range(h)
  BY <1>17, <1>7, ConcatLists DEF ah
<1>19. ak \in Seq(Derived) /\ Range(ak) = Range(ah) \cup Range(k)
  BY <1>18, <1>10, ConcatLists DEF ak
<1>20. Range(Plan) = Range(a) \cup Range(b) \cup Range(c) \cup Range(d) \cup Range(e)
                       \cup Range(f) \cup Range(g) \cup Range(h) \cup Range(k)
  BY <1>11, <1>12, <1>13, <1>14, <1>15, <1>16, <1>17, <1>18, <1>19
<1>21. Range(Plan) = Derived
  <2>1. Range(a) \cup Range(d) = Foreign
    BY <1>3, <1>4 DEF Foreign, Groups
  <2>2. Range(e) \cup Range(k) = Singles
    BY <1>9, <1>10 DEF Singles
  <2>3. Range(b) \cup Range(c) \cup Range(f) \cup Range(g) \cup Range(h) = Written \X Rules
    BY <1>6, <1>7, <1>8 DEF Written
  <2>4. QED
    BY <1>20, <2>1, <2>2, <2>3 DEF Derived
<1>22. QED
  BY <1>11, <1>19, <1>21

LEMMA PlanVisits ==
  /\ Len(Plan) \in Nat /\ DOMAIN Plan = 1..Len(Plan)
  /\ { Plan[i] : i \in 1..Len(Plan) } = Derived
<1>1. Plan \in Seq(Derived) /\ Range(Plan) = Derived
  BY PlanLists
<1>2. QED
  BY <1>1, LenProperties DEF Range

\* The step at which a synchronization stops is the first that raises.
LEMMA ReachedIsFirst ==
  ASSUME NEW files, NEW text
  PROVE  /\ Completes(files, text) <=> \A p \in Derived : ~Raises(p, files[p], text)
         /\ ~Completes(files, text) =>
              /\ Reached(files, text) \in 0..(Len(Plan) - 1)
              /\ Raises(Plan[Reached(files, text) + 1], files[Plan[Reached(files, text) + 1]], text)
              /\ \A i \in 1..Reached(files, text) : ~Raises(Plan[i], files[Plan[i]], text)
<1> DEFINE I == { i \in 1..Len(Plan) : Raises(Plan[i], files[Plan[i]], text) }
           n == Reached(files, text)
<1>1. n = (IF I # {} THEN Min(I) ELSE 0) - 1
  BY DEF Reached, SelectInSeq
<1>2. I \subseteq Nat /\ Len(Plan) \in Nat
  BY PlanVisits
<1>3. I = {} <=> \A p \in Derived : ~Raises(p, files[p], text)
  BY PlanVisits
<1>4. Completes(files, text) <=> n = -1
  BY DEF Completes
<1>5. CASE I = {}
  <2>1. n = -1
    BY <1>1, <1>5
  <2>2. QED
    BY <1>3, <1>4, <1>5, <2>1
<1>6. CASE I # {}
  <2> DEFINE m == Min(I)
  <2>1. m \in I /\ \A i \in I : m <= i
    BY <1>2, <1>6, MinIsLeast
  <2>2. n = m - 1
    BY <1>1, <1>6
  <2> HIDE DEF m
  <2>3. m \in 1..Len(Plan) /\ Raises(Plan[m], files[Plan[m]], text)
    BY <2>1
  <2> HIDE DEF n
  <2>4. n \in 0..(Len(Plan) - 1) /\ n + 1 = m /\ n # -1
    BY <1>2, <2>2, <2>3
  <2>5. \A i \in 1..n : ~Raises(Plan[i], files[Plan[i]], text)
    <3>1. SUFFICES ASSUME NEW i \in 1..n, Raises(Plan[i], files[Plan[i]], text) PROVE FALSE
      OBVIOUS
    <3>2. i \in 1..Len(Plan) /\ i < m
      BY <1>2, <2>3, <2>4
    <3>3. i \in I
      BY <3>1, <3>2
    <3>4. QED
      BY <2>1, <2>3, <3>2, <3>3
  <2>6. ~Completes(files, text)
    BY <1>4, <2>4
  <2>7. n = Reached(files, text)
    BY DEF n
  <2>8. QED
    BY <1>3, <1>6, <2>3, <2>4, <2>5, <2>6, <2>7
<1>7. QED
  BY <1>5, <1>6

\* A synchronization that completes has written every path of the plan, and one
\* that stops has not touched the path at which it does.
LEMMA SyncedAll ==
  ASSUME NEW files, NEW text, Completes(files, text)
  PROVE  Synced(files, text) =
           [p \in Paths |-> IF p \in Derived THEN Result(p, files[p], text) ELSE files[p]]
BY PlanVisits DEF Synced, After

LEMMA SyncedStops ==
  ASSUME NEW files, NEW text, ~Completes(files, text)
  PROVE  \E p \in Derived : Raises(p, files[p], text) /\ Synced(files, text)[p] = files[p]
<1> DEFINE n == Reached(files, text)
           p == Plan[n + 1]
           done == { Plan[i] : i \in 1..n }
<1>1. /\ n \in 0..(Len(Plan) - 1)
      /\ Raises(p, files[p], text)
      /\ \A i \in 1..n : ~Raises(Plan[i], files[Plan[i]], text)
  BY ReachedIsFirst
<1>2. p \in Derived
  BY <1>1, PlanVisits
<1>3. p \notin done
  BY <1>1
<1>4. p \in Paths
  BY <1>2 DEF Derived, Paths, Managed, Foreign, Singles, Written, Groups
<1>5. Synced(files, text) = [q \in Paths |-> IF q \in done THEN Result(q, files[q], text) ELSE files[q]]
  BY DEF Synced, After
<1>6. Synced(files, text)[p] = files[p]
  BY <1>3, <1>4, <1>5
<1>7. QED
  BY <1>1, <1>2, <1>6

-----------------------------------------------------------------------------
(* What a synchronization writes. *)

\* What there may be at a metadata file: gen is the rule's text as it shows, or
\* something else; own is what a synchronization can only keep.
OwnFields == [gen : { Part("metadata", text) : text \in Texts } \cup {Odd}, own : Owns]
MetadataOK(files) == \A r \in Rules : files[<<"metadata", r>>] \in OwnFields \cup {None, Torn}

LEMMA ForeignGoes ==
  ASSUME NEW text, NEW found, NEW p \in Foreign
  PROVE  Result(p, found, text) = None
BY DEF Result

LEMMA SinglesCome ==
  ASSUME NEW text, NEW found, NEW p \in Singles
  PROVE  Result(p, found, text) = "pack"
<1>1. p \notin Foreign
  BY DEF Foreign, Singles, Groups
<1>2. QED
  BY <1>1 DEF Result, Singles

LEMMA MetadataComes ==
  ASSUME NEW text, NEW found, NEW r \in Rules
  PROVE  Result(<<"metadata", r>>, found, text) = Metadata(text[r], Kept(found.own))
<1>1. <<"metadata", r>> \notin Foreign /\ <<"metadata", r>> \notin Singles
  BY RulePackAssumption DEF Foreign, Singles
<1>2. QED
  BY <1>1 DEF Result

LEMMA KeptIsOwn ==
  ASSUME NEW own \in Owns
  PROVE  Kept(own) \in Owns
BY DEF Kept, Owns

LEMMA ConformanceComes ==
  ASSUME NEW text, NEW found, NEW r \in Rules
  PROVE  Result(<<"conformance", r>>, found, text) \in {None, Part("conformance", text[r])}
<1>1. <<"conformance", r>> \notin Foreign /\ <<"conformance", r>> \notin Singles
  BY RulePackAssumption DEF Foreign, Singles
<1>2. QED
  BY <1>1 DEF Result

LEMMA OthersCome ==
  ASSUME NEW text, NEW found, NEW r \in Rules,
         NEW g \in {"elastic", "playbook", "malicious", "benign", "atomic"}
  PROVE  Result(<<g, r>>, found, text) = Part(g, text[r])
<1>1. <<g, r>> \notin Foreign /\ <<g, r>> \notin Singles
  BY RulePackAssumption DEF Foreign, Singles
<1>2. QED
  BY <1>1 DEF Result

LEMMA DerivedPaths ==
  /\ Foreign \subseteq Derived /\ Singles \subseteq Derived
  /\ \A g \in Written, r \in Rules : <<g, r>> \in Derived
  /\ Derived \subseteq Managed /\ Managed \subseteq Paths
  /\ Deferred \in Paths /\ Deferred \notin Derived
BY DEF Derived, Written, Managed, Paths, Foreign, Singles, Groups, Deferred

LEMMA CompleteIsExact ==
  ASSUME NEW files, NEW text, Completes(files, text), MetadataOK(files)
  PROVE  DerivedIsExact(Synced(files, text), text)
<1> DEFINE copy == Synced(files, text)
<1>1. \A p \in Derived : copy[p] = Result(p, files[p], text) /\ ~Raises(p, files[p], text)
  BY SyncedAll, ReachedIsFirst, DerivedPaths
<1> HIDE DEF copy
<1>2. \A p \in Foreign : copy[p] = None
  BY <1>1, ForeignGoes, DerivedPaths
<1>3. \A p \in Singles : copy[p] = "pack"
  BY <1>1, SinglesCome, DerivedPaths
<1>4. ASSUME NEW r \in Rules
      PROVE  /\ copy[<<"metadata", r>>] \in { Metadata(text[r], own) : own \in Owns }
             /\ copy[<<"conformance", r>>] \in {None, Part("conformance", text[r])}
             /\ \A g \in {"elastic", "playbook", "malicious", "benign", "atomic"} :
                  copy[<<g, r>>] = Part(g, text[r])
  <2>1. \A g \in Written : copy[<<g, r>>] = Result(<<g, r>>, files[<<g, r>>], text)
    BY <1>1, DerivedPaths
  <2>2. copy[<<"metadata", r>>] = Metadata(text[r], Kept(files[<<"metadata", r>>].own))
    BY <2>1, MetadataComes DEF Written
  <2>3. ~Raises(<<"metadata", r>>, files[<<"metadata", r>>], text)
    BY <1>1, DerivedPaths DEF Written
  <2>4. files[<<"metadata", r>>] \notin {None, Torn}
    BY <2>3 DEF Raises, Unreadable
  <2>5. Kept(files[<<"metadata", r>>].own) \in Owns
    BY <2>4, KeptIsOwn DEF MetadataOK, OwnFields
  <2>6. copy[<<"metadata", r>>] \in { Metadata(text[r], own) : own \in Owns }
    BY <2>2, <2>5
  <2>7. copy[<<"conformance", r>>] \in {None, Part("conformance", text[r])}
    BY <2>1, ConformanceComes DEF Written
  <2>8. ASSUME NEW g \in {"elastic", "playbook", "malicious", "benign", "atomic"}
        PROVE  copy[<<g, r>>] = Part(g, text[r])
    <3>1. g \in Written
      BY DEF Written
    <3>2. Result(<<g, r>>, files[<<g, r>>], text) = Part(g, text[r])
      BY OthersCome
    <3>3. QED
      BY <2>1, <3>1, <3>2
  <2>9. QED
    BY <2>6, <2>7, <2>8
<1>5. QED
  BY <1>2, <1>3, <1>4 DEF DerivedIsExact, copy

\* Content that is derived is no missing, torn or odd file.
LEMMA PartIsContent ==
  ASSUME NEW t \in Texts
  PROVE  /\ \A g \in Groups \ {"evasion"} : Part(g, t) \notin {None, Torn, Odd}
         /\ \A own \in Owns : Metadata(t, own) \notin {None, Torn, Odd}
<1>1. ASSUME NEW g \in Groups \ {"evasion"} PROVE Part(g, t) \in Contents
  BY DEF Contents
<1>2. ASSUME NEW own \in Owns PROVE Metadata(t, own) \in Contents
  BY DEF Contents
<1>3. {None, Torn, Odd} \cap Contents = {}
  BY RulePackAssumption
<1>4. QED
  BY <1>1, <1>2, <1>3

\* What a synchronization completes with lacks nothing.
LEMMA CompleteLacksNothing ==
  ASSUME NEW files, NEW text, Completes(files, text), NEW r \in Rules
  PROVE  text[r].lacks = "nothing"
<1>1. <<"metadata", r>> \in Derived
  BY DerivedPaths DEF Written
<1>2. ~Raises(<<"metadata", r>>, files[<<"metadata", r>>], text)
  BY <1>1, ReachedIsFirst
<1>3. QED
  BY <1>2 DEF Raises, Unreadable

LEMMA ExactAgrees ==
  ASSUME NEW files, NEW text \in [Rules -> Texts], \A r \in Rules : text[r].lacks = "nothing",
         DerivedIsExact(files, text), files[Deferred] = "whole"
  PROVE  Agrees(files, text)
<1>1. ASSUME NEW r \in Rules
      PROVE  /\ files[<<"elastic", r>>] = Part("elastic", text[r])
             /\ files[<<"elastic", r>>] # None
  <2>1. files[<<"elastic", r>>] = Part("elastic", text[r])
    BY DEF DerivedIsExact
  <2>2. Part("elastic", text[r]) # None
    BY PartIsContent DEF Groups
  <2>3. QED
    BY <2>1, <2>2
<1>2. ASSUME NEW id \in Retired PROVE files[<<"elastic", id>>] = None
  <2>1. <<"elastic", id>> \in Foreign
    BY DEF Foreign, Groups
  <2>2. QED
    BY <2>1 DEF DerivedIsExact
<1>3. { id \in Rules \cup Retired : files[<<"elastic", id>>] # None } = Rules
  BY <1>1, <1>2, RulePackAssumption
<1>4. ASSUME NEW r \in Rules
      PROVE  /\ files[<<"metadata", r>>] \notin {None, Torn}
             /\ LET gen == files[<<"metadata", r>>].gen
                IN  gen # Odd /\ \A f \in Compared : gen[f] = text[r][f]
  <2>1. PICK own \in Owns : files[<<"metadata", r>>] = Metadata(text[r], own)
    BY DEF DerivedIsExact
  <2>2. files[<<"metadata", r>>] \notin {None, Torn}
    BY <2>1, PartIsContent
  <2>3. files[<<"metadata", r>>].gen = Part("metadata", text[r])
    BY <2>1 DEF Metadata
  <2>4. Part("metadata", text[r]) # Odd
    BY PartIsContent DEF Groups
  <2>5. \A f \in Compared : Part("metadata", text[r])[f] = text[r][f]
    BY DEF Part, Shown, Compared
  <2>6. QED
    BY <2>2, <2>3, <2>4, <2>5
<1>5. QED
  BY <1>1, <1>3, <1>4 DEF Agrees

-----------------------------------------------------------------------------
(* The state. *)

TreeOK ==
  /\ source \in [flaw : {"none", "torn", "ids", "enabled"}, text : [Rules -> Texts]]
  /\ DOMAIN tree = Paths
  /\ MetadataOK(tree)

Manifests == [describes : [Rules -> Texts]]
Ndjsons == [Rules -> Texts]

WorkOK ==
  /\ out \in [ndjson   : Ndjsons \cup {None},
              manifest : Manifests \cup {None},
              sums     : [ndjson : Ndjsons \cup {None}, manifest : Manifests \cup {None}] \cup {None}]
  /\ packager \in [at : {"idle", "build", "manifest", "sums"}, text : [Rules -> Texts]]
  /\ said \in [by : {"none", "sync", "check", "validate", "recover"}, pass : BOOLEAN]
  /\ changes \in Nat

PackTypeOK == TreeOK /\ WorkOK

\* What the last tool said still holds of source and tree.
SaidOK ==
  /\ said.pass => Agrees(tree, source.text)
  /\ said.pass /\ said.by # "recover" => DerivedIsExact(tree, source.text)
  /\ said = [by |-> "validate", pass |-> TRUE] => Validates(source, tree)

\* Where a packaging stands, and what the shipped files are then.
PackageOK ==
  /\ packager.at \in {"manifest", "sums"} => out.ndjson = packager.text
  /\ packager.at = "sums" => out.manifest = [describes |-> packager.text]
  /\ out.sums # None =>
       out.sums = [ndjson |-> out.sums.ndjson, manifest |-> [describes |-> out.sums.ndjson]]

\* Synchronizing keeps what metadata holds of its own.
LEMMA AfterKeepsMetadata ==
  ASSUME NEW files, NEW text \in [Rules -> Texts], NEW n \in 0..Len(Plan), MetadataOK(files),
         \A i \in 1..n : ~Raises(Plan[i], files[Plan[i]], text)
  PROVE  MetadataOK(After(files, text, n))
<1> DEFINE done == { Plan[i] : i \in 1..n }
<1>1. SUFFICES ASSUME NEW r \in Rules
               PROVE  After(files, text, n)[<<"metadata", r>>] \in OwnFields \cup {None, Torn}
  BY DEF MetadataOK
<1> DEFINE p == <<"metadata", r>>
<1>2. p \in Paths
  BY DerivedPaths DEF Written
<1>3. files[p] \in OwnFields \cup {None, Torn}
  BY DEF MetadataOK
<1>4. CASE p \notin done
  BY <1>2, <1>3, <1>4 DEF After
<1>5. CASE p \in done
  <2>1. ~Raises(p, files[p], text)
    BY <1>5
  <2>2. files[p] \notin {None, Torn}
    BY <2>1 DEF Raises, Unreadable
  <2>3. After(files, text, n)[p] = Metadata(text[r], Kept(files[p].own))
    BY <1>2, <1>5, MetadataComes DEF After
  <2>4. Kept(files[p].own) \in Owns /\ text[r] \in Texts
    BY <1>3, <2>2, KeptIsOwn DEF OwnFields
  <2>5. QED
    BY <2>3, <2>4 DEF Metadata, OwnFields
<1>6. QED
  BY <1>4, <1>5

LEMMA SyncedKeepsMetadata ==
  ASSUME NEW files, NEW text \in [Rules -> Texts], MetadataOK(files)
  PROVE  MetadataOK(Synced(files, text)) /\ DOMAIN Synced(files, text) = Paths
<1>1. CASE Completes(files, text)
  <2>1. \A i \in 1..Len(Plan) : ~Raises(Plan[i], files[Plan[i]], text)
    BY <1>1, ReachedIsFirst, PlanVisits
  <2>2. MetadataOK(After(files, text, Len(Plan)))
    BY <2>1, PlanVisits, AfterKeepsMetadata
  <2>3. QED
    BY <1>1, <2>2 DEF Synced, After
<1>2. CASE ~Completes(files, text)
  <2>1. /\ Reached(files, text) \in 0..Len(Plan)
        /\ \A i \in 1..Reached(files, text) : ~Raises(Plan[i], files[Plan[i]], text)
    BY <1>2, ReachedIsFirst, PlanVisits
  <2>2. MetadataOK(After(files, text, Reached(files, text)))
    BY <2>1, AfterKeepsMetadata
  <2>3. QED
    BY <1>2, <2>2 DEF Synced, After
<1>3. QED
  BY <1>1, <1>2

\* A rule that an export has an alert of has a newest one.
LEMMA LatestIsOne ==
  ASSUME NEW export \in Exports, NEW r, \E i \in DOMAIN export : export[i].rule = r
  PROVE  Latest(export, r) \in DOMAIN export
<1> DEFINE of == { i \in DOMAIN export : export[i].rule = r }
           Newest(m, S) == \A j \in S : \/ export[j].updated < export[m].updated
                                        \/ export[j].updated = export[m].updated /\ j <= m
           upTo(n) == { i \in of : i <= n }
           S == { n \in Nat : upTo(n) # {} => \E m \in upTo(n) : Newest(m, upTo(n)) }
<1>1. /\ DOMAIN export = 1..Len(export) /\ Len(export) \in Nat
      /\ \A i \in DOMAIN export : export[i].updated \in Nat
  BY RulePackAssumption, LenProperties
<1>2. 0 \in S
  BY <1>1
<1>3. ASSUME NEW n \in Nat, n \in S PROVE n + 1 \in S
  <2>1. CASE n + 1 \notin of
    <3>1. upTo(n + 1) = upTo(n)
      BY <1>1, <2>1
    <3>2. QED
      BY <1>3, <3>1
  <2>2. CASE n + 1 \in of
    <3>1. upTo(n + 1) = upTo(n) \cup {n + 1}
      BY <1>1, <2>2
    <3>2. \A i \in upTo(n + 1) : i \in Nat /\ export[i].updated \in Nat
      BY <1>1
    <3>3. CASE upTo(n) = {}
      <4>1. Newest(n + 1, upTo(n + 1))
        BY <3>1, <3>3
      <4>2. QED
        BY <3>1, <4>1
    <3>4. CASE upTo(n) # {}
      <4>1. PICK m \in upTo(n) : Newest(m, upTo(n))
        BY <1>3, <3>4
      <4>2. m \in Nat /\ m <= n /\ m \in upTo(n + 1) /\ n + 1 \in upTo(n + 1)
        BY <1>1, <3>1
      <4>3. \A j \in upTo(n) : j \in Nat /\ j <= n
        BY <1>1
      <4>4. CASE export[m].updated <= export[n + 1].updated
        <5>1. \A j \in upTo(n) : \/ export[j].updated < export[n + 1].updated
                                 \/ export[j].updated = export[n + 1].updated /\ j <= n + 1
          BY <3>1, <3>2, <4>1, <4>2, <4>3, <4>4
        <5>2. Newest(n + 1, upTo(n + 1))
          BY <3>1, <5>1
        <5>3. QED
          BY <4>2, <5>2
      <4>5. CASE ~(export[m].updated <= export[n + 1].updated)
        <5>1. export[n + 1].updated < export[m].updated
          BY <3>2, <4>2, <4>5
        <5>2. Newest(m, upTo(n + 1))
          BY <3>1, <4>1, <5>1
        <5>3. QED
          BY <4>2, <5>2
      <4>6. QED
        BY <4>4, <4>5
    <3>5. QED
      BY <3>3, <3>4
  <2>3. QED
    BY <2>1, <2>2
<1> HIDE DEF S
<1>4. Len(export) \in S
  BY <1>1, <1>2, <1>3, Induction
<1> USE DEF S
<1>5. upTo(Len(export)) = of /\ of # {}
  BY <1>1
<1>6. \E m \in of : Newest(m, of)
  BY <1>4, <1>5
<1>7. Latest(export, r) \in of
  BY <1>6 DEF Latest
<1>8. QED
  BY <1>7

LEMMA TextsAre ==
  /\ \A r \in Rules : \A t \in OtherTexts[r] : t \in Texts
  /\ \A export \in Exports : \A i \in DOMAIN export : export[i].text \in Texts
<1>1. ASSUME NEW r \in Rules, NEW t \in OtherTexts[r] PROVE t \in UNION Range(OtherTexts)
  BY RulePackAssumption DEF Range
<1>2. ASSUME NEW export \in Exports, NEW i \in DOMAIN export PROVE export[i].text \in Texts
  <2> DEFINE textsOf(e) == { e[j].text : j \in DOMAIN e }
  <2>1. export[i].text \in textsOf(export)
    OBVIOUS
  <2>2. textsOf(export) \in { textsOf(e) : e \in Exports }
    OBVIOUS
  <2>3. export[i].text \in UNION { textsOf(e) : e \in Exports }
    <3> HIDE DEF textsOf
    <3> QED BY <2>1, <2>2
  <2>4. QED
    BY <2>3 DEF Texts
<1>3. ASSUME NEW r \in Rules, NEW t \in OtherTexts[r] PROVE t \in Texts
  BY <1>1 DEF Texts
<1>4. QED
  BY <1>2, <1>3

LEMMA RecoveredIsText ==
  ASSUME NEW export \in Exports, Recoverable(export)
  PROVE  RecoveredText(export) \in [Rules -> Texts]
<1>1. ASSUME NEW r \in Rules PROVE export[Latest(export, r)].text \in Texts
  <2>1. \E i \in DOMAIN export : export[i].rule = r
    BY DEF Recoverable
  <2>2. Latest(export, r) \in DOMAIN export
    BY <2>1, LatestIsOne
  <2>3. QED
    BY <2>2, TextsAre
<1>2. QED
  BY <1>1 DEF RecoveredText

-----------------------------------------------------------------------------
(* The types. *)

\* What metadata holds of its own may change in each part.
LEMMA OwnChanges ==
  ASSUME NEW found \in OwnFields, NEW h \in {"full", "cut", "none", "bad"}
  PROVE  /\ [found EXCEPT !.gen = Odd] \in OwnFields
         /\ [found EXCEPT !.own.fields = FALSE] \in OwnFields
         /\ [found EXCEPT !.own.history = h] \in OwnFields
<1>1. found.own \in Owns /\ found = [gen |-> found.gen, own |-> found.own]
  BY DEF OwnFields
<1>2. /\ [found.own EXCEPT !.fields = FALSE] \in Owns
      /\ [found.own EXCEPT !.history = h] \in Owns
  BY <1>1 DEF Owns
<1>3. \A own \in Owns : [found EXCEPT !.own = own] \in OwnFields
  BY DEF OwnFields
<1>4. [found EXCEPT !.gen = Odd] \in OwnFields
  BY DEF OwnFields
<1>5. /\ [found EXCEPT !.own.fields = FALSE] = [found EXCEPT !.own = [found.own EXCEPT !.fields = FALSE]]
      /\ [found EXCEPT !.own.history = h] = [found EXCEPT !.own = [found.own EXCEPT !.history = h]]
  OBVIOUS
<1>6. QED
  BY <1>2, <1>3, <1>4, <1>5

LEMMA NewMetadata ==
  ASSUME NEW own \in Owns
  PROVE  [gen |-> Odd, own |-> own] \in OwnFields
BY DEF OwnFields

\* A change by somebody to a file leaves metadata what it may be.
LEMMA EditKeepsMetadata ==
  ASSUME NEW p \in Paths, NEW content \in Edited(p, tree[p]), DOMAIN tree = Paths, MetadataOK(tree)
  PROVE  MetadataOK([tree EXCEPT ![p] = content])
<1>1. SUFFICES ASSUME NEW r \in Rules, p = <<"metadata", r>>
               PROVE  content \in OwnFields \cup {None, Torn}
  <2> DEFINE tree2 == [tree EXCEPT ![p] = content]
  <2>1. SUFFICES ASSUME NEW r \in Rules PROVE tree2[<<"metadata", r>>] \in OwnFields \cup {None, Torn}
    BY DEF MetadataOK
  <2>2. <<"metadata", r>> \in Paths /\ tree[<<"metadata", r>>] \in OwnFields \cup {None, Torn}
    BY DerivedPaths DEF Written, MetadataOK
  <2>3. CASE p = <<"metadata", r>>
    BY <2>3
  <2>4. CASE p # <<"metadata", r>>
    BY <2>2, <2>4
  <2>5. QED
    BY <2>3, <2>4
<1> DEFINE found == tree[p]
<1>2. found \in OwnFields \cup {None, Torn}
  BY <1>1 DEF MetadataOK
<1>3. p # Deferred /\ p \notin Contract /\ p[1] = "metadata" /\ p[1] # "evasion"
  BY <1>1 DEF Deferred, Contract
<1>4. CASE found \notin {None, Torn}
  <2>1. \/ content \in {None, [found EXCEPT !.gen = Odd], [found EXCEPT !.own.fields = FALSE]}
        \/ \E h \in {"cut", "none", "bad"} : content = [found EXCEPT !.own.history = h]
    BY <1>3, <1>4 DEF Edited
  <2>2. QED
    BY <1>2, <1>4, <2>1, OwnChanges
<1>5. CASE found \in {None, Torn}
  <2>1. content \in {None, [gen |-> Odd, own |-> Whole]}
    BY <1>3, <1>5 DEF Edited
  <2>2. Whole \in Owns
    BY DEF Whole, Owns
  <2>3. QED
    BY <2>1, <2>2, NewMetadata
<1>6. QED
  BY <1>4, <1>5

\* So does a synchronization that dies.
LEMMA DeathKeepsMetadata ==
  ASSUME TreeOK, SyncDies
  PROVE  MetadataOK(tree') /\ DOMAIN tree' = Paths
<1> DEFINE last(n) == Plan[n]
           bound == IF Completes(tree, source.text) THEN Len(Plan) ELSE Reached(tree, source.text)
           before(n) == After(tree, source.text, n)
<1>1. PICK n \in 0..bound :
        \/ tree' = before(n)
        \/ tree' = [before(n) EXCEPT ![last(n)] = Torn]
        \/ /\ last(n)[1] = "metadata" /\ last(n) \notin Foreign /\ n > 0
           /\ \E h \in {"none", "bad"} :
                \/ tree' = [before(n) EXCEPT ![last(n)].own.history = h]
                \/ tree' = [before(n) EXCEPT ![last(n)] =
                               [gen |-> Odd, own |-> [fields |-> FALSE, history |-> h]]]
  BY DEF SyncDies
<1>2. source.text \in [Rules -> Texts] /\ MetadataOK(tree)
  BY DEF TreeOK
<1>3. bound \in 0..Len(Plan) /\ \A i \in 1..bound : ~Raises(Plan[i], tree[Plan[i]], source.text)
  <2>1. CASE Completes(tree, source.text)
    BY <2>1, ReachedIsFirst, PlanVisits
  <2>2. CASE ~Completes(tree, source.text)
    BY <2>2, ReachedIsFirst, PlanVisits
  <2>3. QED
    BY <2>1, <2>2
<1> HIDE DEF bound
<1>4. n \in 0..Len(Plan) /\ \A i \in 1..n : ~Raises(Plan[i], tree[Plan[i]], source.text)
  BY <1>3, PlanVisits
<1>5. MetadataOK(before(n))
  BY <1>2, <1>4, AfterKeepsMetadata
<1>6. DOMAIN before(n) = Paths
  BY DEF After
<1>7. ASSUME last(n)[1] = "metadata", last(n) \notin Foreign, n > 0
      PROVE  before(n)[last(n)] \in OwnFields
  <2>1. last(n) \in Derived
    BY <1>4, <1>7, PlanVisits
  <2>2. PICK r \in Rules : last(n) = <<"metadata", r>>
    BY <1>7, <2>1 DEF Derived, Foreign, Singles, Written
  <2>3. ~Raises(last(n), tree[last(n)], source.text)
    BY <1>4, <1>7
  <2>4. tree[last(n)] \in OwnFields
    BY <1>2, <2>2, <2>3 DEF MetadataOK, Raises, Unreadable
  <2>5. before(n)[last(n)] = Metadata(source.text[r], Kept(tree[last(n)].own))
    <3>1. last(n) \in Paths /\ last(n) \in { Plan[i] : i \in 1..n }
      BY <1>4, <1>7, <2>1, DerivedPaths
    <3>2. QED
      BY <2>2, <3>1, MetadataComes DEF After
  <2>6. Kept(tree[last(n)].own) \in Owns /\ source.text[r] \in Texts
    BY <1>2, <2>4, KeptIsOwn DEF OwnFields
  <2>7. QED
    BY <2>5, <2>6 DEF Metadata, OwnFields
<1> HIDE DEF before, last
<1>8. ASSUME NEW r \in Rules PROVE tree'[<<"metadata", r>>] \in OwnFields \cup {None, Torn}
  <2>1. before(n)[<<"metadata", r>>] \in OwnFields \cup {None, Torn}
    BY <1>5 DEF MetadataOK
  <2>2. CASE tree' = before(n)
    BY <2>1, <2>2
  <2>3. ASSUME NEW content \in OwnFields \cup {Torn},
               tree' = [before(n) EXCEPT ![last(n)] = content]
        PROVE  tree'[<<"metadata", r>>] \in OwnFields \cup {None, Torn}
    <3>1. <<"metadata", r>> \in Paths
      BY DerivedPaths DEF Written
    <3>2. tree'[<<"metadata", r>>] \in {content, before(n)[<<"metadata", r>>]}
      BY <1>6, <2>3, <3>1
    <3>3. QED
      BY <2>1, <2>3, <3>2
  <2>4. CASE tree' = [before(n) EXCEPT ![last(n)] = Torn]
    BY <2>3, <2>4
  <2>5. ASSUME last(n)[1] = "metadata", last(n) \notin Foreign, n > 0, NEW h \in {"none", "bad"},
               \/ tree' = [before(n) EXCEPT ![last(n)].own.history = h]
               \/ tree' = [before(n) EXCEPT ![last(n)] =
                              [gen |-> Odd, own |-> [fields |-> FALSE, history |-> h]]]
        PROVE  tree'[<<"metadata", r>>] \in OwnFields \cup {None, Torn}
    <3>1. before(n)[last(n)] \in OwnFields
      BY <1>7, <2>5
    <3>2. PICK content : /\ content \in { [before(n)[last(n)] EXCEPT !.own.history = h],
                                         [gen |-> Odd, own |-> [fields |-> FALSE, history |-> h]] }
                         /\ tree' = [before(n) EXCEPT ![last(n)] = content]
      BY <2>5
    <3>3. [fields |-> FALSE, history |-> h] \in Owns
      BY DEF Owns
    <3>4. content \in OwnFields
      BY <3>1, <3>2, <3>3, OwnChanges, NewMetadata
    <3>5. QED
      BY <2>3, <3>2, <3>4
  <2>6. QED
    BY <1>1, <2>2, <2>4, <2>5
<1>9. DOMAIN tree' = Paths
  BY <1>1, <1>6
<1>10. QED
  BY <1>8, <1>9 DEF MetadataOK

LEMMA InitTree == Init => TreeOK
<1>1. SUFFICES ASSUME Init PROVE TreeOK
  OBVIOUS
<1>2. source \in [flaw : {"none", "torn", "ids", "enabled"}, text : [Rules -> Texts]]
  BY <1>1, RulePackAssumption DEF Init
<1>3. ASSUME NEW r \in Rules PROVE tree[<<"metadata", r>>] \in OwnFields
  <2> DEFINE p == <<"metadata", r>>
  <2>1. /\ p \in Paths /\ p \notin Foreign /\ p # Deferred /\ p \notin Contract /\ p \notin Singles
        /\ p[1] = "metadata" /\ p[2] = r
    BY RulePackAssumption, DerivedPaths DEF Foreign, Deferred, Contract, Singles, Written
  <2>2. tree[p] = Metadata(BaseText[r], Whole)
    BY <1>1, <2>1 DEF Init, InitialTree
  <2>3. BaseText[r] \in Texts
    BY RulePackAssumption
  <2>4. QED
    BY <2>2, <2>3 DEF Metadata, OwnFields, Whole, Owns
<1>4. DOMAIN tree = Paths
  BY <1>1 DEF Init, InitialTree
<1>5. QED
  BY <1>2, <1>3, <1>4 DEF TreeOK, MetadataOK

LEMMA TreeStep == TreeOK /\ [Next]_vars => TreeOK'
<1> SUFFICES ASSUME TreeOK, [Next]_vars PROVE TreeOK'
  OBVIOUS
<1>1. source.text \in [Rules -> Texts] /\ DOMAIN tree = Paths /\ MetadataOK(tree)
  BY DEF TreeOK
<1>2. CASE UNCHANGED <<source, tree>>
  BY <1>2 DEF TreeOK, MetadataOK
<1>3. CASE Sync
  <2>1. MetadataOK(tree') /\ DOMAIN tree' = Paths
    BY <1>1, <1>3, SyncedKeepsMetadata DEF Sync
  <2>2. QED
    BY <1>3, <2>1 DEF Sync, TreeOK
<1>4. CASE SyncDies
  <2>1. MetadataOK(tree') /\ DOMAIN tree' = Paths
    BY <1>4, DeathKeepsMetadata
  <2>2. QED
    BY <1>4, <2>1 DEF SyncDies, TreeOK
<1>5. CASE Recover
  <2>1. source' \in [flaw : {"none", "torn", "ids", "enabled"}, text : [Rules -> Texts]]
    BY <1>5, RecoveredIsText DEF Recover
  <2>2. QED
    BY <1>5, <2>1 DEF Recover, TreeOK, MetadataOK
<1>6. CASE RecoverDies
  BY <1>6 DEF RecoverDies, TreeOK, MetadataOK
<1>7. CASE EditSource
  <2>1. source' \in [flaw : {"none", "torn", "ids", "enabled"}, text : [Rules -> Texts]]
    BY <1>7, TextsAre DEF EditSource, TreeOK
  <2>2. QED
    BY <1>7, <2>1 DEF EditSource, TreeOK, MetadataOK
<1>8. CASE EditFile
  <2>1. PICK p \in Paths : \E content \in Edited(p, tree[p]) : tree' = [tree EXCEPT ![p] = content]
    BY <1>8 DEF EditFile
  <2>2. PICK content \in Edited(p, tree[p]) : tree' = [tree EXCEPT ![p] = content]
    BY <2>1
  <2>3. MetadataOK([tree EXCEPT ![p] = content])
    BY <1>1, EditKeepsMetadata
  <2>4. QED
    BY <1>1, <1>8, <2>2, <2>3 DEF EditFile, TreeOK
<1>9. QED
  BY <1>2, <1>3, <1>4, <1>5, <1>6, <1>7, <1>8
     DEF Next, vars, Check, Validate, PackageStart, PackageRefuses, WriteNdjson, WriteManifest,
         WriteSums, PackagerDies

LEMMA InitWork == Init => WorkOK
<1>1. SUFFICES ASSUME Init PROVE WorkOK
  OBVIOUS
<1>2. BaseText \in [Rules -> Texts]
  BY RulePackAssumption
<1>3. QED
  BY <1>1, <1>2 DEF Init, WorkOK, Idle, NothingSaid

LEMMA WorkStep == TreeOK /\ WorkOK /\ [Next]_vars => WorkOK'
<1> SUFFICES ASSUME TreeOK, WorkOK, [Next]_vars PROVE WorkOK'
  OBVIOUS
<1>1. source.text \in [Rules -> Texts] /\ BaseText \in [Rules -> Texts]
  BY RulePackAssumption DEF TreeOK
<1>2. Idle \in [at : {"idle", "build", "manifest", "sums"}, text : [Rules -> Texts]]
  BY <1>1 DEF Idle
<1> USE DEF WorkOK
<1>3. CASE Sync \/ Check \/ Validate
  <2>1. PICK by \in {"sync", "check", "validate"} :
          \E pass \in BOOLEAN : said' = [by |-> by, pass |-> pass]
    <3>1. CASE Sync
      <4>1. said' = [by |-> "sync", pass |-> Loads(source) /\ Completes(tree, source.text)
                                              /\ Agrees(tree', source.text)]
        BY <3>1 DEF Sync
      <4>2. QED
        BY <4>1, Zenon
    <3>2. CASE Check
      <4>1. said' = [by |-> "check", pass |-> CheckPasses(source, tree)]
        BY <3>2 DEF Check
      <4>2. CheckPasses(source, tree) \in BOOLEAN
        BY DEF CheckPasses
      <4>3. QED
        BY <4>1, <4>2, Zenon
    <3>3. CASE Validate
      <4>1. said' = [by |-> "validate", pass |-> Validates(source, tree)]
        BY <3>3 DEF Validate
      <4>2. Validates(source, tree) \in BOOLEAN
        BY DEF Validates
      <4>3. QED
        BY <4>1, <4>2, Zenon
    <3>4. QED
      BY <1>3, <3>1, <3>2, <3>3
  <2>2. QED
    BY <1>3, <2>1 DEF Sync, Check, Validate
<1>4. CASE SyncDies \/ RecoverDies \/ EditSource \/ EditFile
  <2>1. UNCHANGED <<out, packager>> /\ changes' = changes + 1 /\ said' = NothingSaid
    BY <1>4, Zenon DEF SyncDies, RecoverDies, EditSource, EditFile
  <2>2. QED
    BY <2>1 DEF NothingSaid
<1>5. CASE Recover
  <2>1. said' = [by |-> "recover", pass |-> Agrees(tree, source'.text)]
    BY <1>5 DEF Recover
  <2>2. Agrees(tree, source'.text) \in BOOLEAN
    BY DEF Agrees
  <2>3. said' \in [by : {"none", "sync", "check", "validate", "recover"}, pass : BOOLEAN]
    BY <2>1, <2>2
  <2>4. QED
    BY <1>5, <2>3 DEF Recover
<1>6. ASSUME NEW skip \in BOOLEAN, PackageStart(skip) PROVE WorkOK'
  BY <1>2, <1>6 DEF PackageStart
<1>7. CASE PackageRefuses \/ PackagerDies
  BY <1>2, <1>7 DEF PackageRefuses, PackagerDies
<1>8. CASE WriteNdjson
  BY <1>1, <1>8 DEF WriteNdjson, Ndjsons
<1>9. CASE WriteManifest
  <2>1. [describes |-> packager.text] \in Manifests
    BY DEF Manifests
  <2>2. QED
    BY <1>9, <2>1 DEF WriteManifest
<1>10. CASE WriteSums
  BY <1>2, <1>10 DEF WriteSums
<1>11. CASE UNCHANGED vars
  BY <1>11 DEF vars
<1>12. QED
  BY <1>3, <1>4, <1>5, <1>6, <1>7, <1>8, <1>9, <1>10, <1>11 DEF Next

\* The variables keep their types; metadata is never anything but metadata, a
\* file that is missing or one cut short.
THEOREM PackTypeCorrect == Spec => []PackTypeOK
<1>1. Init => PackTypeOK
  BY InitTree, InitWork DEF PackTypeOK
<1>2. PackTypeOK /\ [Next]_vars => PackTypeOK'
  BY TreeStep, WorkStep DEF PackTypeOK
<1>3. QED
  BY <1>1, <1>2, PTL DEF Spec

-----------------------------------------------------------------------------
(* Packaging. *)

LEMMA PackageStep == PackTypeOK /\ PackageOK /\ [Next]_vars => PackageOK'
<1> SUFFICES ASSUME WorkOK, PackageOK, [Next]_vars PROVE PackageOK'
  BY DEF PackTypeOK
<1> USE DEF PackageOK
<1>1. CASE UNCHANGED <<out, packager>>
  BY <1>1
<1>2. ASSUME NEW skip \in BOOLEAN, PackageStart(skip) PROVE PackageOK'
  BY <1>2 DEF PackageStart, Idle
<1>3. CASE PackageRefuses \/ PackagerDies
  BY <1>3 DEF PackageRefuses, PackagerDies, Idle
<1>4. CASE WriteNdjson
  BY <1>4 DEF WriteNdjson, WorkOK
<1>5. CASE WriteManifest
  BY <1>5 DEF WriteManifest, WorkOK
<1>6. CASE WriteSums
  BY <1>6 DEF WriteSums, WorkOK, Idle
<1>7. QED
  BY <1>1, <1>2, <1>3, <1>4, <1>5, <1>6
     DEF Next, vars, Sync, SyncDies, Check, Validate, Recover, RecoverDies, EditSource, EditFile

\* Files that agree with the shipped checksums belong together, whatever build
\* died between two of its writes (package_rules.py: build).
THEOREM Verified == Spec => []VerifiedPackageIsWhole
<1>1. Init => PackageOK
  BY DEF Init, PackageOK, Idle
<1>2. PackTypeOK /\ PackageOK /\ [Next]_vars => PackageOK'
  BY PackageStep
<1>3. PackageOK => VerifiedPackageIsWhole
  BY DEF PackageOK, VerifiedPackageIsWhole
<1>4. QED
  BY <1>1, <1>2, <1>3, PackTypeCorrect, PTL DEF Spec

-----------------------------------------------------------------------------
(* What a tool says. *)

LEMMA CheckIsExact ==
  ASSUME NEW src, NEW files, MetadataOK(files), CheckPasses(src, files)
  PROVE  Agrees(files, src.text) /\ DerivedIsExact(files, src.text)
<1> DEFINE copy == Synced(files, src.text)
<1>1. DerivedIsExact(copy, src.text)
  BY CompleteIsExact DEF CheckPasses, Reproducible
<1>2. \A p \in Managed : files[p] = copy[p]
  BY DEF CheckPasses, Reproducible
<1> HIDE DEF copy
<1>3. \A p \in Foreign \cup Singles : files[p] = copy[p]
  BY <1>2, DerivedPaths
<1>4. \A r \in Rules, g \in Written : files[<<g, r>>] = copy[<<g, r>>]
  BY <1>2, DerivedPaths
<1>5. DerivedIsExact(files, src.text)
  <2>1. \A p \in Foreign : files[p] = None
    BY <1>1, <1>3 DEF DerivedIsExact
  <2>2. \A p \in Singles : files[p] = "pack"
    BY <1>1, <1>3 DEF DerivedIsExact
  <2>3. ASSUME NEW r \in Rules
        PROVE  /\ files[<<"metadata", r>>] \in { Metadata(src.text[r], own) : own \in Owns }
               /\ files[<<"conformance", r>>] \in {None, Part("conformance", src.text[r])}
    <3>1. /\ files[<<"metadata", r>>] = copy[<<"metadata", r>>]
          /\ files[<<"conformance", r>>] = copy[<<"conformance", r>>]
      BY <1>4 DEF Written
    <3>2. QED
      BY <1>1, <3>1, Zenon DEF DerivedIsExact
  <2>4. ASSUME NEW r \in Rules, NEW g \in {"elastic", "playbook", "malicious", "benign", "atomic"}
        PROVE  files[<<g, r>>] = Part(g, src.text[r])
    <3>1. files[<<g, r>>] = copy[<<g, r>>]
      BY <1>4 DEF Written
    <3>2. QED
      BY <1>1, <3>1 DEF DerivedIsExact
  <2>5. QED
    BY <2>1, <2>2, <2>3, <2>4, Zenon DEF DerivedIsExact
<1>6. QED
  BY <1>5 DEF CheckPasses

LEMMA SaidStep == PackTypeOK /\ SaidOK /\ [Next]_vars => SaidOK'
<1> SUFFICES ASSUME TreeOK, SaidOK, [Next]_vars PROVE SaidOK'
  BY DEF PackTypeOK
<1>1. MetadataOK(tree)
  BY DEF TreeOK
<1>2. CASE UNCHANGED <<source, tree, said>>
  BY <1>2 DEF SaidOK
<1>3. CASE Sync
  <2>1. said'.by = "sync" /\ said' # [by |-> "validate", pass |-> TRUE] /\ source' = source
    BY <1>3 DEF Sync
  <2>2. SUFFICES ASSUME said'.pass PROVE Agrees(tree', source.text) /\ DerivedIsExact(tree', source.text)
    BY <2>1 DEF SaidOK
  <2>3. Loads(source) /\ Completes(tree, source.text) /\ Agrees(tree', source.text)
    BY <1>3, <2>2 DEF Sync
  <2>4. tree' = Synced(tree, source.text)
    BY <1>3, <2>3 DEF Sync
  <2>5. QED
    BY <1>1, <2>3, <2>4, CompleteIsExact
<1>4. CASE Check
  <2>1. said'.by = "check" /\ said' # [by |-> "validate", pass |-> TRUE]
        /\ said'.pass = CheckPasses(source, tree) /\ UNCHANGED <<source, tree>>
    BY <1>4 DEF Check
  <2>2. QED
    BY <1>1, <2>1, CheckIsExact DEF SaidOK
<1>5. CASE Validate
  <2>1. said'.pass = Validates(source, tree) /\ UNCHANGED <<source, tree>>
    BY <1>5 DEF Validate
  <2>2. said' = [by |-> "validate", pass |-> TRUE] => said'.pass
    BY <1>5
  <2>3. SUFFICES ASSUME said'.pass
                 PROVE  /\ Agrees(tree, source.text) /\ DerivedIsExact(tree, source.text)
                        /\ Validates(source, tree)
    BY <2>1, <2>2 DEF SaidOK
  <2>4. Validates(source, tree) /\ CheckPasses(source, tree)
    BY <2>1, <2>3 DEF Validates
  <2>5. QED
    BY <1>1, <2>4, CheckIsExact
<1>6. CASE Recover
  <2>1. said'.by = "recover" /\ said' # [by |-> "validate", pass |-> TRUE]
        /\ said'.pass = Agrees(tree, source'.text) /\ tree' = tree
    BY <1>6 DEF Recover
  <2>2. QED
    BY <2>1 DEF SaidOK
<1>7. CASE said' = NothingSaid
  BY <1>7 DEF NothingSaid, SaidOK
<1>8. QED
  BY <1>2, <1>3, <1>4, <1>5, <1>6, <1>7
     DEF Next, vars, SyncDies, RecoverDies, EditSource, EditFile, PackageStart, PackageRefuses,
         WriteNdjson, WriteManifest, WriteSums, PackagerDies

LEMMA SaidHolds == Spec => []SaidOK
<1>1. Init => SaidOK
  BY DEF Init, NothingSaid, SaidOK
<1>2. QED
  BY <1>1, SaidStep, PackTypeCorrect, PTL DEF Spec

\* A synchronization or check that passes has left or found a tree derived from
\* the source to the last file, whatever edits and dead runs went before
\* (reconcile_rules.py: check, check_reproducible_sync).
THEOREM PassesAreExact == Spec => []PassIsExact
<1>1. SaidOK => PassIsExact
  BY DEF SaidOK, PassIsExact, Agrees, Present
<1>2. QED
  BY <1>1, SaidHolds, PTL

LEMMA RepairStep == PackTypeOK /\ SyncRepairs /\ [Next]_vars => SyncRepairs'
<1> SUFFICES ASSUME TreeOK, SyncRepairs, [Next]_vars PROVE SyncRepairs'
  BY DEF PackTypeOK
<1>1. MetadataOK(tree) /\ source.text \in [Rules -> Texts]
  BY DEF TreeOK
<1>2. CASE UNCHANGED <<source, tree, said>>
  BY <1>2 DEF SyncRepairs
<1>3. CASE Sync
  <2>1. SUFFICES ASSUME ~said'.pass, Loads(source), tree'[Deferred] = "whole"
                 PROVE  \E r \in Rules :
                          \/ Unreadable(tree'[<<"metadata", r>>], source.text[r])
                          \/ tree'[<<"conformance", r>>] = Torn
                          \/ Countless(r, source.text[r])
    BY <1>3 DEF SyncRepairs, Sync, Loads, Unreadable
  <2>2. tree' = Synced(tree, source.text)
    BY <1>3, <2>1 DEF Sync
  <2>3. ~(Completes(tree, source.text) /\ Agrees(tree', source.text))
    BY <1>3, <2>1 DEF Sync
  <2>4. ~Completes(tree, source.text)
    <3>1. SUFFICES ASSUME Completes(tree, source.text) PROVE Agrees(tree', source.text)
      BY <2>3
    <3>2. DerivedIsExact(tree', source.text)
      BY <1>1, <2>2, <3>1, CompleteIsExact
    <3>3. \A r \in Rules : source.text[r].lacks = "nothing"
      BY <3>1, CompleteLacksNothing
    <3>4. QED
      BY <1>1, <2>1, <3>2, <3>3, ExactAgrees
  <2>5. PICK p \in Derived : Raises(p, tree[p], source.text) /\ tree'[p] = tree[p]
    BY <2>2, <2>4, SyncedStops
  <2>6. p[2] \in Rules /\ p = <<p[1], p[2]>> /\ p[1] \in {"metadata", "conformance", "atomic"}
    BY <2>5 DEF Raises, Derived, Foreign, Singles
  <2>7. QED
    BY <2>5, <2>6 DEF Raises
<1>4. CASE Check \/ Validate \/ Recover
  BY <1>4 DEF Check, Validate, Recover, SyncRepairs
<1>5. CASE said' = NothingSaid
  BY <1>5 DEF NothingSaid, SyncRepairs
<1>6. QED
  BY <1>2, <1>3, <1>4, <1>5
     DEF Next, vars, SyncDies, RecoverDies, EditSource, EditFile, PackageStart, PackageRefuses,
         WriteNdjson, WriteManifest, WriteSums, PackagerDies

\* A synchronization that fails has one of the reasons that SyncRepairs lists, for
\* any rules and texts and whatever was deleted, edited or left by runs that died
\* (reconcile_rules.py: sync).
THEOREM Repairs == Spec => []SyncRepairs
<1>1. Init => SyncRepairs
  BY DEF Init, NothingSaid, SyncRepairs
<1>2. QED
  BY <1>1, RepairStep, PackTypeCorrect, PTL DEF Spec

-----------------------------------------------------------------------------
(* What a validation means. *)

Sound == [fields : {TRUE}, history : {"full", "cut"}]

\* What follows from a validation, rule by rule.
SoundRule(files, r, text) ==
  /\ files[<<"metadata", r>>].gen = Part("metadata", text)
  /\ files[<<"metadata", r>>].own \in Sound
  /\ files[<<"metadata", r>>] = Metadata(text, files[<<"metadata", r>>].own)
  /\ files[<<"conformance", r>>] = Part("conformance", text)
  /\ files[<<"evasion", r>>] \notin {None, Torn, Odd}
  /\ r \in T3 => Range(files[<<"evasion", r>>]) = RequiredClasses[r]
  /\ r \notin T3 => Len(files[<<"evasion", r>>]) >= MinVariants
  /\ text.tags = "canonical" /\ text.lacks = "nothing"
  /\ Logic(files[<<"metadata", r>>].gen) = Logic(text)
  /\ files[<<"metadata", r>>].gen.query = text.query
  /\ \A g \in {"malicious", "benign"} :
       EventsIn(r, g, files[<<g, r>>]) = FixtureEvents(r, g, text.threshold)

LEMMA ValidRule ==
  ASSUME NEW src, NEW files, NEW r \in Rules, src.text \in [Rules -> Texts],
         Validates(src, files), DerivedIsExact(files, src.text)
  PROVE  SoundRule(files, r, src.text[r])
<1> DEFINE text == src.text[r]
           gen == files[<<"metadata", r>>].gen
<1>1. text \in Texts
  OBVIOUS
<1>2. /\ gen = Part("metadata", text) /\ files[<<"metadata", r>>].own \in Sound
      /\ files[<<"metadata", r>>] = Metadata(text, files[<<"metadata", r>>].own)
  <2>1. PICK own \in Owns : files[<<"metadata", r>>] = Metadata(text, own)
    BY DEF DerivedIsExact
  <2>2. own = files[<<"metadata", r>>].own /\ gen = Part("metadata", text)
    BY <2>1 DEF Metadata
  <2>3. /\ files[<<"metadata", r>>].own.fields
        /\ files[<<"metadata", r>>].own.history \in {"full", "cut"}
    BY DEF Validates, MetadataIsSound
  <2>4. own \in Sound
    BY <2>2, <2>3 DEF Owns, Sound
  <2>5. QED
    BY <2>1, <2>2, <2>4
<1>3. files[<<"conformance", r>>] = Part("conformance", text)
  <2>1. files[<<"conformance", r>>] \in {None, Part("conformance", text)}
    BY DEF DerivedIsExact
  <2>2. files[<<"conformance", r>>] # None
    BY DEF Validates, MetadataIsSound, Groups
  <2>3. QED
    BY <2>1, <2>2
<1>4. /\ files[<<"evasion", r>>] \notin {None, Torn, Odd}
      /\ r \in T3 => Range(files[<<"evasion", r>>]) = RequiredClasses[r]
      /\ r \notin T3 => Len(files[<<"evasion", r>>]) >= MinVariants
  BY DEF Validates, CorporaAreComplete, Present, Readable
<1>5. text.tags = "canonical"
  <2>1. files[<<"elastic", r>>] = ElasticPayload(gen)
    BY DEF Validates, ElasticIsGenerated
  <2>2. files[<<"elastic", r>>] = Part("elastic", text)
    BY DEF DerivedIsExact
  <2>3. Part("elastic", text).tags = text.tags
    BY DEF Part, Shown
  <2>4. ElasticPayload(gen).tags = "canonical"
    BY <1>2 DEF ElasticPayload, Part, Shown
  <2>5. QED
    BY <2>1, <2>2, <2>3, <2>4
<1>6. text.lacks = "nothing"
  BY CompleteLacksNothing DEF Validates, CheckPasses, Reproducible
<1>7. gen.query = text.query /\ gen.threshold = text.threshold
  BY <1>2 DEF Part, Shown
<1>8. Logic(gen) = Logic(text)
  BY <1>7 DEF Logic
<1>9. ASSUME NEW g \in {"malicious", "benign"}
      PROVE  EventsIn(r, g, files[<<g, r>>]) = FixtureEvents(r, g, text.threshold)
  <2>1. files[<<g, r>>] = Part(g, text)
    BY DEF DerivedIsExact
  <2>2. Part(g, text) # Odd
    BY <1>1, PartIsContent DEF Groups
  <2>3. Part(g, text).threshold = text.threshold
    BY DEF Part, Shown
  <2>4. QED
    BY <2>1, <2>2, <2>3 DEF EventsIn
<1>10. QED
  BY <1>2, <1>3, <1>4, <1>5, <1>6, <1>7, <1>8, <1>9 DEF SoundRule

\* Its fixtures, and the types of the fields it asks for.
LEMMA ValidRuleDecides ==
  ASSUME NEW src, NEW files, NEW r \in Rules, src.text \in [Rules -> Texts],
         Validates(src, files), DerivedIsExact(files, src.text)
  PROVE  LET text == src.text[r]
             fires(g) == Fires(Logic(text), FixtureEvents(r, g, text.threshold))
         IN  /\ fires("malicious") /\ ~fires("benign")
             /\ r \notin Native =>
                  \A f \in FieldsAsked(text.query) \cap DOMAIN CustomTypes :
                    LET type(group) == files[<<group, "gateway">>][f]
                    IN  /\ type("schema") = CustomTypes[f]
                        /\ type("catalog") # None => type("mapping") = CustomTypes[f]
<1> DEFINE text == src.text[r]
           gen == files[<<"metadata", r>>].gen
           events(g) == FixtureEvents(r, g, text.threshold)
           schema == files[<<"schema", "gateway">>]
<1>1. /\ Logic(gen) = Logic(text) /\ gen.query = text.query
      /\ \A g \in {"malicious", "benign"} : EventsIn(r, g, files[<<g, r>>]) = events(g)
  <2>1. SoundRule(files, r, text)
    BY ValidRule
  <2>2. QED
    BY <2>1, Zenon DEF SoundRule
<1>2. ASSUME NEW g \in {"malicious", "benign"}
      PROVE  /\ Fires(Logic(gen), EventsIn(r, g, files[<<g, r>>])) = (g = "malicious")
             /\ r \notin Native =>
                  \A i \in DOMAIN EventsIn(r, g, files[<<g, r>>]) :
                    Conforms(EventsIn(r, g, files[<<g, r>>])[i], schema)
             /\ g = "malicious" =>
                  \A f \in FieldsAsked(gen.query) :
                    \E i \in DOMAIN EventsIn(r, g, files[<<g, r>>]) :
                      EventsIn(r, g, files[<<g, r>>])[i][f] # {}
  BY DEF Validates, FixturesDecide
<1> HIDE DEF events, text, gen, schema
<1>3. Fires(Logic(text), events("malicious")) = TRUE /\ Fires(Logic(text), events("benign")) = FALSE
  BY <1>1, <1>2
<1>4. ASSUME r \notin Native, NEW f \in FieldsAsked(text.query) \cap DOMAIN CustomTypes
      PROVE  schema[f] = CustomTypes[f]
  <2>1. PICK i \in DOMAIN events("malicious") : events("malicious")[i][f] # {}
    BY <1>1, <1>2
  <2>2. Conforms(events("malicious")[i], schema)
    BY <1>1, <1>2, <1>4, <2>1
  <2>3. QED
    BY <2>1, <2>2 DEF Conforms
<1>5. \A f \in DOMAIN CustomTypes :
        files[<<"catalog", "gateway">>][f] # None =>
          /\ schema[f] = files[<<"catalog", "gateway">>][f]
          /\ files[<<"mapping", "gateway">>][f] = files[<<"catalog", "gateway">>][f]
  BY DEF Validates, ContractHolds, schema
<1>6. ASSUME r \notin Native, NEW f \in FieldsAsked(text.query) \cap DOMAIN CustomTypes,
             files[<<"catalog", "gateway">>][f] # None
      PROVE  files[<<"mapping", "gateway">>][f] = CustomTypes[f]
  BY <1>4, <1>5, <1>6
<1>7. QED
  BY <1>3, <1>4, <1>6 DEF events, text, schema

LEMMA ValidFiles ==
  ASSUME NEW src, NEW files, NEW r \in Rules, NEW g \in Groups, src.text \in [Rules -> Texts],
         Validates(src, files), DerivedIsExact(files, src.text)
  PROVE  files[<<g, r>>] \notin {None, Torn, Odd}
<1> DEFINE text == src.text[r]
<1>1. text \in Texts /\ SoundRule(files, r, text)
  BY ValidRule
<1>2. CASE g = "evasion"
  BY <1>1, <1>2 DEF SoundRule
<1>3. CASE g = "metadata"
  <2>1. \E own \in Owns : files[<<g, r>>] = Metadata(text, own)
    BY <1>1, <1>3 DEF SoundRule, Sound, Owns
  <2>2. QED
    BY <1>1, <2>1, PartIsContent
<1>4. CASE g \in Groups \ {"evasion", "metadata"}
  <2>1. files[<<g, r>>] = Part(g, text)
    BY <1>1, <1>4 DEF SoundRule, DerivedIsExact, Groups
  <2>2. QED
    BY <1>1, <1>4, <2>1, PartIsContent
<1>5. QED
  BY <1>2, <1>3, <1>4

\* A validation that passes means a complete pack, whatever runs died before and
\* whatever was edited: nothing missing or cut short, metadata that lost no field
\* of its own but for entries of its history, corpora as the tier asks for, rules
\* that fire on their malicious fixture, stay silent on the benign one and ask for
\* fields as the gateway emits them (validate.py).
THEOREM Validated == Spec => []ValidatedIsComplete
<1>1. ASSUME PackTypeOK, SaidOK PROVE ValidatedIsComplete
  <2>1. SUFFICES ASSUME said = [by |-> "validate", pass |-> TRUE], ~ValidatedIsComplete PROVE FALSE
    BY DEF ValidatedIsComplete
  <2>2. Validates(source, tree) /\ DerivedIsExact(tree, source.text)
    BY <1>1, <2>1 DEF SaidOK
  <2>3. source.text \in [Rules -> Texts]
    BY <1>1 DEF PackTypeOK, TreeOK
  <2>4. \A p \in Groups \X Rules : tree[p] \notin {None, Torn, Odd}
    <3>1. ASSUME NEW p \in Groups \X Rules PROVE tree[<<p[1], p[2]>>] \notin {None, Torn, Odd}
      BY <2>2, <2>3, ValidFiles
    <3>2. QED
      BY <3>1
  <2>5. ASSUME NEW r \in Rules
        PROVE  /\ tree[<<"metadata", r>>].own \in Sound
               /\ r \in T3 => Range(tree[<<"evasion", r>>]) = RequiredClasses[r]
               /\ r \notin T3 => Len(tree[<<"evasion", r>>]) >= MinVariants
               /\ source.text[r].tags = "canonical" /\ source.text[r].lacks = "nothing"
    <3>1. SoundRule(tree, r, source.text[r])
      BY <2>2, <2>3, ValidRule
    <3>2. QED
      BY <3>1 DEF SoundRule
  <2>6. ASSUME NEW r \in Rules
        PROVE  LET text == source.text[r]
                   fires(g) == Fires(Logic(text), FixtureEvents(r, g, text.threshold))
               IN  /\ fires("malicious") /\ ~fires("benign")
                   /\ r \notin Native =>
                        \A f \in FieldsAsked(text.query) \cap DOMAIN CustomTypes :
                          LET type(group) == tree[<<group, "gateway">>][f]
                          IN  /\ type("schema") = CustomTypes[f]
                              /\ type("catalog") # None => type("mapping") = CustomTypes[f]
    BY <2>2, <2>3, ValidRuleDecides
  <2>7. QED
    BY <2>1, <2>4, <2>5, <2>6 DEF ValidatedIsComplete, Sound
<1>2. QED
  BY <1>1, PackTypeCorrect, SaidHolds, PTL

-----------------------------------------------------------------------------
(* Live validation: the state.                                             *)

Entities == Nat \cup {None, Other}
Sightings == [run : (Nat \X Rules) \cup {None}, entity : Entities, at : Nat, n : Nat]

DeploymentOK ==
  /\ clock \in Nat /\ noise \in Nat
  /\ travelling \subseteq Sightings /\ IsFiniteSet(travelling)
  /\ index \subseteq Sightings /\ IsFiniteSet(index)
  /\ \A a \in alerts : a.at \in Nat

RunOK ==
  /\ run \in [at : {"done", "static", "prerequisites", "scenario", "source", "alert", "report"},
              n : Nat, live : BOOLEAN, static : BOOLEAN, start : Nat, evidence : Entities,
              results : Seq({"PASS", "FAIL", "SKIPPED"})]
  /\ Len(run.results) <= Len(Supported)
  /\ run.at \in {"scenario", "source", "alert"} => Len(run.results) < Len(Supported)
  /\ run.at \in {"static", "prerequisites"} => run.results = <<>>
  /\ report \in Reports \cup {None}

LiveTypeOK == DeploymentOK /\ RunOK

\* The process wrote enough in the directory of the scenario, no later than that.
Reaches(scenario, entity, at) ==
  Cardinality({ e \in index : e.run = scenario /\ e.entity = entity /\ e.at <= at }) >= Threshold

\* An alert that counts for the rule in the n-th run.
AlertOf(r, n) ==
  \E a \in alerts : /\ a.rule = r
                    /\ r \in Fixture => a.run = <<n, r>>
                    /\ r \in Native => Reaches(<<n, r>>, a.entity, a.at)

\* Whom a native rule waits for an alert about; and that every pass there is
\* was earned.
Counted ==
  run.at = "alert" /\ Rule \in Native => Reaches(Scenario, run.evidence, run.start)

PassesAreEarned ==
  \A i \in DOMAIN run.results : run.results[i] = "PASS" => AlertOf(Supported[i], run.n)

EarnedReport ==
  report # None /\ report.live = "PASS" => \A r \in Rules : AlertOf(r, report.n)

OkIsOver == exit = "ok" => run.at = "done"

LiveInv == Counted /\ PassesAreEarned /\ EarnedReport /\ OkIsOver /\ ExitIsHonest

-----------------------------------------------------------------------------
(* Events and alerts only become more.                                     *)

LEMMA FiniteImage ==
  ASSUME NEW f, IsFiniteSet(DOMAIN f)
  PROVE  IsFiniteSet({ f[x] : x \in DOMAIN f })
<1> DEFINE T == { f[x] : x \in DOMAIN f }
           g == [x \in DOMAIN f |-> f[x]]
<1>1. g \in Surjection(DOMAIN f, T)
  BY DEF Surjection
<1>2. QED
  BY <1>1, FS_Surjection

LEMMA RulesAreFinite == IsFiniteSet(Rules)
<1>1. IsFiniteSet(DOMAIN Supported)
  BY RulesAreListed, FS_Interval
<1>2. QED
  BY <1>1, FiniteImage DEF Rules

\* A scenario causes finitely many events, of a native rule as many as it asks
\* for.
LEMMA EventsAre ==
  ASSUME NEW n \in Nat, NEW r \in Rules, NEW at \in Nat
  PROVE  /\ EventsOf(n, r, at) \subseteq Sightings
         /\ IsFiniteSet(EventsOf(n, r, at))
         /\ r \in Native => Cardinality(EventsOf(n, r, at)) = Threshold
<1>1. CASE r \in Native
  <2> DEFINE f == [i \in 1..Threshold |-> [run |-> <<n, r>>, entity |-> n, at |-> at, n |-> i]]
             S == EventsOf(n, r, at)
  <2>1. S = { f[i] : i \in 1..Threshold }
    BY <1>1 DEF EventsOf
  <2>2. f \in Bijection(1..Threshold, S)
    BY <2>1 DEF Bijection, Injection, Surjection, IsInjective
  <2>3. IsFiniteSet(1..Threshold) /\ Cardinality(1..Threshold) = Threshold
    BY FS_Interval, LiveAssumption
  <2>4. IsFiniteSet(S) /\ Cardinality(S) = Threshold
    BY <2>2, <2>3, FS_Bijection DEF ExistsBijection
  <2>5. S \subseteq Sightings
    BY <1>1, LiveAssumption DEF EventsOf, Sightings, Entities
  <2>6. QED
    BY <2>4, <2>5
<1>2. CASE r \notin Native
  <2>1. EventsOf(n, r, at) = { [run |-> <<n, r>>, entity |-> None, at |-> 0, n |-> 1] }
    BY <1>2 DEF EventsOf
  <2>2. IsFiniteSet(EventsOf(n, r, at))
    BY <2>1, FS_Singleton
  <2>3. QED
    BY <1>2, <2>1, <2>2 DEF Sightings, Entities
<1>3. QED
  BY <1>1, <1>2

\* Whatever was reached stays so while events are added.
LEMMA ReachesStays ==
  ASSUME IsFiniteSet(index), IsFiniteSet(index'), index \subseteq index',
         NEW scenario, NEW entity, NEW at, Reaches(scenario, entity, at)
  PROVE  Reaches(scenario, entity, at)'
<1> DEFINE S == { e \in index : e.run = scenario /\ e.entity = entity /\ e.at <= at }
           T == { e \in index' : e.run = scenario /\ e.entity = entity /\ e.at <= at }
<1>1. IsFiniteSet(T) /\ S \subseteq T
  BY FS_Subset
<1>2. IsFiniteSet(S) /\ Cardinality(S) <= Cardinality(T)
  BY <1>1, FS_Subset
<1>3. Cardinality(S) \in Nat /\ Cardinality(T) \in Nat
  BY <1>1, <1>2, FS_CardinalityType
<1>4. Cardinality(S) >= Threshold
  BY DEF Reaches
<1>5. Cardinality(T) >= Threshold
  <2> HIDE DEF S, T
  <2> QED BY <1>2, <1>3, <1>4, LiveAssumption
<1>6. QED
  BY <1>5 DEF Reaches

LEMMA AlertStays ==
  ASSUME IsFiniteSet(index), IsFiniteSet(index'), index \subseteq index', alerts \subseteq alerts',
         NEW r, NEW n, AlertOf(r, n)
  PROVE  AlertOf(r, n)'
<1>1. PICK a \in alerts : /\ a.rule = r
                          /\ r \in Fixture => a.run = <<n, r>>
                          /\ r \in Native => Reaches(<<n, r>>, a.entity, a.at)
  BY DEF AlertOf
<1>2. r \in Native => Reaches(<<n, r>>, a.entity, a.at)'
  BY <1>1, ReachesStays
<1>3. a \in alerts'
  BY <1>1
<1>4. QED
  BY <1>1, <1>2, <1>3 DEF AlertOf

LEMMA SomeEvents ==
  ASSUME NEW S, S \subseteq Rules
  PROVE  /\ UNION { EventsOf(0, r, 0) : r \in S } \subseteq Sightings
         /\ IsFiniteSet(UNION { EventsOf(0, r, 0) : r \in S })
<1> DEFINE f == [r \in S |-> EventsOf(0, r, 0)]
           U == { f[r] : r \in S }
<1>1. IsFiniteSet(S)
  BY RulesAreFinite, FS_Subset
<1>2. IsFiniteSet(U)
  BY <1>1, FiniteImage
<1>3. \A r \in S : f[r] \subseteq Sightings /\ IsFiniteSet(f[r])
  BY EventsAre
<1>4. \A T \in U : T \subseteq Sightings /\ IsFiniteSet(T)
  BY <1>3
<1>5. IsFiniteSet(UNION U) /\ UNION U \subseteq Sightings
  <2> HIDE DEF U
  <2> QED BY <1>2, <1>4, FS_UNION
<1>6. UNION U = UNION { EventsOf(0, r, 0) : r \in S }
  OBVIOUS
<1>7. QED
  BY <1>5, <1>6

\* Before the first run: what an earlier one reported it had earned.
LEMMA LiveInitially == LiveInit => LiveTypeOK /\ LiveInv
<1>1. SUFFICES ASSUME LiveInit PROVE LiveTypeOK /\ LiveInv
  OBVIOUS
<1> DEFINE others == { [run |-> None, entity |-> Other, at |-> 0, n |-> i] : i \in 1..Threshold }
<1>2. PICK sent \in SUBSET Rules, busy \in BOOLEAN : \E seen \in SUBSET sent : \E raised \in SUBSET seen :
        /\ travelling = UNION { EventsOf(0, r, 0) : r \in sent \ seen }
        /\ index = (UNION { EventsOf(0, r, 0) : r \in seen }) \cup (IF busy THEN others ELSE {})
        /\ alerts = { IF r \in Native THEN AlertFor(r, None, 0, Threshold, 0)
                                      ELSE AlertFor(r, <<0, r>>, None, 1, 0) : r \in raised }
                    \cup { AlertFor(r, None, Other, Threshold, 0) : r \in IF busy THEN Native ELSE {} }
        /\ report \in {None, [n |-> 0, static |-> TRUE,
                              live |-> IF raised = Rules THEN "PASS" ELSE "FAIL"]}
  BY <1>1 DEF LiveInit
<1>3. PICK seen \in SUBSET sent : \E raised \in SUBSET seen :
        /\ travelling = UNION { EventsOf(0, r, 0) : r \in sent \ seen }
        /\ index = (UNION { EventsOf(0, r, 0) : r \in seen }) \cup (IF busy THEN others ELSE {})
        /\ alerts = { IF r \in Native THEN AlertFor(r, None, 0, Threshold, 0)
                                      ELSE AlertFor(r, <<0, r>>, None, 1, 0) : r \in raised }
                    \cup { AlertFor(r, None, Other, Threshold, 0) : r \in IF busy THEN Native ELSE {} }
        /\ report \in {None, [n |-> 0, static |-> TRUE,
                              live |-> IF raised = Rules THEN "PASS" ELSE "FAIL"]}
  BY <1>2
<1>4. PICK raised \in SUBSET seen :
        /\ travelling = UNION { EventsOf(0, r, 0) : r \in sent \ seen }
        /\ index = (UNION { EventsOf(0, r, 0) : r \in seen }) \cup (IF busy THEN others ELSE {})
        /\ alerts = { IF r \in Native THEN AlertFor(r, None, 0, Threshold, 0)
                                      ELSE AlertFor(r, <<0, r>>, None, 1, 0) : r \in raised }
                    \cup { AlertFor(r, None, Other, Threshold, 0) : r \in IF busy THEN Native ELSE {} }
        /\ report \in {None, [n |-> 0, static |-> TRUE,
                              live |-> IF raised = Rules THEN "PASS" ELSE "FAIL"]}
  BY <1>3
<1>5. clock = 0 /\ noise = 0 /\ run = Ready /\ exit = None
  BY <1>1 DEF LiveInit
<1>6. travelling \subseteq Sightings /\ IsFiniteSet(travelling)
  BY <1>4, SomeEvents
<1>7. others \subseteq Sightings /\ IsFiniteSet(others)
  <2> DEFINE f == [i \in 1..Threshold |-> [run |-> None, entity |-> Other, at |-> 0, n |-> i]]
  <2>1. IsFiniteSet(1..Threshold)
    BY FS_Interval, LiveAssumption
  <2>2. IsFiniteSet({ f[i] : i \in DOMAIN f })
    BY <2>1, FiniteImage
  <2>3. others = { f[i] : i \in DOMAIN f }
    OBVIOUS
  <2>4. \A i \in 1..Threshold :
          [run |-> None, entity |-> Other, at |-> 0, n |-> i] \in Sightings
    BY LiveAssumption DEF Sightings, Entities
  <2>5. IsFiniteSet(others)
    BY <2>2, <2>3
  <2>6. QED
    BY <2>4, <2>5
<1> HIDE DEF others
<1>8. index \subseteq Sightings /\ IsFiniteSet(index)
  <2> DEFINE mine == UNION { EventsOf(0, r, 0) : r \in seen }
  <2>1. mine \subseteq Sightings /\ IsFiniteSet(mine)
    BY SomeEvents
  <2>2. index = mine \/ index = mine \cup others
    <3>1. index = mine \cup (IF busy THEN others ELSE {})
      BY <1>4
    <3> HIDE DEF mine
    <3>2. QED
      BY <3>1
  <2> HIDE DEF mine
  <2>3. QED
    BY <1>7, <2>1, <2>2, FS_Union
<1>9. \A a \in alerts : a.at = 0
  BY <1>4 DEF AlertFor
<1>10. report \in Reports \cup {None}
  <2>1. (IF raised = Rules THEN "PASS" ELSE "FAIL") \in {"PASS", "FAIL"}
    OBVIOUS
  <2>2. [n |-> 0, static |-> TRUE, live |-> IF raised = Rules THEN "PASS" ELSE "FAIL"] \in Reports
    BY <2>1 DEF Reports
  <2>3. QED
    BY <1>4, <2>2
<1>11. LiveTypeOK
  BY <1>5, <1>6, <1>8, <1>9, <1>10, RulesAreListed
     DEF LiveTypeOK, DeploymentOK, RunOK, Ready, Entities
<1>12. EarnedReport
  <2>1. SUFFICES ASSUME report # None, report.live = "PASS", NEW r \in Rules PROVE AlertOf(r, 0)
    BY <1>4 DEF EarnedReport
  <2>2. r \in raised /\ r \in seen
    BY <1>4, <2>1
  <2>3. CASE r \notin Native
    <3> DEFINE a == AlertFor(r, <<0, r>>, None, 1, 0)
    <3>1. a \in alerts
      BY <1>4, <2>2, <2>3
    <3>2. a.rule = r /\ a.run = <<0, r>>
      BY <2>3 DEF AlertFor
    <3>3. QED
      BY <2>3, <3>1, <3>2 DEF AlertOf
  <2>4. CASE r \in Native
    <3> DEFINE a == AlertFor(r, None, 0, Threshold, 0)
               S == EventsOf(0, r, 0)
               T == { e \in index : e.run = <<0, r>> /\ e.entity = 0 /\ e.at <= 0 }
    <3>1. a \in alerts
      BY <1>4, <2>2, <2>4
    <3>2. a.rule = r /\ a.entity = 0 /\ a.at = 0
      BY DEF AlertFor
    <3>3. S \subseteq index
      BY <1>4, <2>2
    <3>4. \A e \in S : e.run = <<0, r>> /\ e.entity = 0 /\ e.at = 0
      BY <2>4 DEF EventsOf
    <3>5. Cardinality(S) = Threshold
      BY <2>4, EventsAre
    <3>6. IsFiniteSet(T) /\ S \subseteq T
      BY <1>8, <3>3, <3>4, FS_Subset
    <3> HIDE DEF S
    <3>7. Cardinality(T) \in Nat /\ Cardinality(S) <= Cardinality(T)
      BY <3>6, FS_Subset, FS_CardinalityType
    <3>8. Reaches(<<0, r>>, 0, 0)
      <4> HIDE DEF T
      <4>1. Cardinality(T) >= Threshold
        BY <3>5, <3>7, LiveAssumption
      <4>2. QED
        BY <4>1 DEF T, Reaches
    <3>9. QED
      BY <2>4, <3>1, <3>2, <3>8 DEF AlertOf, Fixture
  <2>5. QED
    BY <2>3, <2>4
<1>13. Counted /\ PassesAreEarned
  BY <1>5 DEF Counted, PassesAreEarned, Ready
<1>14. QED
  BY <1>5, <1>11, <1>12, <1>13, LiveAssumption DEF LiveInv, OkIsOver, ExitIsHonest, Ready

LEMMA RuleIsOne ==
  ASSUME LiveTypeOK, run.at \in {"scenario", "source", "alert"}
  PROVE  Rule \in Rules /\ Scenario \in Nat \X Rules
<1>1. Len(run.results) \in Nat /\ Len(run.results) + 1 \in 1..Len(Supported)
  BY RulesAreListed, LenProperties DEF LiveTypeOK, RunOK
<1>2. QED
  BY <1>1, RulesAreListed DEF Rule, Scenario, LiveTypeOK, RunOK

\* A result more, or a scenario's events.
LEMMA ScenarioEvents ==
  ASSUME LiveTypeOK, run.at = "scenario"
  PROVE  /\ EventsOf(run.n, Rule, clock) \subseteq Sightings
         /\ IsFiniteSet(EventsOf(run.n, Rule, clock))
<1>1. Rule \in Rules /\ run.n \in Nat /\ clock \in Nat
  BY RuleIsOne DEF LiveTypeOK, RunOK, DeploymentOK
<1>2. QED
  BY <1>1, EventsAre

LEMMA DeploymentStep ==
  ASSUME LiveTypeOK, [LiveNext]_liveVars
  PROVE  DeploymentOK' /\ index \subseteq index' /\ alerts \subseteq alerts'
<1> USE DEF DeploymentOK
<1>1. DeploymentOK
  BY DEF LiveTypeOK
<1>2. CASE UNCHANGED environment
  BY <1>1, <1>2 DEF environment
<1>3. CASE PlayScenario \/ ScenarioFails
  <2>1. /\ UNCHANGED <<clock, index, alerts, noise>>
        /\ travelling' \in {travelling, travelling \cup EventsOf(run.n, Rule, clock)}
        /\ run.at = "scenario"
    BY <1>3 DEF PlayScenario, ScenarioFails
  <2>2. travelling' \subseteq Sightings /\ IsFiniteSet(travelling')
    BY <1>1, <2>1, ScenarioEvents, FS_Union
  <2>3. QED
    BY <1>1, <2>1, <2>2
<1>4. CASE Tick
  BY <1>1, <1>4 DEF Tick
<1>5. CASE OtherWrites
  <2> DEFINE e == [run |-> Scenario, entity |-> Other, at |-> clock, n |-> noise]
  <2>1. e \in Sightings
    BY <1>1, <1>5, RuleIsOne DEF OtherWrites, Sightings, Entities
  <2>2. index' = index \cup {e}
    BY <1>5 DEF OtherWrites
  <2> HIDE DEF e
  <2>3. IsFiniteSet(index')
    BY <1>1, <2>2, FS_AddElement
  <2>4. QED
    BY <1>1, <1>5, <2>1, <2>2, <2>3 DEF OtherWrites
<1>6. CASE Arrive
  <2>1. PICK arriving \in SUBSET travelling :
          /\ travelling' = travelling \ arriving /\ index' = index \cup arriving
          /\ UNCHANGED <<clock, alerts, noise>>
    BY <1>6 DEF Arrive
  <2>2. IsFiniteSet(arriving) /\ IsFiniteSet(travelling')
    BY <1>1, <2>1, FS_Subset
  <2>3. IsFiniteSet(index')
    BY <1>1, <2>1, <2>2, FS_Union
  <2>4. QED
    BY <1>1, <2>1, <2>2, <2>3
<1>7. CASE RaiseForEvent
  BY <1>1, <1>7 DEF RaiseForEvent, AlertFor
<1>8. CASE RaiseForProcess
  <2>1. PICK r \in Native : \E entity, counted :
          /\ alerts' = alerts \cup {AlertFor(r, None, entity, counted, clock)}
          /\ UNCHANGED <<clock, travelling, index, noise>>
    BY <1>8 DEF RaiseForProcess
  <2>2. QED
    BY <1>1, <2>1 DEF AlertFor
<1>9. QED
  BY <1>2, <1>3, <1>4, <1>5, <1>6, <1>7, <1>8
     DEF LiveNext, liveVars, environment, Begin, Validator, Proceed, Deployment, StaticStages,
         Prerequisites, SkipScenario, PollSource, PollAlert, Deadline, Report, Die

\* A rule's result is appended.
LEMMA ConcludedIs ==
  ASSUME LiveTypeOK, run.at \in {"scenario", "source", "alert"},
         NEW result \in {"PASS", "FAIL", "SKIPPED"}, run' = Concluded(result), UNCHANGED report
  PROVE  /\ RunOK'
         /\ run'.results = Append(run.results, result)
         /\ run'.n = run.n /\ run'.live = run.live /\ run'.static = run.static
         /\ run'.at \in {"scenario", "report"}
<1> USE DEF LiveTypeOK, RunOK
<1> DEFINE at == IF Len(run.results) + 1 = Len(Supported) THEN "report" ELSE "scenario"
           results == Append(run.results, result)
<1>1. run' = [run EXCEPT !.results = results, !.evidence = None, !.at = at]
  BY DEF Concluded
<1>2. results \in Seq({"PASS", "FAIL", "SKIPPED"}) /\ Len(results) = Len(run.results) + 1
      /\ Len(run.results) \in Nat
  BY AppendProperties, LenProperties
<1>3. at = "scenario" => Len(results) < Len(Supported)
  <2> DEFINE length == Len(results)
             before == Len(run.results)
             all == Len(Supported)
  <2>1. length = before + 1 /\ before \in Nat /\ all \in Nat /\ before < all
    BY <1>2, RulesAreListed
  <2>2. at = "scenario" => before + 1 # all
    OBVIOUS
  <2> HIDE DEF length, before, all, at
  <2>3. at = "scenario" => length < all
    BY <2>1, <2>2
  <2>4. QED
    BY <2>3 DEF length, all
<1>4. at \in {"scenario", "report"}
  OBVIOUS
<1>5. Len(results) <= Len(Supported)
  BY <1>2, RulesAreListed
<1> HIDE DEF at, results
<1>6. /\ run' \in [at : {"done", "static", "prerequisites", "scenario", "source", "alert", "report"},
                   n : Nat, live : BOOLEAN, static : BOOLEAN, start : Nat, evidence : Entities,
                   results : Seq({"PASS", "FAIL", "SKIPPED"})]
      /\ run'.at = at /\ run'.results = results
      /\ run'.n = run.n /\ run'.live = run.live /\ run'.static = run.static
  BY <1>1, <1>2, <1>4 DEF Entities
<1>7. QED
  BY <1>3, <1>4, <1>5, <1>6 DEF results

LEMMA RunStep == LiveTypeOK /\ [LiveNext]_liveVars => RunOK'
<1>1. SUFFICES ASSUME LiveTypeOK, [LiveNext]_liveVars PROVE RunOK'
  OBVIOUS
<1>2. DeploymentOK /\ RunOK
  BY <1>1 DEF LiveTypeOK
<1>3. CASE UNCHANGED <<run, report>>
  BY <1>2, <1>3 DEF RunOK
<1>4. ASSUME NEW result \in {"PASS", "FAIL", "SKIPPED"}, run' = Concluded(result),
             UNCHANGED report, run.at \in {"scenario", "source", "alert"}
      PROVE  RunOK'
  BY <1>1, <1>4, ConcludedIs
<1>5. ASSUME NEW live \in BOOLEAN, Begin(live) PROVE RunOK'
  <2>1. <<>> \in Seq({"PASS", "FAIL", "SKIPPED"}) /\ Len(<<>>) = 0
    BY EmptySeq
  <2>2. /\ run'.at = "static" /\ run'.results = <<>> /\ UNCHANGED report
        /\ run' = [at |-> "static", n |-> run.n + 1, live |-> live, static |-> FALSE,
                   start |-> 0, evidence |-> None, results |-> <<>>]
    BY <1>5 DEF Begin, Ready
  <2>3. run.n + 1 \in Nat
    BY <1>2 DEF RunOK
  <2>4. QED
    BY <1>2, <2>1, <2>2, <2>3, RulesAreListed DEF RunOK, Entities
<1>6. CASE StaticStages \/ Prerequisites
  <2>1. \E static \in BOOLEAN, at \in {"prerequisites", "scenario", "report"} :
          run' = [run EXCEPT !.static = static, !.at = at]
    <3>1. CASE StaticStages
      <4>1. (IF run.live THEN "prerequisites" ELSE "report") \in {"prerequisites", "scenario", "report"}
        OBVIOUS
      <4>2. QED
        BY <3>1, <4>1 DEF StaticStages
    <3>2. run.static \in BOOLEAN /\ run = [run EXCEPT !.static = run.static]
      BY <1>2 DEF RunOK
    <3>3. CASE run' = [run EXCEPT !.at = "scenario"] \/ run' = [run EXCEPT !.at = "report"]
      BY <1>2, <3>2, <3>3 DEF RunOK
    <3>4. CASE run' = [run EXCEPT !.at = "report", !.static = FALSE]
      BY <1>2, <3>4 DEF RunOK
    <3>5. QED
      BY <1>6, <3>1, <3>3, <3>4 DEF Prerequisites
  <2>2. run.results = <<>> /\ UNCHANGED report
    BY <1>2, <1>6 DEF StaticStages, Prerequisites, RunOK
  <2>3. 0 < Len(Supported)
    BY RulesAreListed, EmptySeq, LiveAssumption
  <2>4. Len(<<>>) = 0
    BY EmptySeq
  <2>5. /\ run' \in [at : {"done", "static", "prerequisites", "scenario", "source", "alert", "report"},
                     n : Nat, live : BOOLEAN, static : BOOLEAN, start : Nat, evidence : Entities,
                     results : Seq({"PASS", "FAIL", "SKIPPED"})]
        /\ run'.results = run.results
    BY <1>2, <2>1 DEF RunOK
  <2>6. QED
    BY <1>2, <2>2, <2>3, <2>4, <2>5 DEF RunOK
<1>7. CASE PlayScenario
  <2>1. run' = [run EXCEPT !.start = clock, !.at = IF Rule \in Native THEN "source" ELSE "alert"]
    BY <1>7 DEF PlayScenario
  <2>2. (IF Rule \in Native THEN "source" ELSE "alert") \in {"source", "alert"}
    OBVIOUS
  <2>3. QED
    BY <1>2, <1>7, <2>1, <2>2 DEF PlayScenario, RunOK, DeploymentOK
<1>8. CASE PollSource
  <2>1. CASE run' = Concluded("FAIL")
    BY <1>4, <1>8, <2>1 DEF PollSource
  <2>2. CASE \E entity \in Eligible : \E last \in SourceEvents(entity) :
               run' = [run EXCEPT !.at = "alert", !.start = last.at, !.evidence = entity]
    <3>1. PICK entity \in Eligible : \E last \in SourceEvents(entity) :
                 run' = [run EXCEPT !.at = "alert", !.start = last.at, !.evidence = entity]
      BY <2>2
    <3>2. PICK last \in SourceEvents(entity) :
                 run' = [run EXCEPT !.at = "alert", !.start = last.at, !.evidence = entity]
      BY <3>1
    <3>3. last.at \in Nat /\ entity \in Entities
      BY <1>2, <3>1, <3>2 DEF Eligible, SourceEvents, DeploymentOK, Sightings
    <3>4. QED
      BY <1>2, <1>8, <3>2, <3>3 DEF PollSource, RunOK
  <2>3. QED
    BY <1>8, <2>1, <2>2 DEF PollSource
<1>9. CASE Report
  <2> DEFINE verdict == IF ~run.live THEN "SKIPPED" ELSE IF LiveComplete THEN "PASS" ELSE "FAIL"
  <2>1. report' = [n |-> run.n, static |-> run.static, live |-> verdict]
        /\ run' = [run EXCEPT !.at = "done"]
    BY <1>9 DEF Report
  <2>2. verdict \in {"PASS", "FAIL", "SKIPPED"}
    OBVIOUS
  <2> HIDE DEF verdict
  <2>3. report' \in Reports
    BY <1>2, <2>1, <2>2 DEF RunOK, Reports
  <2>4. QED
    BY <1>2, <2>1, <2>3 DEF RunOK
<1>10. CASE Die
  BY <1>2, <1>10 DEF Die, RunOK
<1>11. CASE SkipScenario \/ ScenarioFails \/ PollAlert \/ Deadline
  <2>1. \E result \in {"PASS", "FAIL", "SKIPPED"} : run' = Concluded(result)
    BY <1>11 DEF SkipScenario, ScenarioFails, PollAlert, Deadline
  <2>2. UNCHANGED report /\ run.at \in {"scenario", "source", "alert"}
    BY <1>11 DEF SkipScenario, ScenarioFails, PollAlert, Deadline
  <2>3. QED
    BY <1>4, <2>1, <2>2
<1>12. QED
  BY <1>1, <1>3, <1>5, <1>6, <1>7, <1>8, <1>9, <1>10, <1>11
     DEF LiveNext, liveVars, Validator, Proceed, Deployment, Tick, OtherWrites, Arrive,
         RaiseForEvent, RaiseForProcess

\* Reports have the right shape, and the validator always knows which rule is
\* next (run_supported_rules.py: main).
THEOREM LiveTypeCorrect == LiveSpec => []LiveTypeOK
<1>1. LiveInit => LiveTypeOK
  BY LiveInitially
<1>2. LiveTypeOK /\ [LiveNext]_liveVars => LiveTypeOK'
  BY RunStep, DeploymentStep DEF LiveTypeOK
<1>3. QED
  BY <1>1, <1>2, PTL DEF LiveSpec

\* The last of the events that were found is the time from which the alert
\* counts, so all of them are older.
LEMMA SourceIsReached ==
  ASSUME DeploymentOK, NEW entity \in Eligible, NEW last \in SourceEvents(entity),
         \A e \in SourceEvents(entity) : e.at <= last.at
  PROVE  Reaches(Scenario, entity, last.at)
<1> DEFINE found == SourceEvents(entity)
           all == { e \in index : e.run = Scenario /\ e.entity = entity /\ e.at <= last.at }
<1>1. found \subseteq all /\ IsFiniteSet(all)
  BY FS_Subset DEF SourceEvents, DeploymentOK
<1>2. IsFiniteSet(found) /\ Cardinality(found) <= Cardinality(all)
  BY <1>1, FS_Subset
<1>3. Cardinality(found) \in Nat /\ Cardinality(all) \in Nat
  BY <1>1, <1>2, FS_CardinalityType
<1>4. Cardinality(found) >= Threshold
  BY DEF Eligible
<1>5. Cardinality(all) >= Threshold
  <2> HIDE DEF found, all
  <2> QED BY <1>2, <1>3, <1>4, LiveAssumption
<1>6. QED
  BY <1>5 DEF Reaches

LEMMA CountedStep == LiveTypeOK /\ Counted /\ [LiveNext]_liveVars => Counted'
<1>1. SUFFICES ASSUME LiveTypeOK, Counted, [LiveNext]_liveVars, run'.at = "alert", Rule' \in Native
               PROVE  Reaches(Scenario, run.evidence, run.start)'
  BY DEF Counted
<1>2. /\ IsFiniteSet(index) /\ IsFiniteSet(index') /\ index \subseteq index' /\ DeploymentOK
  BY <1>1, DeploymentStep DEF LiveTypeOK, DeploymentOK
<1>3. CASE UNCHANGED run
  <2>1. UNCHANGED <<Rule, Scenario>> /\ run.at = "alert" /\ Rule \in Native
    BY <1>1, <1>3 DEF Rule, Scenario
  <2>2. Reaches(Scenario, run.evidence, run.start)
    BY <1>1, <2>1 DEF Counted
  <2>3. PICK scenario, entity, at : scenario = Scenario /\ entity = run.evidence /\ at = run.start
    OBVIOUS
  <2>4. Reaches(scenario, entity, at)
    BY <2>2, <2>3
  <2>5. Reaches(scenario, entity, at)'
    BY <1>2, <2>4, ReachesStays
  <2>6. scenario = Scenario' /\ entity = run'.evidence /\ at = run'.start
    BY <1>3, <2>1, <2>3
  <2>7. QED
    BY <2>5, <2>6
<1>4. CASE PollSource
  <2>1. run'.at = "alert" /\ UNCHANGED index
    BY <1>1, <1>4 DEF PollSource, environment
  <2>2. ~(run' = Concluded("FAIL"))
    <3>1. SUFFICES ASSUME run' = Concluded("FAIL") PROVE FALSE
      OBVIOUS
    <3>2. run.at = "source"
      BY <1>4 DEF PollSource
    <3>3. UNCHANGED report
      BY <1>4 DEF PollSource
    <3>4. run'.at \in {"scenario", "report"}
      BY <1>1, <3>1, <3>2, <3>3, ConcludedIs
    <3>5. QED
      BY <2>1, <3>4
  <2>3. PICK entity \in Eligible : \E last \in SourceEvents(entity) :
               /\ \A e \in SourceEvents(entity) : e.at <= last.at
               /\ run' = [run EXCEPT !.at = "alert", !.start = last.at, !.evidence = entity]
    BY <1>4, <2>2 DEF PollSource
  <2>4. PICK last \in SourceEvents(entity) :
               /\ \A e \in SourceEvents(entity) : e.at <= last.at
               /\ run' = [run EXCEPT !.at = "alert", !.start = last.at, !.evidence = entity]
    BY <2>3
  <2>5. Reaches(Scenario, entity, last.at)
    BY <1>2, <2>4, SourceIsReached
  <2>6. run'.results = run.results /\ run'.n = run.n /\ run'.start = last.at /\ run'.evidence = entity
    BY <1>1, <2>4 DEF LiveTypeOK, RunOK
  <2>7. UNCHANGED Scenario
    BY <2>6 DEF Scenario, Rule
  <2>8. QED
    BY <2>1, <2>5, <2>6, <2>7 DEF Reaches
<1>5. CASE PlayScenario
  <2>1. run' = [run EXCEPT !.start = clock, !.at = IF Rule \in Native THEN "source" ELSE "alert"]
    BY <1>5 DEF PlayScenario
  <2>2. run'.results = run.results /\ (Rule \in Native => run'.at = "source")
    BY <1>1, <2>1 DEF LiveTypeOK, RunOK
  <2>3. UNCHANGED Rule
    BY <2>2 DEF Rule
  <2>4. QED
    BY <1>1, <2>2, <2>3
<1>6. CASE SkipScenario \/ ScenarioFails \/ PollAlert \/ Deadline
  <2>1. \E result \in {"PASS", "FAIL", "SKIPPED"} : run' = Concluded(result)
    BY <1>6 DEF SkipScenario, ScenarioFails, PollAlert, Deadline
  <2>2. UNCHANGED report /\ run.at \in {"scenario", "source", "alert"}
    BY <1>6 DEF SkipScenario, ScenarioFails, PollAlert, Deadline
  <2>3. run'.at \in {"scenario", "report"}
    BY <1>1, <2>1, <2>2, ConcludedIs
  <2>4. QED
    BY <1>1, <2>3
<1>7. CASE (\E live \in BOOLEAN : Begin(live)) \/ StaticStages \/ Prerequisites \/ Report \/ Die
  <2>1. run'.at # "alert"
    BY <1>1, <1>7 DEF Begin, StaticStages, Prerequisites, Report, Die, LiveTypeOK, RunOK, Ready
  <2>2. QED
    BY <1>1, <2>1
<1>8. QED
  BY <1>1, <1>3, <1>4, <1>5, <1>6, <1>7
     DEF LiveNext, liveVars, Validator, Proceed, Deployment, Tick, OtherWrites, Arrive,
         RaiseForEvent, RaiseForProcess

LEMMA ReachesLater ==
  ASSUME IsFiniteSet(index), \A e \in index : e.at \in Nat,
         NEW scenario, NEW entity, NEW at \in Nat, NEW later \in Nat, at <= later,
         Reaches(scenario, entity, at)
  PROVE  Reaches(scenario, entity, later)
<1> DEFINE S == { e \in index : e.run = scenario /\ e.entity = entity /\ e.at <= at }
           T == { e \in index : e.run = scenario /\ e.entity = entity /\ e.at <= later }
<1>1. IsFiniteSet(T)
  BY FS_Subset
<1>2. S \subseteq T
  OBVIOUS
<1>3. IsFiniteSet(S) /\ Cardinality(S) <= Cardinality(T)
  <2> HIDE DEF S, T
  <2> QED BY <1>1, <1>2, FS_Subset
<1>4. Cardinality(S) \in Nat /\ Cardinality(T) \in Nat
  <2> HIDE DEF S, T
  <2> QED BY <1>1, <1>3, FS_CardinalityType
<1>5. Cardinality(S) >= Threshold
  BY DEF Reaches
<1>6. Cardinality(T) >= Threshold
  <2> HIDE DEF S, T
  <2> QED BY <1>3, <1>4, <1>5, LiveAssumption
<1>7. QED
  BY <1>6 DEF Reaches

\* The alert that ends the wait for a rule is one that counts.
LEMMA MatchIsEarned ==
  ASSUME LiveTypeOK, Counted, run.at = "alert", NEW a \in alerts, Matches(a)
  PROVE  AlertOf(Rule, run.n)
<1>1. /\ IsFiniteSet(index) /\ \A e \in index : e.at \in Nat
      /\ a.at \in Nat /\ run.start \in Nat
  BY DEF LiveTypeOK, DeploymentOK, RunOK, Sightings
<1>2. CASE Rule \in Native
  <2>1. Reaches(Scenario, run.evidence, run.start)
    BY <1>2 DEF Counted
  <2>2. a.entity = run.evidence /\ a.at >= run.start
    BY <1>2 DEF Matches
  <2>3. PICK start \in Nat, at \in Nat : start = run.start /\ at = a.at
    BY <1>1
  <2>4. start <= at
    BY <2>2, <2>3
  <2>5. Reaches(Scenario, run.evidence, start)
    BY <2>1, <2>3
  <2>6. Reaches(Scenario, run.evidence, at)
    BY <1>1, <2>4, <2>5, ReachesLater
  <2>7. Reaches(<<run.n, Rule>>, a.entity, a.at)
    BY <2>2, <2>3, <2>6 DEF Scenario
  <2>8. QED
    BY <1>2, <2>7 DEF AlertOf, Matches, Fixture
<1>3. CASE Rule \notin Native
  BY <1>3 DEF AlertOf, Matches, Scenario
<1>4. QED
  BY <1>2, <1>3

LEMMA PassesStep ==
  LiveTypeOK /\ Counted /\ PassesAreEarned /\ [LiveNext]_liveVars => PassesAreEarned'
<1>1. SUFFICES ASSUME LiveTypeOK, Counted, PassesAreEarned, [LiveNext]_liveVars
               PROVE  PassesAreEarned'
  OBVIOUS
<1>2. /\ IsFiniteSet(index) /\ IsFiniteSet(index')
      /\ index \subseteq index' /\ alerts \subseteq alerts'
  BY <1>1, DeploymentStep DEF LiveTypeOK, DeploymentOK
<1>3. \A i \in DOMAIN run.results :
        run.results[i] = "PASS" => AlertOf(Supported[i], run.n)'
        \/ run'.n # run.n
  <2>1. SUFFICES ASSUME NEW i \in DOMAIN run.results, run.results[i] = "PASS", run'.n = run.n
                 PROVE  AlertOf(Supported[i], run.n)'
    OBVIOUS
  <2>2. PICK r, n : r = Supported[i] /\ n = run.n
    OBVIOUS
  <2>3. AlertOf(r, n)
    BY <1>1, <2>1, <2>2 DEF PassesAreEarned
  <2>4. AlertOf(r, n)'
    BY <1>2, <2>3, AlertStays
  <2>5. QED
    BY <2>1, <2>2, <2>4
<1>4. CASE run'.results = run.results /\ run'.n = run.n
  BY <1>3, <1>4 DEF PassesAreEarned
<1>5. ASSUME NEW result \in {"PASS", "FAIL", "SKIPPED"}, run' = Concluded(result), UNCHANGED report,
             run.at \in {"scenario", "source", "alert"},
             result = "PASS" => AlertOf(Rule, run.n)
      PROVE  PassesAreEarned'
  <2>1. run'.results = Append(run.results, result) /\ run'.n = run.n
    BY <1>1, <1>5, ConcludedIs
  <2>2. run.results \in Seq({"PASS", "FAIL", "SKIPPED"})
    BY <1>1 DEF LiveTypeOK, RunOK
  <2>3. SUFFICES ASSUME NEW i \in DOMAIN run'.results, run'.results[i] = "PASS"
                 PROVE  AlertOf(Supported[i], run.n)'
    BY DEF PassesAreEarned
  <2>4. CASE i \in DOMAIN run.results
    <3>1. run.results[i] = "PASS"
      BY <2>1, <2>2, <2>3, <2>4, AppendProperties
    <3>2. QED
      BY <1>3, <2>1, <2>4, <3>1
  <2>5. CASE i \notin DOMAIN run.results
    <3>1. i = Len(run.results) + 1 /\ result = "PASS"
      <4>1. i \in 1..(Len(run.results) + 1) /\ DOMAIN run.results = 1..Len(run.results)
            /\ Len(run.results) \in Nat
        BY <2>1, <2>2, <2>3, AppendProperties, LenProperties
      <4>2. i = Len(run.results) + 1
        BY <2>5, <4>1
      <4>3. QED
        BY <2>1, <2>2, <2>3, <4>2, AppendProperties
    <3>2. PICK r, n : r = Rule /\ n = run.n
      OBVIOUS
    <3>3. AlertOf(r, n)
      BY <1>5, <3>1, <3>2
    <3>4. AlertOf(r, n)'
      BY <1>2, <3>3, AlertStays
    <3>5. r = Supported[i] /\ n = run'.n
      BY <2>1, <3>1, <3>2 DEF Rule
    <3>6. QED
      BY <3>4, <3>5
  <2>6. QED
    BY <2>4, <2>5
<1>6. CASE PollAlert
  <2>1. PICK a \in alerts : Matches(a)
    BY <1>6 DEF PollAlert
  <2>2. AlertOf(Rule, run.n)
    BY <1>1, <1>6, <2>1, MatchIsEarned DEF PollAlert
  <2>3. QED
    BY <1>5, <1>6, <2>2 DEF PollAlert
<1>7. CASE SkipScenario \/ ScenarioFails \/ Deadline \/ (PollSource /\ run' = Concluded("FAIL"))
  <2>1. \E result \in {"FAIL", "SKIPPED"} : run' = Concluded(result)
    BY <1>7 DEF SkipScenario, ScenarioFails, Deadline
  <2>2. UNCHANGED report /\ run.at \in {"scenario", "source", "alert"}
    BY <1>7 DEF SkipScenario, ScenarioFails, PollSource, Deadline
  <2>3. QED
    BY <1>5, <2>1, <2>2
<1>8. ASSUME NEW live \in BOOLEAN, Begin(live) PROVE PassesAreEarned'
  <2>1. run'.results = <<>>
    BY <1>8 DEF Begin, Ready
  <2>2. QED
    BY <2>1 DEF PassesAreEarned
<1>9. CASE StaticStages \/ Prerequisites \/ PlayScenario \/ Report \/ Die
           \/ (PollSource /\ run' # Concluded("FAIL"))
  <2>1. run'.results = run.results /\ run'.n = run.n
    BY <1>1, <1>9 DEF StaticStages, Prerequisites, PlayScenario, PollSource, Report, Die, LiveTypeOK, RunOK
  <2>2. QED
    BY <1>4, <2>1
<1>10. QED
  BY <1>1, <1>4, <1>6, <1>7, <1>8, <1>9
     DEF LiveNext, liveVars, Validator, Proceed, Deployment, Tick, OtherWrites, Arrive,
         RaiseForEvent, RaiseForProcess

\* A report that says PASS has a pass for every rule behind it.
LEMMA ReportStep ==
  LiveTypeOK /\ PassesAreEarned /\ EarnedReport /\ [LiveNext]_liveVars => EarnedReport'
<1>1. SUFFICES ASSUME LiveTypeOK, PassesAreEarned, EarnedReport, [LiveNext]_liveVars,
                      report' # None, report'.live = "PASS", NEW r \in Rules
               PROVE  AlertOf(r, report.n)'
  BY DEF EarnedReport
<1>2. /\ IsFiniteSet(index) /\ IsFiniteSet(index')
      /\ index \subseteq index' /\ alerts \subseteq alerts'
  BY <1>1, DeploymentStep DEF LiveTypeOK, DeploymentOK
<1>3. CASE UNCHANGED report
  <2>1. PICK n : n = report.n
    OBVIOUS
  <2>2. AlertOf(r, n)
    BY <1>1, <1>3, <2>1 DEF EarnedReport
  <2>3. AlertOf(r, n)'
    BY <1>2, <2>2, AlertStays
  <2>4. QED
    BY <1>3, <2>1, <2>3
<1>4. CASE Report
  <2>1. run.live /\ LiveComplete /\ report'.n = run.n
    BY <1>1, <1>4 DEF Report
  <2>2. PICK i \in DOMAIN Supported : Supported[i] = r
    BY RulesAreListed
  <2>3. i \in DOMAIN run.results /\ run.results[i] = "PASS"
    <3>1. DOMAIN run.results = DOMAIN Supported
      BY <1>1, <2>1, RulesAreListed, LenProperties DEF LiveComplete, LiveTypeOK, RunOK
    <3>2. QED
      BY <2>1, <2>2, <3>1 DEF LiveComplete
  <2>4. PICK n : n = run.n
    OBVIOUS
  <2>5. AlertOf(r, n)
    BY <1>1, <2>2, <2>3, <2>4 DEF PassesAreEarned
  <2>6. AlertOf(r, n)'
    BY <1>2, <2>5, AlertStays
  <2>7. QED
    BY <2>1, <2>4, <2>6
<1>5. CASE Die
  BY <1>1, <1>3, <1>5 DEF Die
<1>6. QED
  BY <1>1, <1>3, <1>4, <1>5
     DEF LiveNext, liveVars, Begin, Validator, Proceed, Deployment, Tick, OtherWrites, Arrive,
         RaiseForEvent, RaiseForProcess, StaticStages, Prerequisites, SkipScenario, PlayScenario,
         ScenarioFails, PollSource, PollAlert, Deadline

\* The exit status is set with the report, and taken back with the next run.
LEMMA ExitStep ==
  LiveTypeOK /\ OkIsOver /\ ExitIsHonest /\ [LiveNext]_liveVars => OkIsOver' /\ ExitIsHonest'
<1>1. SUFFICES ASSUME LiveTypeOK, OkIsOver, ExitIsHonest, [LiveNext]_liveVars
               PROVE  OkIsOver' /\ ExitIsHonest'
  OBVIOUS
<1>2. CASE UNCHANGED <<run, report, exit>>
  BY <1>1, <1>2 DEF OkIsOver, ExitIsHonest
<1>3. CASE UNCHANGED exit /\ run.at # "done"
  BY <1>1, <1>3 DEF OkIsOver, ExitIsHonest
<1>4. CASE (\E live \in BOOLEAN : Begin(live)) \/ Die
  BY <1>4, LiveAssumption DEF Begin, Die, OkIsOver, ExitIsHonest
<1>5. CASE Report
  <2>1. SUFFICES ASSUME exit' = "ok" PROVE OkIsOver' /\ ExitIsHonest'
    BY DEF OkIsOver, ExitIsHonest
  <2>2. run.static /\ (run.live => LiveComplete)
    BY <1>5, <2>1 DEF Report
  <2>3. run'.at = "done" /\ run'.results = run.results /\ run'.n = run.n /\ run'.live = run.live
    BY <1>1, <1>5 DEF Report, LiveTypeOK, RunOK
  <2>4. run.live => run.results = [i \in DOMAIN Supported |-> "PASS"]
    <3>1. SUFFICES ASSUME run.live PROVE run.results = [i \in DOMAIN Supported |-> "PASS"]
      OBVIOUS
    <3>2. DOMAIN run.results = DOMAIN Supported /\ run.results = [i \in DOMAIN run.results |-> run.results[i]]
      BY <1>1, <2>2, <3>1, RulesAreListed, LenProperties DEF LiveComplete, LiveTypeOK, RunOK
    <3>3. \A i \in DOMAIN run.results : run.results[i] = "PASS"
      BY <2>2, <3>1 DEF LiveComplete
    <3> DEFINE results == run.results
               all == DOMAIN Supported
    <3>4. /\ DOMAIN results = all /\ results = [i \in DOMAIN results |-> results[i]]
          /\ \A i \in DOMAIN results : results[i] = "PASS"
      BY <3>2, <3>3
    <3> HIDE DEF results, all
    <3>5. results = [i \in all |-> "PASS"]
      BY <3>4
    <3>6. QED
      BY <3>5 DEF results, all
  <2> DEFINE verdict == IF ~run.live THEN "SKIPPED" ELSE IF LiveComplete THEN "PASS" ELSE "FAIL"
  <2>5. report' = [n |-> run.n, static |-> run.static, live |-> verdict]
    BY <1>5 DEF Report
  <2>6. verdict = IF run.live THEN "PASS" ELSE "SKIPPED"
    BY <2>2
  <2>7. verdict \in {"PASS", "FAIL", "SKIPPED"}
    OBVIOUS
  <2> HIDE DEF verdict
  <2>8. report' # None
    BY <1>1, <2>5, <2>7, LiveAssumption DEF Reports, LiveTypeOK, RunOK
  <2>9. report'.n = run'.n /\ report'.static /\ report'.live = IF run'.live THEN "PASS" ELSE "SKIPPED"
    BY <2>2, <2>3, <2>5, <2>6
  <2>10. OkIsOver'
    BY <2>3 DEF OkIsOver
  <2>11. run'.live => run'.results = [i \in DOMAIN Supported |-> "PASS"]
    BY <2>3, <2>4
  <2>12. QED
    BY <2>8, <2>9, <2>10, <2>11 DEF ExitIsHonest
<1>6. QED
  BY <1>1, <1>2, <1>3, <1>4, <1>5
     DEF LiveNext, liveVars, Validator, Proceed, Deployment, Tick, OtherWrites, Arrive,
         RaiseForEvent, RaiseForProcess, StaticStages, Prerequisites, SkipScenario, PlayScenario,
         ScenarioFails, PollSource, PollAlert, Deadline

LEMMA LiveInvariance == LiveSpec => []LiveInv
<1>1. LiveInit => LiveInv
  BY LiveInitially
<1>2. LiveTypeOK /\ LiveInv /\ [LiveNext]_liveVars => LiveInv'
  BY CountedStep, PassesStep, ReportStep, ExitStep DEF LiveInv
<1>3. QED
  BY <1>1, <1>2, LiveTypeCorrect, PTL DEF LiveSpec

\* A report that says PASS was earned by the run it is of: no alert of an
\* earlier run, of another process or of a time before the evidence counts, for
\* any rules, any threshold, and whatever Elasticsearch does
\* (run_supported_rules.py: _poll_alert, alert_is_current).
THEOREM ReportsAreEarned == LiveSpec => []ReportIsEarned
<1>1. LiveTypeOK /\ LiveInv => ReportIsEarned
  <2>1. SUFFICES ASSUME LiveInv, report # None, report.live = "PASS", NEW r \in Rules
                 PROVE  AlertOf(r, report.n)
    BY DEF ReportIsEarned, AlertOf, Reaches
  <2>2. QED
    BY <2>1 DEF LiveInv, EarnedReport
<1>2. QED
  BY <1>1, LiveTypeCorrect, LiveInvariance, PTL

\* A run that exits well leaves a report of itself that says so, with a pass for
\* every rule when it was live (run_supported_rules.py: main).
THEOREM ExitsAreHonest == LiveSpec => []ExitIsHonest
<1>1. LiveInv => ExitIsHonest
  BY DEF LiveInv
<1>2. QED
  BY <1>1, LiveInvariance, PTL
=============================================================================
