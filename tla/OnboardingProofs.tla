--------------------------- MODULE OnboardingProofs ---------------------------
(***************************************************************************)
(* The onboarding commands, for any rules, homes, events, tools and        *)
(* targets and any number of commands, polls and changes: what a PASS of   *)
(* an import, of setup and of uninstall says is so, and the hooks of other *)
(* tools survive.                                                          *)
(***************************************************************************)
EXTENDS Onboarding, SequenceTheorems, WellFoundedInduction, TLAPS

-----------------------------------------------------------------------------
(* Induction over numbers and over sequences.                              *)

LEMMA Induction ==
  ASSUME NEW S, 0 \in S, \A n \in Nat : n \in S => n + 1 \in S
  PROVE  \A n \in Nat : n \in S
<1> DEFINE T == {n \in Nat : n \notin S}
<1>1. SUFFICES ASSUME T # {} PROVE FALSE
  OBVIOUS
<1>2. IsWellFoundedOn(OpToRel(<, Nat), Nat)
  BY NatLessThanWellFounded
<1>3. T \subseteq Nat
  OBVIOUS
<1>4. PICK x \in T : \A y \in T : ~ (<<y, x>> \in OpToRel(<, Nat))
  <2> HIDE DEF T
  <2> QED BY <1>1, <1>2, <1>3, WFMin, Zenon
<1>5. \A y \in T : ~ (y < x)
  BY <1>4 DEF OpToRel
<1>6. x # 0 /\ x - 1 \in Nat /\ x - 1 \in S
  BY <1>5
<1>7. QED
  BY <1>6

LEMMA SequenceInduction ==
  ASSUME NEW X, NEW T, <<>> \in T, \A s \in Seq(X), x \in X : s \in T => Append(s, x) \in T
  PROVE  \A s \in Seq(X) : s \in T
<1> DEFINE S == {n \in Nat : \A s \in Seq(X) : Len(s) = n => s \in T}
<1>1. 0 \in S
  BY EmptySeq
<1>2. \A n \in Nat : n \in S => n + 1 \in S
  <2>1. SUFFICES ASSUME NEW n \in Nat, n \in S, NEW s \in Seq(X), Len(s) = n + 1 PROVE s \in T
    OBVIOUS
  <2>2. s # <<>>
    BY <2>1, EmptySeq
  <2>3. PICK t \in Seq(X), x \in X : s = Append(t, x)
    BY <2>2, SequenceEmptyOrAppend
  <2>4. Len(t) \in Nat /\ Len(s) = Len(t) + 1
    BY <2>3, AppendProperties, LenProperties
  <2>5. t \in T
    BY <2>1, <2>4
  <2>6. QED
    BY <2>3, <2>5
<1>3. \A n \in Nat : n \in S
  <2> HIDE DEF S
  <2> QED BY <1>1, <1>2, Induction
<1>4. QED
  BY <1>3, LenProperties

StepsOf(n, T) == [1..n -> [T -> T]]

Iterates(f, n, T, base, step) ==
  f \in [0..n -> T] /\ f[0] = base /\ \A i \in 1..n : f[i] = step[i][f[i-1]]

LEMMA IterationExists ==
  ASSUME NEW n \in Nat, NEW T, NEW base \in T, NEW step \in StepsOf(n, T)
  PROVE  \E f : Iterates(f, n, T, base, step)
<1> USE DEF StepsOf, Iterates
<1> DEFINE Upto(m) == \E f \in [0..m -> T] : f[0] = base /\ \A i \in 1..m : f[i] = step[i][f[i-1]]
           S == {m \in Nat : m <= n => Upto(m)}
<1>1. 0 \in S
  <2> DEFINE f == [i \in 0..0 |-> base]
  <2>1. f \in [0..0 -> T] /\ f[0] = base /\ \A i \in 1..0 : f[i] = step[i][f[i-1]]
    OBVIOUS
  <2>2. QED
    BY <2>1
<1>2. \A m \in Nat : m \in S => m + 1 \in S
  <2>1. SUFFICES ASSUME NEW m \in Nat, m + 1 <= n, Upto(m) PROVE Upto(m + 1)
    <3> HIDE DEF Upto
    <3> QED OBVIOUS
  <2>2. PICK f \in [0..m -> T] : f[0] = base /\ \A i \in 1..m : f[i] = step[i][f[i-1]]
    BY <2>1
  <2> DEFINE g == [i \in 0..(m+1) |-> IF i = m + 1 THEN step[m+1][f[m]] ELSE f[i]]
  <2>3. step[m+1] \in [T -> T] /\ f[m] \in T
    BY <2>1
  <2>4. \A i \in 0..(m+1) : i = m + 1 \/ i \in 0..m
    OBVIOUS
  <2>5. g \in [0..(m+1) -> T] /\ g[0] = base
    BY <2>2, <2>3, <2>4
  <2>6. ASSUME NEW i \in 1..(m+1) PROVE g[i] = step[i][g[i-1]]
    <3>1. i - 1 \in 0..m /\ g[i-1] = f[i-1]
      OBVIOUS
    <3>2. CASE i = m + 1
      BY <3>1, <3>2
    <3>3. CASE i # m + 1
      <4>1. i \in 1..m /\ g[i] = f[i]
        BY <3>3
      <4>2. QED
        BY <2>2, <3>1, <4>1
    <3>4. QED
      BY <3>2, <3>3
  <2>7. QED
    BY <2>5, <2>6
<1>3. \A m \in Nat : m \in S
  <2> HIDE DEF S
  <2> QED BY <1>1, <1>2, Induction
<1>4. QED
  BY <1>3

LEMMA IterationIsOne ==
  ASSUME NEW n \in Nat, NEW f, NEW g, f[0] = g[0],
         \A i \in 1..n : f[i-1] = g[i-1] => f[i] = g[i]
  PROVE  f[n] = g[n]
<1> DEFINE S == {m \in Nat : m <= n => f[m] = g[m]}
<1>1. 0 \in S
  OBVIOUS
<1>2. \A m \in Nat : m \in S => m + 1 \in S
  <2>1. SUFFICES ASSUME NEW m \in Nat, m + 1 <= n, f[m] = g[m] PROVE f[m+1] = g[m+1]
    OBVIOUS
  <2>2. m + 1 \in 1..n /\ (m + 1) - 1 = m
    BY <2>1
  <2>3. QED
    BY <2>1, <2>2
<1>3. \A m \in Nat : m \in S
  <2> HIDE DEF S
  <2> QED BY <1>1, <1>2, Induction
<1>4. QED
  BY <1>3

-----------------------------------------------------------------------------
(* Filter and Flat: one item more.                                         *)

IsFilter(f, s, S) ==
  f = [n \in 0..Len(s) |->
         IF n = 0 THEN <<>> ELSE IF s[n] \in S THEN Append(f[n-1], s[n]) ELSE f[n-1]]

Filters(f, s, S) ==
  /\ f[0] = <<>>
  /\ \A n \in 1..Len(s) : f[n] = IF s[n] \in S THEN Append(f[n-1], s[n]) ELSE f[n-1]

LEMMA FilterStep ==
  ASSUME NEW s, NEW S, NEW f, Len(s) \in Nat, IsFilter(f, s, S)
  PROVE  Filters(f, s, S)
<1>1. 0 \in 0..Len(s)
  OBVIOUS
<1>2. \A n \in 1..Len(s) : n \in 0..Len(s) /\ n # 0
  OBVIOUS
<1>3. QED
  BY <1>1, <1>2, Zenon DEF IsFilter, Filters

LEMMA FilterIs ==
  ASSUME NEW X, NEW S, NEW s \in Seq(X)
  PROVE  /\ \E f : Filters(f, s, S) /\ Filter(s, S) = f[Len(s)]
         /\ Filter(s, S) \in Seq(X \cap S)
<1> DEFINE T == Seq(X \cap S)
           N == Len(s)
           base == <<>>
           step == [n \in 1..N |-> [t \in T |-> IF s[n] \in S THEN Append(t, s[n]) ELSE t]]
           F == CHOOSE f : IsFilter(f, s, S)
<1>1. N \in Nat /\ \A n \in 1..N : s[n] \in X
  BY LenProperties, ElementOfSeq
<1>2. base \in T
  BY EmptySeq
<1>3. ASSUME NEW n \in 1..N PROVE step[n] \in [T -> T]
  <2>1. ASSUME NEW t \in T PROVE (IF s[n] \in S THEN Append(t, s[n]) ELSE t) \in T
    BY <1>1, AppendProperties
  <2>2. QED
    BY <2>1
<1>4. step \in StepsOf(N, T)
  BY <1>3 DEF StepsOf
<1>5. PICK f : Iterates(f, N, T, base, step)
  <2> HIDE DEF T, N, step, base
  <2> QED BY <1>1, <1>2, <1>4, IterationExists
<1>6. ASSUME NEW i \in 1..N
      PROVE  f[i] = IF s[i] \in S THEN Append(f[i-1], s[i]) ELSE f[i-1]
  <2>1. i - 1 \in 0..N
    BY <1>1
  <2>2. f[i-1] \in T
    BY <1>5, <2>1 DEF Iterates
  <2>3. QED
    BY <1>5, <2>2 DEF Iterates
<1>7. Filters(f, s, S)
  BY <1>5, <1>6 DEF Filters, Iterates
<1>8. IsFilter(f, s, S)
  <2>1. ASSUME NEW n \in 0..N
        PROVE  f[n] = IF n = 0 THEN <<>> ELSE IF s[n] \in S THEN Append(f[n-1], s[n]) ELSE f[n-1]
    <3>1. n = 0 \/ n \in 1..N
      OBVIOUS
    <3>2. QED
      BY <1>5, <1>6, <3>1 DEF Iterates
  <2>2. f = [n \in 0..N |-> f[n]]
    <3> HIDE DEF T, N
    <3> QED BY <1>5 DEF Iterates
  <2> HIDE DEF step, T
  <2>3. QED
    BY <2>1, <2>2, Zenon DEF IsFilter
<1>9. Filters(F, s, S)
  <2>1. IsFilter(F, s, S)
    BY <1>8
  <2> HIDE DEF F
  <2>2. QED
    BY <1>1, <2>1, FilterStep
<1>10. Filter(s, S) = F[N]
  BY DEF Filter, IsFilter
<1>11. F[N] = f[N]
  <2> HIDE DEF F, N, T
  <2>1. F[0] = f[0]
    BY <1>7, <1>9 DEF Filters
  <2>2. \A n \in 1..N : F[n-1] = f[n-1] => F[n] = f[n]
    BY <1>7, <1>9 DEF Filters, N
  <2>3. QED
    BY <1>1, <2>1, <2>2, IterationIsOne
<1>12. f[N] \in T
  <2> HIDE DEF T, N
  <2> QED BY <1>1, <1>5 DEF Iterates
<1>13. QED
  BY <1>7, <1>10, <1>11, <1>12

LEMMA FilterEmpty ==
  ASSUME NEW S
  PROVE  Filter(<<>>, S) = <<>>
<1> DEFINE s == <<>>
<1>1. s \in Seq({}) /\ Len(s) = 0
  BY EmptySeq
<1> HIDE DEF s
<1>2. PICK f : Filters(f, s, S) /\ Filter(s, S) = f[Len(s)]
  BY <1>1, FilterIs
<1>3. QED
  BY <1>1, <1>2 DEF Filters, s

LEMMA FilterAppend ==
  ASSUME NEW X, NEW S, NEW s \in Seq(X), NEW x \in X
  PROVE  Filter(Append(s, x), S) = IF x \in S THEN Append(Filter(s, S), x) ELSE Filter(s, S)
<1> DEFINE t == Append(s, x)
           N == Len(s)
<1>1. t \in Seq(X) /\ Len(t) = N + 1 /\ N \in Nat /\ t[N+1] = x /\ \A n \in 1..N : t[n] = s[n]
  BY AppendProperties, LenProperties
<1> HIDE DEF t
<1>2. PICK f : Filters(f, s, S) /\ Filter(s, S) = f[N]
  BY FilterIs
<1>3. PICK g : Filters(g, t, S) /\ Filter(t, S) = g[N+1]
  <2>1. t \in Seq(X)
    BY <1>1
  <2>2. \E g : Filters(g, t, S) /\ Filter(t, S) = g[Len(t)]
    BY <2>1, FilterIs
  <2>3. QED
    BY <1>1, <2>2
<1> HIDE DEF N
<1>4. f[0] = g[0]
  BY <1>2, <1>3 DEF Filters
<1>5. ASSUME NEW n \in 1..N, f[n-1] = g[n-1] PROVE f[n] = g[n]
  <2>1. n \in 1..Len(t) /\ n \in 1..Len(s) /\ t[n] = s[n]
    BY <1>1 DEF N
  <2>2. QED
    BY <1>2, <1>3, <1>5, <2>1 DEF Filters
<1>6. f[N] = g[N]
  BY <1>1, <1>4, <1>5, IterationIsOne
<1>7. N + 1 \in 1..Len(t) /\ (N + 1) - 1 = N
  BY <1>1
<1>8. g[N+1] = IF x \in S THEN Append(g[N], x) ELSE g[N]
  BY <1>1, <1>3, <1>7 DEF Filters
<1>9. QED
  BY <1>2, <1>3, <1>6, <1>8 DEF t

IsFlat(f, s) == f = [n \in 0..Len(s) |-> IF n = 0 THEN <<>> ELSE f[n-1] \o s[n]]

Flattens(f, s) == f[0] = <<>> /\ \A n \in 1..Len(s) : f[n] = f[n-1] \o s[n]

LEMMA FlatStep ==
  ASSUME NEW s, NEW f, Len(s) \in Nat, IsFlat(f, s)
  PROVE  Flattens(f, s)
<1>1. 0 \in 0..Len(s)
  OBVIOUS
<1>2. \A n \in 1..Len(s) : n \in 0..Len(s) /\ n # 0
  OBVIOUS
<1>3. QED
  BY <1>1, <1>2, Zenon DEF IsFlat, Flattens

LEMMA FlatIs ==
  ASSUME NEW X, NEW s \in Seq(Seq(X))
  PROVE  /\ \E f : Flattens(f, s) /\ Flat(s) = f[Len(s)]
         /\ Flat(s) \in Seq(X)
<1> DEFINE T == Seq(X)
           N == Len(s)
           base == <<>>
           step == [n \in 1..N |-> [t \in T |-> t \o s[n]]]
           F == CHOOSE f : IsFlat(f, s)
<1>1. N \in Nat /\ \A n \in 1..N : s[n] \in T
  BY LenProperties, ElementOfSeq
<1>2. base \in T
  BY EmptySeq
<1>3. ASSUME NEW n \in 1..N PROVE step[n] \in [T -> T]
  <2>1. ASSUME NEW t \in T PROVE t \o s[n] \in T
    BY <1>1, ConcatProperties
  <2>2. QED
    BY <2>1
<1>4. step \in StepsOf(N, T)
  BY <1>3 DEF StepsOf
<1>5. PICK f : Iterates(f, N, T, base, step)
  <2> HIDE DEF T, N, step, base
  <2> QED BY <1>1, <1>2, <1>4, IterationExists
<1>6. ASSUME NEW i \in 1..N PROVE f[i] = f[i-1] \o s[i]
  <2>1. i - 1 \in 0..N
    BY <1>1
  <2>2. f[i-1] \in T
    BY <1>5, <2>1 DEF Iterates
  <2>3. QED
    BY <1>5, <2>2 DEF Iterates
<1>7. Flattens(f, s)
  BY <1>5, <1>6 DEF Flattens, Iterates
<1>8. IsFlat(f, s)
  <2>1. ASSUME NEW n \in 0..N PROVE f[n] = IF n = 0 THEN <<>> ELSE f[n-1] \o s[n]
    <3>1. n = 0 \/ n \in 1..N
      OBVIOUS
    <3>2. QED
      BY <1>5, <1>6, <3>1 DEF Iterates
  <2>2. f = [n \in 0..N |-> f[n]]
    <3> HIDE DEF T, N
    <3> QED BY <1>5 DEF Iterates
  <2> HIDE DEF step, T
  <2>3. QED
    BY <2>1, <2>2, Zenon DEF IsFlat
<1>9. Flattens(F, s)
  <2>1. IsFlat(F, s)
    BY <1>8
  <2> HIDE DEF F
  <2>2. QED
    BY <1>1, <2>1, FlatStep
<1>10. Flat(s) = F[N]
  BY DEF Flat, IsFlat
<1>11. F[N] = f[N]
  <2> HIDE DEF F, N, T
  <2>1. F[0] = f[0]
    BY <1>7, <1>9 DEF Flattens
  <2>2. \A n \in 1..N : F[n-1] = f[n-1] => F[n] = f[n]
    BY <1>7, <1>9 DEF Flattens, N
  <2>3. QED
    BY <1>1, <2>1, <2>2, IterationIsOne
<1>12. f[N] \in T
  <2> HIDE DEF T, N
  <2> QED BY <1>1, <1>5 DEF Iterates
<1>13. QED
  BY <1>7, <1>10, <1>11, <1>12

LEMMA FlatEmpty == Flat(<<>>) = <<>>
<1> DEFINE s == <<>>
<1>1. s \in Seq(Seq({})) /\ Len(s) = 0
  BY EmptySeq
<1> HIDE DEF s
<1>2. PICK f : Flattens(f, s) /\ Flat(s) = f[Len(s)]
  BY <1>1, FlatIs
<1>3. QED
  BY <1>1, <1>2 DEF Flattens, s

LEMMA FlatAppend ==
  ASSUME NEW X, NEW s \in Seq(Seq(X)), NEW x \in Seq(X)
  PROVE  Flat(Append(s, x)) = Flat(s) \o x
<1> DEFINE t == Append(s, x)
           N == Len(s)
<1>1. t \in Seq(Seq(X)) /\ Len(t) = N + 1 /\ N \in Nat /\ t[N+1] = x /\ \A n \in 1..N : t[n] = s[n]
  BY AppendProperties, LenProperties
<1> HIDE DEF t
<1>2. PICK f : Flattens(f, s) /\ Flat(s) = f[N]
  BY FlatIs
<1>3. PICK g : Flattens(g, t) /\ Flat(t) = g[N+1]
  BY <1>1, FlatIs
<1> HIDE DEF N
<1>4. f[0] = g[0]
  BY <1>2, <1>3 DEF Flattens
<1>5. ASSUME NEW n \in 1..N, f[n-1] = g[n-1] PROVE f[n] = g[n]
  <2>1. n \in 1..Len(t) /\ n \in 1..Len(s) /\ t[n] = s[n]
    BY <1>1 DEF N
  <2>2. QED
    BY <1>2, <1>3, <1>5, <2>1 DEF Flattens
<1>6. f[N] = g[N]
  BY <1>1, <1>4, <1>5, IterationIsOne
<1>7. N + 1 \in 1..Len(t) /\ (N + 1) - 1 = N
  BY <1>1
<1>8. g[N+1] = g[N] \o x
  BY <1>1, <1>3, <1>7 DEF Flattens
<1>9. QED
  BY <1>2, <1>3, <1>6, <1>8 DEF t

-----------------------------------------------------------------------------
(* Hook documents.                                                         *)

Docs == [Events -> Seq(Groups)]

\* What the groups of one event say to the other tools.
Voices(groups) == Flat(Strip(groups))

LEMMA ForeignAre ==
  /\ Foreign \subseteq Handlers
  /\ \A handler \in Foreign : ~IsOurs(handler)
  /\ \A h \in Homes : Ours(h) \in Handlers \ Foreign /\ IsOurs(Ours(h))
<1>1. \A o \in Others : Theirs(o).by = "other"
  BY DEF Theirs
<1>2. \A h \in Homes : Ours(h).by = "watchmyai"
  BY DEF Ours
<1>3. \A handler \in Foreign : handler.by = "other"
  BY <1>1 DEF Foreign
<1>4. QED
  BY <1>2, <1>3 DEF Foreign, Handlers, IsOurs

LEMMA ForeignGroups == Seq(Foreign) \subseteq Groups
BY ForeignAre, SeqMonotonic DEF Groups

LEMMA KeptType ==
  ASSUME NEW group \in Groups
  PROVE  Kept(group) \in Seq(Foreign)
<1>1. Kept(group) \in Seq(Handlers \cap Foreign)
  BY FilterIs DEF Kept, Groups
<1>2. Handlers \cap Foreign = Foreign
  BY ForeignAre
<1>3. QED
  BY <1>1, <1>2

\* Taking ours out of what has none changes nothing.
LEMMA KeptIsKept ==
  \A group \in Seq(Foreign) : Kept(group) = group
<1> DEFINE T == {group \in Seq(Foreign) : Filter(group, Foreign) = group}
<1>1. <<>> \in T
  BY FilterEmpty, EmptySeq
<1>2. \A s \in Seq(Foreign), x \in Foreign : s \in T => Append(s, x) \in T
  BY FilterAppend, AppendProperties
<1>3. \A s \in Seq(Foreign) : s \in T
  <2> HIDE DEF T
  <2> QED BY <1>1, <1>2, SequenceInduction
<1>4. QED
  BY <1>3 DEF Kept

LEMMA KeptOfOne ==
  ASSUME NEW h \in Homes
  PROVE  Kept(<<Ours(h)>>) = <<>> /\ <<Ours(h)>> \in Groups
<1>1. Ours(h) \in Handlers /\ Ours(h) \notin Foreign
  BY ForeignAre
<1>2. <<>> \in Seq(Handlers)
  BY EmptySeq
<1>3. Append(<<>>, Ours(h)) = <<Ours(h)>>
  OBVIOUS
<1>4. Filter(Append(<<>>, Ours(h)), Foreign) = Filter(<<>>, Foreign)
  <2> DEFINE empty == <<>>
             ours == Ours(h)
  <2>1. empty \in Seq(Handlers) /\ ours \in Handlers /\ ours \notin Foreign
    BY <1>1, <1>2
  <2> HIDE DEF empty, ours
  <2>2. Filter(Append(empty, ours), Foreign) = Filter(empty, Foreign)
    BY <2>1, FilterAppend
  <2>3. QED
    BY <2>2 DEF empty, ours
<1>5. Append(<<>>, Ours(h)) \in Seq(Handlers)
  BY <1>1, <1>2, AppendProperties
<1>6. QED
  BY <1>3, <1>4, <1>5, FilterEmpty DEF Kept, Groups

LEMMA StripType ==
  ASSUME NEW groups \in Seq(Groups)
  PROVE  /\ Strip(groups) \in Seq(Seq(Foreign)) /\ Strip(groups) \in Seq(Groups)
         /\ Len(Strip(groups)) = Len(groups)
         /\ DOMAIN Strip(groups) = DOMAIN groups
<1> DEFINE n == Len(groups)
           e(i) == Kept(groups[i])
<1>1. n \in Nat /\ DOMAIN groups = 1..n
  BY LenProperties
<1>2. \A i \in 1..n : e(i) \in Seq(Foreign)
  BY ElementOfSeq, KeptType
<1>3. Strip(groups) = [i \in 1..n |-> e(i)]
  BY <1>1 DEF Strip
<1> HIDE DEF n
<1>4. [i \in 1..n |-> e(i)] \in Seq(Seq(Foreign))
  <2> HIDE DEF e
  <2> QED BY <1>1, <1>2, IsASeq
<1>5. Strip(groups) \in Seq(Seq(Foreign))
  BY <1>3, <1>4
<1>6. Strip(groups) \in Seq(Groups)
  BY <1>5, ForeignGroups, SeqMonotonic
<1>7. DOMAIN Strip(groups) = 1..n
  BY <1>3
<1>8. Len(Strip(groups)) = n
  BY <1>1, <1>5, <1>7, LenProperties
<1>9. QED
  BY <1>1, <1>5, <1>6, <1>7, <1>8 DEF n

LEMMA StripAppend ==
  ASSUME NEW groups \in Seq(Groups), NEW group \in Groups
  PROVE  Strip(Append(groups, group)) = Append(Strip(groups), Kept(group))
<1> DEFINE s == Strip(Append(groups, group))
           t == Append(Strip(groups), Kept(group))
           n == Len(groups)
           all == Append(groups, group)
<1>1. n \in Nat /\ Append(groups, group) \in Seq(Groups)
  BY LenProperties, AppendProperties
<1>2. Kept(group) \in Groups
  BY KeptType, ForeignGroups
<1>3. s \in Seq(Groups) /\ t \in Seq(Groups) /\ Len(s) = n + 1 /\ Len(t) = n + 1
  <2>1. all \in Seq(Groups) /\ Len(all) = n + 1
    BY AppendProperties
  <2>2. s \in Seq(Groups) /\ Len(s) = n + 1
    <3> HIDE DEF all
    <3>1. Strip(all) \in Seq(Groups) /\ Len(Strip(all)) = n + 1
      BY <2>1, StripType
    <3>2. QED
      BY <3>1 DEF all
  <2>3. Strip(groups) \in Seq(Groups) /\ Len(Strip(groups)) = n
    BY StripType
  <2>4. t \in Seq(Groups) /\ Len(t) = n + 1
    BY <1>2, <2>3, AppendProperties
  <2>5. QED
    BY <2>2, <2>4
<1>4. ASSUME NEW i \in 1..(n+1) PROVE s[i] = t[i]
  <2>1. s[i] = Kept(Append(groups, group)[i])
    <3>1. i \in DOMAIN Append(groups, group)
      BY <1>1, AppendProperties, LenProperties
    <3>2. QED
      BY <3>1 DEF Strip
  <2>2. CASE i = n + 1
    <3>1. Append(groups, group)[i] = group
      BY <2>2, AppendProperties
    <3>2. Len(Strip(groups)) = n /\ Strip(groups) \in Seq(Groups)
      BY StripType
    <3>3. t[i] = Kept(group)
      BY <1>2, <2>2, <3>2, AppendProperties
    <3>4. QED
      BY <2>1, <3>1, <3>3
  <2>3. CASE i # n + 1
    <3>1. i \in 1..n
      BY <1>1, <2>3
    <3>2. Append(groups, group)[i] = groups[i]
      BY <3>1, AppendProperties
    <3>3. Len(Strip(groups)) = n /\ Strip(groups) \in Seq(Groups)
      BY StripType
    <3>4. t[i] = Strip(groups)[i]
      BY <1>2, <3>1, <3>3, AppendProperties
    <3>5. Strip(groups)[i] = Kept(groups[i])
      BY <3>1, LenProperties DEF Strip
    <3>6. QED
      BY <2>1, <3>2, <3>4, <3>5
  <2>4. QED
    BY <2>2, <2>3
<1>5. QED
  <2> HIDE DEF s, t, n
  <2>1. \A i \in 1..Len(s) : s[i] = t[i]
    BY <1>3, <1>4
  <2>2. s = t
    BY <1>3, <2>1, SeqEqual
  <2>3. QED
    BY <2>2 DEF s, t

LEMMA StripEmpty == Strip(<<>>) = <<>>
<1>1. <<>> \in Seq(Groups) /\ Len(<<>>) = 0
  BY EmptySeq
<1>2. Strip(<<>>) \in Seq(Groups) /\ Len(Strip(<<>>)) = 0
  BY <1>1, StripType
<1>3. QED
  BY <1>2, EmptySeq

LEMMA StripIsStripped ==
  ASSUME NEW groups \in Seq(Seq(Foreign))
  PROVE  Strip(groups) = groups
<1>1. \A i \in 1..Len(groups) : Kept(groups[i]) = groups[i]
  BY KeptIsKept, ElementOfSeq
<1>2. groups = [i \in 1..Len(groups) |-> groups[i]] /\ DOMAIN groups = 1..Len(groups)
  BY LenProperties
<1>3. QED
  BY <1>1, <1>2 DEF Strip

LEMMA VoicesType ==
  ASSUME NEW groups \in Seq(Groups)
  PROVE  Voices(groups) \in Seq(Foreign)
<1>1. Strip(groups) \in Seq(Seq(Foreign))
  BY StripType
<1>2. QED
  BY <1>1, FlatIs DEF Voices

LEMMA VoicesEmpty == Voices(<<>>) = <<>>
BY StripEmpty, FlatEmpty DEF Voices

LEMMA VoicesAppend ==
  ASSUME NEW groups \in Seq(Groups), NEW group \in Groups
  PROVE  Voices(Append(groups, group)) = Voices(groups) \o Kept(group)
<1>1. Strip(groups) \in Seq(Seq(Foreign)) /\ Kept(group) \in Seq(Foreign)
  BY StripType, KeptType
<1>2. QED
  BY <1>1, StripAppend, FlatAppend DEF Voices

\* Dropping groups in which nobody else speaks loses no handler of theirs.
LEMMA FilterKeepsVoices ==
  ASSUME NEW S, \A group \in Groups : group \notin S => Kept(group) = <<>>
  PROVE  \A groups \in Seq(Groups) : Voices(Filter(groups, S)) = Voices(groups)
<1> DEFINE T == {groups \in Seq(Groups) : Voices(Filter(groups, S)) = Voices(groups)}
<1>1. <<>> \in T
  BY FilterEmpty, EmptySeq
<1>2. ASSUME NEW s \in Seq(Groups), NEW x \in Groups, s \in T PROVE Append(s, x) \in T
  <2>1. Append(s, x) \in Seq(Groups) /\ Voices(Append(s, x)) = Voices(s) \o Kept(x)
    BY AppendProperties, VoicesAppend
  <2>2. Filter(s, S) \in Seq(Groups)
    <3>1. Filter(s, S) \in Seq(Groups \cap S)
      BY FilterIs
    <3>2. QED
      BY <3>1, SeqMonotonic
  <2>3. Voices(Filter(s, S)) = Voices(s)
    BY <1>2
  <2>4. CASE x \in S
    <3>1. Filter(Append(s, x), S) = Append(Filter(s, S), x)
      BY <2>4, FilterAppend
    <3>2. Voices(Append(Filter(s, S), x)) = Voices(Filter(s, S)) \o Kept(x)
      BY <2>2, VoicesAppend
    <3>3. QED
      BY <2>1, <2>3, <3>1, <3>2
  <2>5. CASE x \notin S
    <3>1. Filter(Append(s, x), S) = Filter(s, S)
      BY <2>5, FilterAppend
    <3>2. Kept(x) = <<>>
      BY <2>5
    <3>3. Voices(s) \o <<>> = Voices(s)
      BY VoicesType, ConcatEmptySeq
    <3>4. QED
      BY <2>1, <2>3, <3>1, <3>2, <3>3
  <2>6. QED
    BY <2>4, <2>5
<1>3. \A s \in Seq(Groups) : s \in T
  <2> HIDE DEF T
  <2> QED BY <1>1, <1>2, SequenceInduction
<1>4. QED
  BY <1>3

LEMMA TheirHandlersAre ==
  ASSUME NEW doc, NEW other, \A e \in Events : Voices(doc[e]) = Voices(other[e])
  PROVE  TheirHandlers(doc) = TheirHandlers(other)
BY DEF TheirHandlers, Voices

LEMMA InstallIs ==
  ASSUME NEW doc \in Docs, NEW h \in Homes
  PROVE  /\ Install(doc, h) \in Docs
         /\ Hooked(Install(doc, h))
         /\ TheirHandlers(Install(doc, h)) = TheirHandlers(doc)
         /\ RunsHome(doc, h) => RunsHome(Install(doc, h), h)
<1> DEFINE new == Install(doc, h)
           group == <<Ours(h)>>
<1>1. group \in Groups /\ Kept(group) = <<>>
  BY KeptOfOne
<1>2. group[1] = Ours(h) /\ 1 \in DOMAIN group
  OBVIOUS
<1>3. ASSUME NEW e \in Events
      PROVE  new[e] \in Seq(Groups) /\ HasOurs(new[e]) /\ Voices(new[e]) = Voices(doc[e])
  <2>1. doc[e] \in Seq(Groups)
    BY DEF Docs
  <2>2. CASE HasOurs(doc[e])
    BY <2>1, <2>2 DEF Install
  <2>3. CASE ~HasOurs(doc[e])
    <3>1. new[e] = Append(doc[e], group)
      BY <2>3 DEF Install
    <3> HIDE DEF new, group
    <3>2. /\ new[e] \in Seq(Groups) /\ Len(doc[e]) + 1 \in DOMAIN new[e]
          /\ new[e][Len(doc[e]) + 1] = group
      BY <1>1, <2>1, <3>1, AppendProperties, LenProperties
    <3>3. HasOurs(new[e])
      BY <1>2, <3>2, ForeignAre DEF HasOurs
    <3>4. Voices(new[e]) = Voices(doc[e]) \o <<>>
      BY <1>1, <2>1, <3>1, VoicesAppend
    <3>5. Voices(doc[e]) \o <<>> = Voices(doc[e])
      BY <2>1, VoicesType, ConcatEmptySeq
    <3>6. QED
      BY <3>2, <3>3, <3>4, <3>5
  <2>4. QED
    BY <2>2, <2>3
<1>4. new \in Docs
  BY <1>3 DEF Docs, Install
<1>5. TheirHandlers(new) = TheirHandlers(doc)
  <2> HIDE DEF new
  <2> QED BY <1>3, TheirHandlersAre
<1>6. ASSUME RunsHome(doc, h) PROVE RunsHome(new, h)
  <2>1. ASSUME NEW e \in Events, NEW i \in DOMAIN new[e], NEW j \in DOMAIN new[e][i], IsOurs(new[e][i][j])
        PROVE  new[e][i][j] = Ours(h)
    <3>1. CASE new[e] = doc[e]
      BY <1>6, <2>1, <3>1 DEF RunsHome
    <3>2. CASE new[e] = Append(doc[e], group)
      <4>1. doc[e] \in Seq(Groups)
        BY DEF Docs
      <4> HIDE DEF new, group
      <4>2. /\ Len(doc[e]) \in Nat /\ DOMAIN new[e] = 1..(Len(doc[e]) + 1) /\ DOMAIN doc[e] = 1..Len(doc[e])
            /\ new[e][Len(doc[e]) + 1] = group
            /\ \A k \in DOMAIN doc[e] : new[e][k] = doc[e][k]
        BY <1>1, <3>2, <4>1, AppendProperties, LenProperties
      <4>3. CASE i = Len(doc[e]) + 1
        <5>1. DOMAIN group = {1} /\ group[1] = Ours(h)
          BY DEF group
        <5>2. QED
          BY <2>1, <4>2, <4>3, <5>1
      <4>4. CASE i # Len(doc[e]) + 1
        <5>1. i \in DOMAIN doc[e] /\ new[e][i] = doc[e][i]
          BY <2>1, <4>2, <4>4
        <5>2. QED
          BY <1>6, <2>1, <5>1 DEF RunsHome
      <4>5. QED
        BY <4>3, <4>4
    <3>3. QED
      BY <3>1, <3>2 DEF Install
  <2> HIDE DEF new
  <2>2. QED
    BY <2>1 DEF RunsHome
<1>7. QED
  BY <1>3, <1>4, <1>5, <1>6 DEF Hooked

\* Groups without a handler of ours.
LEMMA ForeignHasNoOurs ==
  ASSUME NEW groups \in Seq(Seq(Foreign))
  PROVE  ~HasOurs(groups)
<1>1. ASSUME NEW i \in DOMAIN groups, NEW j \in DOMAIN groups[i] PROVE ~IsOurs(groups[i][j])
  <2>1. groups[i] \in Seq(Foreign)
    BY LenProperties, ElementOfSeq
  <2>2. groups[i][j] \in Foreign
    BY <2>1, LenProperties, ElementOfSeq
  <2>3. QED
    BY <2>2, ForeignAre
<1>2. QED
  BY <1>1 DEF HasOurs

\* What uninstall makes of the groups of an event.
LEMMA ClaudeGroups ==
  ASSUME NEW groups \in Seq(Groups)
  PROVE  LET new == Strip(Filter(groups, {group \in Groups : group = <<>> \/ Kept(group) # <<>>}))
         IN  new \in Seq(Groups) /\ ~HasOurs(new) /\ Voices(new) = Voices(groups)
<1> DEFINE S == {group \in Groups : group = <<>> \/ Kept(group) # <<>>}
           left == Filter(groups, S)
<1>1. left \in Seq(Groups)
  <2>1. left \in Seq(Groups \cap S)
    BY FilterIs
  <2>2. QED
    BY <2>1, SeqMonotonic
<1>2. Voices(left) = Voices(groups)
  <2>1. \A group \in Groups : group \notin S => Kept(group) = <<>>
    OBVIOUS
  <2> HIDE DEF S
  <2>2. QED
    BY <2>1, FilterKeepsVoices
<1> HIDE DEF left
<1>3. Strip(left) \in Seq(Seq(Foreign)) /\ Strip(left) \in Seq(Groups)
  BY <1>1, StripType
<1>4. ~HasOurs(Strip(left))
  BY <1>3, ForeignHasNoOurs
<1>5. Voices(Strip(left)) = Voices(left)
  BY <1>3, StripIsStripped DEF Voices
<1>6. QED
  BY <1>2, <1>3, <1>4, <1>5 DEF left

LEMMA CodexGroups ==
  ASSUME NEW groups \in Seq(Groups)
  PROVE  LET new == Filter(Strip(groups), NotEmpty)
         IN  new \in Seq(Groups) /\ ~HasOurs(new) /\ Voices(new) = Voices(groups)
<1> DEFINE stripped == Strip(groups)
           left == Filter(stripped, NotEmpty)
<1>1. stripped \in Seq(Seq(Foreign)) /\ stripped \in Seq(Groups)
  BY StripType
<1>2. Voices(stripped) = Voices(groups)
  BY <1>1, StripIsStripped DEF Voices
<1> HIDE DEF stripped
<1>3. left \in Seq(Seq(Foreign)) /\ left \in Seq(Groups)
  <2>1. left \in Seq(Seq(Foreign) \cap NotEmpty)
    BY <1>1, FilterIs
  <2>2. left \in Seq(Seq(Foreign))
    BY <2>1, SeqMonotonic
  <2>3. QED
    BY <2>2, ForeignGroups, SeqMonotonic
<1>4. Voices(left) = Voices(stripped)
  <2>1. Kept(<<>>) = <<>>
    BY FilterEmpty DEF Kept
  <2>2. \A group \in Groups : group \notin NotEmpty => Kept(group) = <<>>
    BY <2>1 DEF NotEmpty
  <2>3. QED
    BY <1>1, <2>2, FilterKeepsVoices
<1> HIDE DEF left
<1>5. ~HasOurs(left)
  BY <1>3, ForeignHasNoOurs
<1>6. QED
  BY <1>2, <1>3, <1>4, <1>5 DEF left, stripped

LEMMA UninstallIs ==
  ASSUME NEW target \in Targets, NEW doc \in Docs
  PROVE  /\ Uninstall(target, doc) \in Docs
         /\ Unhooked(Uninstall(target, doc))
         /\ TheirHandlers(Uninstall(target, doc)) = TheirHandlers(doc)
<1> DEFINE new == Uninstall(target, doc)
<1>1. \A e \in Events : doc[e] \in Seq(Groups)
  BY DEF Docs
<1>2. ASSUME NEW e \in Events
      PROVE  new[e] \in Seq(Groups) /\ ~HasOurs(new[e]) /\ Voices(new[e]) = Voices(doc[e])
  <2>1. CASE target = "claude"
    <3>1. new[e] = Strip(Filter(doc[e], {group \in Groups : group = <<>> \/ Kept(group) # <<>>}))
      BY <2>1 DEF Uninstall, UninstallClaude
    <3> HIDE DEF new
    <3>2. QED
      BY <1>1, <3>1, ClaudeGroups
  <2>2. CASE target # "claude" /\ \E event \in Events : HasOurs(doc[event])
    <3>1. new[e] = Filter(Strip(doc[e]), NotEmpty)
      BY <2>2 DEF Uninstall, UninstallCodex
    <3> HIDE DEF new
    <3>2. QED
      BY <1>1, <3>1, CodexGroups
  <2>3. CASE target # "claude" /\ ~ \E event \in Events : HasOurs(doc[event])
    BY <1>1, <2>3 DEF Uninstall, UninstallCodex
  <2>4. QED
    BY <2>1, <2>2, <2>3
<1>3. new = [e \in Events |-> new[e]]
  BY DEF Uninstall, UninstallClaude, UninstallCodex, Docs
<1> HIDE DEF new
<1>4. new \in Docs
  BY <1>2, <1>3 DEF Docs
<1>5. TheirHandlers(new) = TheirHandlers(doc)
  BY <1>2, TheirHandlersAre
<1>6. QED
  BY <1>2, <1>4, <1>5 DEF Unhooked, new

-----------------------------------------------------------------------------
(* The state, and which command is at which stage.                         *)

CommandType ==
  [kind : {"none", "setup", "check", "verify", "uninstall"}, at : Stages,
   home : Homes, dev : BOOLEAN, enable : BOOLEAN, targets : SUBSET Targets,
   left : SUBSET Targets, polls : 0..MaxPolls, sent : BOOLEAN,
   failed : BOOLEAN, purge : BOOLEAN]

HomeType == [there : BOOLEAN, output : {"none", "jsonl", "elastic"}, unsigned : BOOLEAN,
             root : BOOLEAN, active : BOOLEAN, saved : BOOLEAN, recorded : SUBSET Targets]

LocalOK ==
  /\ config \in [there : BOOLEAN, home : Homes, dev : BOOLEAN, enable : BOOLEAN]
  /\ homes \in [Homes -> HomeType]
  /\ hooks \in [Targets -> Docs]

LabOK ==
  /\ assets \in BOOLEAN /\ endpoints \in {0, 1}
  /\ agent \in [online : BOOLEAN, acked : BOOLEAN]

BoundsOK ==
  /\ disturbed \in BOOLEAN /\ before \subseteq Targets
  /\ commands \in 0..MaxCommands /\ changes \in 0..MaxChanges
  /\ cmd.at # "idle" \/ endpoints = 1 => commands > 0

CommandOK ==
  /\ cmd \in CommandType
  /\ cmd.kind = "none" => cmd.at = "idle"
  /\ cmd.kind = "setup" => /\ cmd.at \in Stages \ {"idle", "recorded", "purge", "self-check"}
                           /\ cmd.home \in SetupHomes /\ cmd.targets \in HookChoices
  /\ cmd.kind = "check" => /\ cmd.at \in {"init", "self-check", "save", "end"}
                           /\ cmd.home \in CheckHomes
  /\ cmd.kind = "verify" => cmd.at \in {"emit", "fleet again", "preflight", "alert", "end"}
  /\ cmd.kind = "uninstall" => cmd.at \in {"import", "recorded", "hooks", "purge", "end"}

StateOK == ImportTypeOK /\ LocalOK /\ LabOK /\ BoundsOK /\ CommandOK

(* An import runs only under the import stage, and while nobody else is at *)
(* the rules each request finds what the one before left.                  *)
ImportOK ==
  /\ job.at # "none" => cmd.at = "import" /\ job.enable = Asked(WantsRules)
  /\ job.at \in {"post", "verify", "enable", "count", "passed"} /\ ~disturbed =>
       Present(Unsupported) = {}
  /\ job.at \in {"verify", "enable"} /\ ~disturbed => \A r \in Rules : rules[r] = "disabled"
  /\ job.at = "enable" /\ ~disturbed => job.ids = Rules
  /\ job.at \in {"enable", "count"} => job.enable
  /\ ImportIsExact

NotCollected == {"collect"}
NotConfigured == NotCollected \cup {"select", "init"}
NotEnrolled == NotConfigured \cup {"enroll"}
NotActive == NotEnrolled \cup {"activate"}
NotLoaded == NotActive \cup {"assets"}
NotIntegrated == NotLoaded \cup {"endpoint"}
NotReported == NotIntegrated \cup {"fleet"}
NotHooked == NotReported \cup {"import", "hooks"}
NotSaved == NotHooked \cup {"save"}

(* What a setup that has not failed has behind it.                         *)
SetupOK ==
  cmd.kind = "setup" /\ ~cmd.failed =>
    LET home == homes[cmd.home]
    IN /\ cmd.at \notin NotCollected => home.there
       /\ cmd.at \notin NotConfigured => home.output = "elastic" /\ home.unsigned = cmd.dev
       /\ cmd.at \notin NotEnrolled /\ ~cmd.dev => home.root
       /\ cmd.at \notin NotActive /\ ~cmd.dev => home.active
       /\ cmd.at \notin NotSaved => home.saved /\ home.recorded = cmd.targets
SetupLabOK ==
  cmd.kind = "setup" /\ ~cmd.failed =>
    /\ cmd.at \notin NotLoaded => assets
    /\ cmd.at \notin NotIntegrated => endpoints > 0
    /\ cmd.at \notin NotReported => agent.acked
SetupHooksOK ==
  cmd.kind = "setup" /\ ~cmd.failed =>
    /\ cmd.at \notin NotHooked => cmd.left = {}
    /\ \A t \in cmd.targets : t \in cmd.left \/ Hooked(hooks[t])
    /\ \A t \in Targets \ before : RunsHome(hooks[t], cmd.home)
SetupRulesOK ==
  cmd.kind = "setup" /\ ~cmd.failed /\ ~disturbed =>
    /\ cmd.at = "alert" => Enabled(Rules) \in {Rules, {}}
    /\ cmd.at = "end" => Enabled(Rules) = Rules

(* What an uninstall that has not failed has behind it.                    *)
UninstallOK ==
  cmd.kind = "uninstall" =>
    /\ cmd.at = "purge" => cmd.purge
    /\ cmd.at \in {"purge", "end"} => cmd.left = {}
    /\ cmd.at \in {"hooks", "purge", "end"} /\ ~cmd.failed =>
         /\ \A t \in cmd.targets : t \in cmd.left \/ Unhooked(hooks[t])
         /\ (cmd.at = "end" /\ cmd.purge) \/ cmd.targets = Recorded(cmd.home)
    /\ config.there /\ cmd.at # "import" /\ ~cmd.failed /\ ~disturbed =>
         Enabled(Rules) = IF Asked(FALSE) THEN Rules ELSE {}

LEMMA CommandInit == Init => CommandOK
<1>1. Idle \in CommandType
  BY OnboardingAssumption DEF Idle, CommandType, Stages
<1>2. Idle.kind = "none" /\ Idle.at = "idle"
  BY DEF Idle
<1>3. QED
  BY <1>1, <1>2 DEF Init, CommandOK

Begun(kind, at, home, dev, enable, targets, purge) ==
  [kind |-> kind, at |-> at, home |-> home, dev |-> dev, enable |-> enable, targets |-> targets,
   left |-> targets, polls |-> 0, sent |-> FALSE, failed |-> FALSE, purge |-> purge]

LEMMA BegunIs ==
  ASSUME NEW kind \in {"setup", "check", "verify", "uninstall"}, NEW at \in Stages, NEW home \in Homes,
         NEW dev \in BOOLEAN, NEW enable \in BOOLEAN, NEW targets \in SUBSET Targets, NEW purge \in BOOLEAN
  PROVE  Begun(kind, at, home, dev, enable, targets, purge) \in CommandType
BY OnboardingAssumption DEF Begun, CommandType

\* What a command starts as.
LEMMA Beginnings ==
  ASSUME LocalOK
  PROVE  /\ Setup => \E h \in SetupHomes, dev, enable \in BOOLEAN, targets \in HookChoices :
                        cmd' = Begun("setup", "collect", h, dev, enable, targets, FALSE)
         /\ RepositoryOnly => \E h \in CheckHomes : cmd' = Begun("check", "init", h, TRUE, FALSE, {}, FALSE)
         /\ VerifyCommand => cmd' = Begun("verify", "emit", config.home, config.dev, config.enable, {}, FALSE)
         /\ UninstallCommand =>
              \E purge \in BOOLEAN, at \in {"import", "recorded"} :
                /\ cmd' = Begun("uninstall", at, config.home, FALSE, FALSE, {}, purge)
                /\ at = "recorded" <=> ~config.there
<1>1. ASSUME UninstallCommand
      PROVE  \E purge \in BOOLEAN, at \in {"import", "recorded"} :
                /\ cmd' = Begun("uninstall", at, config.home, FALSE, FALSE, {}, purge)
                /\ at = "recorded" <=> ~config.there
  <2>1. PICK purge \in BOOLEAN :
          cmd' = [Idle EXCEPT !.kind = "uninstall", !.home = config.home, !.purge = purge,
                              !.at = IF config.there THEN "import" ELSE "recorded"]
    BY <1>1 DEF UninstallCommand, Begin
  <2> DEFINE at == IF config.there THEN "import" ELSE "recorded"
  <2>2. at \in {"import", "recorded"} /\ (at = "recorded" <=> ~config.there)
    OBVIOUS
  <2>3. cmd' = Begun("uninstall", at, config.home, FALSE, FALSE, {}, purge)
    <3> HIDE DEF at
    <3>1. cmd' = [Idle EXCEPT !.kind = "uninstall", !.home = config.home, !.purge = purge, !.at = at]
      BY <2>1 DEF at
    <3>2. QED
      BY <3>1 DEF Begun, Idle
  <2> HIDE DEF at
  <2>4. QED
    BY <2>2, <2>3
<1>2. ASSUME Setup
      PROVE  \E h \in SetupHomes, dev, enable \in BOOLEAN, targets \in HookChoices :
               cmd' = Begun("setup", "collect", h, dev, enable, targets, FALSE)
  <2>1. PICK h \in SetupHomes, dev, enable \in BOOLEAN, targets \in HookChoices :
          cmd' = [Idle EXCEPT !.kind = "setup", !.at = "collect", !.home = h, !.dev = dev,
                              !.enable = enable, !.targets = targets, !.left = targets]
    <3>1. ASSUME NEW c, Begin(c) PROVE cmd' = c
      BY <3>1 DEF Begin
    <3>2. QED
      BY <1>2, <3>1 DEF Setup
  <2>2. cmd' = Begun("setup", "collect", h, dev, enable, targets, FALSE)
    BY <2>1 DEF Begun, Idle
  <2>3. QED
    BY <2>2
<1>3. ASSUME RepositoryOnly
      PROVE  \E h \in CheckHomes : cmd' = Begun("check", "init", h, TRUE, FALSE, {}, FALSE)
  <2>1. PICK h \in CheckHomes :
          cmd' = [Idle EXCEPT !.kind = "check", !.at = "init", !.home = h, !.dev = TRUE]
    BY <1>3 DEF RepositoryOnly, Begin
  <2>2. cmd' = Begun("check", "init", h, TRUE, FALSE, {}, FALSE)
    BY <2>1 DEF Begun, Idle
  <2>3. QED
    BY <2>2
<1>4. ASSUME VerifyCommand
      PROVE  cmd' = Begun("verify", "emit", config.home, config.dev, config.enable, {}, FALSE)
  <2>1. cmd' = [Idle EXCEPT !.kind = "verify", !.at = "emit", !.home = config.home,
                            !.dev = config.dev, !.enable = config.enable]
    BY <1>4 DEF VerifyCommand, Begin
  <2>2. QED
    BY <2>1 DEF Begun, Idle
<1>5. QED
  BY <1>1, <1>2, <1>3, <1>4

LEMMA NextTargetIs ==
  ASSUME CommandOK, cmd.left # {}
  PROVE  NextTarget \in cmd.left /\ NextTarget \in Targets /\ Targets = {"claude", "codex"}
BY DEF CommandOK, CommandType, NextTarget, Targets

LEMMA CommandOKStep == CommandOK /\ LocalOK /\ [Next]_vars => CommandOK'
<1>1. SUFFICES ASSUME CommandOK, LocalOK, [Next]_vars PROVE CommandOK'
  OBVIOUS
<1>2. cmd \in CommandType
  BY <1>1 DEF CommandOK
<1>3. CASE UNCHANGED cmd
  BY <1>1, <1>3 DEF CommandOK
<1>4. CASE cmd' = Idle
  <2>1. Idle \in CommandType
    BY OnboardingAssumption DEF Idle, CommandType, Stages
  <2>2. Idle.kind = "none" /\ Idle.at = "idle"
    BY DEF Idle
  <2>3. QED
    BY <1>4, <2>1, <2>2 DEF CommandOK
<1>5. CASE Setup
  <2>1. PICK h \in SetupHomes, dev, enable \in BOOLEAN, targets \in HookChoices :
          cmd' = Begun("setup", "collect", h, dev, enable, targets, FALSE)
    BY <1>1, <1>5, Beginnings
  <2>2. h \in Homes /\ targets \in SUBSET Targets /\ "collect" \in Stages
    BY OnboardingAssumption DEF Stages
  <2>3. cmd' \in CommandType
    BY <2>1, <2>2, BegunIs
  <2>4. QED
    BY <2>1, <2>3 DEF Begun, CommandOK, Stages
<1>6. CASE RepositoryOnly
  <2>1. PICK h \in CheckHomes : cmd' = Begun("check", "init", h, TRUE, FALSE, {}, FALSE)
    BY <1>1, <1>6, Beginnings
  <2>2. h \in Homes /\ "init" \in Stages /\ {} \in SUBSET Targets
    BY OnboardingAssumption DEF Stages
  <2>3. cmd' \in CommandType
    BY <2>1, <2>2, BegunIs
  <2>4. QED
    BY <2>1, <2>3 DEF Begun, CommandOK
<1>7. CASE VerifyCommand
  <2>1. cmd' = Begun("verify", "emit", config.home, config.dev, config.enable, {}, FALSE)
    BY <1>1, <1>7, Beginnings
  <2>2. config.home \in Homes /\ config.dev \in BOOLEAN /\ config.enable \in BOOLEAN
        /\ "emit" \in Stages /\ {} \in SUBSET Targets
    BY <1>1 DEF LocalOK, Stages
  <2>3. cmd' \in CommandType
    BY <2>1, <2>2, BegunIs
  <2>4. QED
    BY <2>1, <2>3 DEF Begun, CommandOK
<1>8. CASE UninstallCommand
  <2>1. PICK purge \in BOOLEAN, at \in {"import", "recorded"} :
          cmd' = Begun("uninstall", at, config.home, FALSE, FALSE, {}, purge)
    BY <1>1, <1>8, Beginnings
  <2>2. config.home \in Homes /\ at \in Stages /\ {} \in SUBSET Targets
    BY <1>1 DEF LocalOK, Stages
  <2>3. cmd' \in CommandType
    BY <2>1, <2>2, BegunIs
  <2>4. QED
    BY <2>1, <2>3 DEF Begun, CommandOK
<1>9. ASSUME NEW stage \in Stages, NEW polls \in 0..MaxPolls, NEW failed \in BOOLEAN,
             cmd' = [cmd EXCEPT !.at = stage, !.polls = polls, !.failed = failed],
             cmd.kind # "none",
             cmd.kind = "setup" => stage \in Stages \ {"idle", "recorded", "purge", "self-check"},
             cmd.kind = "check" => stage \in {"init", "self-check", "save", "end"},
             cmd.kind = "verify" => stage \in {"emit", "fleet again", "preflight", "alert", "end"},
             cmd.kind = "uninstall" => stage \in {"import", "recorded", "hooks", "purge", "end"}
      PROVE  CommandOK'
  <2>1. cmd' \in CommandType /\ cmd'.kind = cmd.kind /\ cmd'.at = stage /\ cmd'.home = cmd.home
        /\ cmd'.targets = cmd.targets
    BY <1>2, <1>9 DEF CommandType
  <2>2. QED
    BY <1>1, <1>9, <2>1 DEF CommandOK
<1>10. ASSUME NEW stage, Proceed(stage)
       PROVE  cmd' = [cmd EXCEPT !.at = stage, !.polls = 0, !.failed = cmd.failed]
  BY <1>2, <1>10 DEF Proceed, CommandType
<1>11. ASSUME NEW stage, Note(stage)
       PROVE  cmd' = [cmd EXCEPT !.at = stage, !.polls = cmd.polls, !.failed = TRUE]
  BY <1>2, <1>11 DEF Note, CommandType
<1>12. cmd.polls \in 0..MaxPolls /\ cmd.failed \in BOOLEAN /\ 0 \in 0..MaxPolls /\ cmd.at \in Stages
  BY <1>2, OnboardingAssumption DEF CommandType
<1>13. ASSUME Stop, cmd.at # "idle" PROVE CommandOK'
  <2>1. Note("end")
    BY <1>13 DEF Stop, Note
  <2>2. cmd.kind # "none"
    BY <1>1, <1>13 DEF CommandOK
  <2>3. QED
    BY <1>9, <1>11, <1>12, <2>1, <2>2 DEF Stages
<1>14. ASSUME NEW stage \in Stages, Proceed(stage) \/ Note(stage), cmd.kind # "none",
              cmd.kind = "setup" => stage \in Stages \ {"idle", "recorded", "purge", "self-check"},
              cmd.kind = "check" => stage \in {"init", "self-check", "save", "end"},
              cmd.kind = "verify" => stage \in {"emit", "fleet again", "preflight", "alert", "end"},
              cmd.kind = "uninstall" => stage \in {"import", "recorded", "hooks", "purge", "end"}
       PROVE  CommandOK'
  BY <1>9, <1>10, <1>11, <1>12, <1>14
<1>15. CASE StageFails
  BY <1>13, <1>15 DEF StageFails, At
<1>16. CASE Collect \/ Select \/ EnrollRoot \/ ActivatePolicy \/ LoadAssets \/ SelfCheck
  BY <1>1, <1>14, <1>16 DEF Collect, Select, EnrollRoot, ActivatePolicy, LoadAssets, SelfCheck, At,
     CommandOK, Stages
<1>17. CASE InitializeGateway
  <2> DEFINE stage == IF cmd.kind = "check" THEN "self-check"
                      ELSE IF cmd.dev THEN "assets"
                      ELSE IF homes[cmd.home].root THEN "activate" ELSE "enroll"
  <2>1. Proceed(stage) /\ cmd.at = "init"
    BY <1>17 DEF InitializeGateway, At
  <2>2. /\ stage \in {"self-check", "assets", "activate", "enroll"}
        /\ cmd.kind = "check" <=> stage = "self-check"
    OBVIOUS
  <2>3. cmd.kind \in {"setup", "check"}
    BY <1>1, <2>1 DEF CommandOK, CommandType
  <2> HIDE DEF stage
  <2>4. QED
    BY <1>14, <2>1, <2>2, <2>3 DEF Stages
<1>18. CASE EnsureEndpoint
  <2>1. cmd.at = "endpoint" /\ cmd.kind = "setup"
    BY <1>1, <1>18 DEF EnsureEndpoint, At, CommandOK, CommandType
  <2>2. Proceed("fleet") \/ Stop
    BY <1>18 DEF EnsureEndpoint
  <2>3. QED
    BY <1>13, <1>14, <2>1, <2>2 DEF Stages
<1>19. CASE FleetVerified
  <2>1. /\ cmd.at = "fleet" => cmd.kind = "setup"
        /\ cmd.at = "fleet again" => cmd.kind \in {"setup", "verify"}
        /\ cmd.at \in {"fleet", "fleet again"} /\ Proceed(AfterFleet)
    BY <1>1, <1>19 DEF FleetVerified, CommandOK, CommandType
  <2>2. AfterFleet = IF cmd.at = "fleet" THEN "import" ELSE "preflight"
    BY DEF AfterFleet, At
  <2>3. QED
    BY <1>14, <2>1, <2>2 DEF Stages
<1>20. CASE PollFleet
  <2>1. cmd.at \in {"fleet", "fleet again"}
    BY <1>20 DEF PollFleet
  <2>2. CASE BeforeDeadline /\ cmd' = [cmd EXCEPT !.polls = @ + 1]
    <3>1. cmd.polls + 1 \in 0..MaxPolls
      BY <1>12, <2>2, OnboardingAssumption DEF BeforeDeadline
    <3>2. cmd' \in CommandType /\ cmd'.kind = cmd.kind /\ cmd'.at = cmd.at /\ cmd'.home = cmd.home
          /\ cmd'.targets = cmd.targets
      BY <1>2, <2>2, <3>1 DEF CommandType
    <3>3. QED
      BY <1>1, <3>2 DEF CommandOK
  <2>3. QED
    BY <1>13, <1>20, <2>1, <2>2 DEF PollFleet
<1>21. CASE FinishImport
  <2>1. cmd.at = "import" /\ cmd.kind \in {"setup", "uninstall"}
    BY <1>1, <1>21 DEF FinishImport, At, CommandOK, CommandType
  <2>2. \/ Proceed(IF cmd.kind = "setup" THEN "hooks" ELSE "recorded")
        \/ Stop
        \/ cmd.kind # "setup" /\ Note("recorded")
    BY <1>21 DEF FinishImport, AfterImport
  <2>3. QED
    BY <1>13, <1>14, <2>1, <2>2 DEF Stages
<1>22. CASE InstallHooks \/ RemoveHooks \/ RemoveHooksFails
  <2>1. PICK left \in SUBSET Targets, failed \in BOOLEAN : cmd' = [cmd EXCEPT !.left = left, !.failed = failed]
    <3> DEFINE left == cmd.left \ {NextTarget}
    <3>1. left \in SUBSET Targets /\ cmd = [cmd EXCEPT !.failed = cmd.failed]
      BY <1>2 DEF CommandType
    <3>2. cmd' = [cmd EXCEPT !.left = left] \/ cmd' = [cmd EXCEPT !.left = left, !.failed = TRUE]
      BY <1>22 DEF InstallHooks, RemoveHooks, RemoveHooksFails
    <3> HIDE DEF left
    <3>3. cmd' = [cmd EXCEPT !.left = left] => cmd' = [cmd EXCEPT !.left = left, !.failed = cmd.failed]
      BY <1>2 DEF CommandType
    <3>4. QED
      BY <1>12, <3>1, <3>2, <3>3
  <2>2. cmd' \in CommandType /\ cmd'.kind = cmd.kind /\ cmd'.at = cmd.at /\ cmd'.home = cmd.home
        /\ cmd'.targets = cmd.targets
    BY <1>2, <2>1 DEF CommandType
  <2>3. QED
    BY <1>1, <2>2 DEF CommandOK
<1>23. CASE HooksInstalled
  BY <1>14, <1>23 DEF HooksInstalled, Stages
<1>24. CASE SaveState
  <2>1. cmd.kind \in {"setup", "check"} /\ Proceed(IF cmd.kind = "check" THEN "end" ELSE "emit")
    BY <1>1, <1>24 DEF SaveState, At, CommandOK, CommandType
  <2>2. QED
    BY <1>14, <2>1 DEF Stages
<1>25. CASE ReadState
  <2>1. PICK targets \in SUBSET Targets :
          cmd' = [cmd EXCEPT !.at = "hooks", !.targets = targets, !.left = targets]
    <3>1. Recorded(cmd.home) \in SUBSET Targets
      BY <1>1, <1>2 DEF Recorded, LocalOK, HomeType, CommandType
    <3>2. QED
      BY <1>25, <3>1 DEF ReadState
  <2>2. cmd.kind = "uninstall"
    BY <1>1, <1>25 DEF ReadState, At, CommandOK, CommandType
  <2>3. cmd' \in CommandType /\ cmd'.kind = cmd.kind /\ cmd'.at = "hooks"
    BY <1>2, <2>1 DEF CommandType, Stages
  <2>4. QED
    BY <2>2, <2>3 DEF CommandOK
<1>26. CASE HooksRemoved
  <2>1. cmd.kind = "uninstall" /\ Proceed(IF cmd.purge THEN "purge" ELSE "end")
    BY <1>26 DEF HooksRemoved
  <2>2. QED
    BY <1>14, <2>1 DEF Stages
<1>27. CASE Purge \/ ReadStateFails
  <2>1. cmd.kind = "uninstall" /\ (Proceed("end") \/ Note("end") \/ Note("hooks"))
    BY <1>1, <1>27 DEF Purge, ReadStateFails, At, CommandOK, CommandType
  <2>2. QED
    BY <1>14, <2>1 DEF Stages
<1>28. CASE Emit
  <2>1. PICK sent \in BOOLEAN : cmd' = [cmd EXCEPT !.at = "fleet again", !.sent = sent]
    BY <1>28 DEF Emit
  <2>2. cmd.kind \in {"setup", "verify"}
    BY <1>1, <1>28 DEF Emit, At, CommandOK, CommandType
  <2>3. cmd' \in CommandType /\ cmd'.kind = cmd.kind /\ cmd'.at = "fleet again" /\ cmd'.home = cmd.home
        /\ cmd'.targets = cmd.targets
    BY <1>2, <2>1 DEF CommandType, Stages
  <2>4. QED
    BY <1>1, <2>2, <2>3 DEF CommandOK, Stages
<1>29. CASE Preflight \/ Alert
  <2>1. cmd.kind \in {"setup", "verify"} /\ cmd.at # "idle"
    BY <1>1, <1>29 DEF Preflight, Alert, At, CommandOK, CommandType
  <2>2. Proceed("alert") \/ Proceed("end") \/ Stop
    BY <1>29 DEF Preflight, Alert
  <2>3. QED
    BY <1>13, <1>14, <2>1, <2>2 DEF Stages
<1>30. CASE StartImport \/ RunImport \/ RulesChange \/ UserEdits \/ AgentDrops \/ AgentReports
  BY <1>3, <1>30 DEF StartImport, RunImport, RulesChange, UserEdits, AgentDrops, AgentReports, Change
<1>31. CASE Return \/ Crash
  BY <1>4, <1>31 DEF Return, Crash
<1>32. CASE UNCHANGED vars
  BY <1>3, <1>32 DEF vars
<1>33. QED
  BY <1>1, <1>5, <1>6, <1>7, <1>8, <1>15, <1>16, <1>17, <1>18, <1>19, <1>20, <1>21, <1>22, <1>23,
     <1>24, <1>25, <1>26, <1>27, <1>28, <1>29, <1>30, <1>31, <1>32 DEF Next, CommandStep

-----------------------------------------------------------------------------
(* The other parts of the state.                                           *)

\* What an owner of a document does to the groups of one event.
Edited(groups, new) ==
  \E o \in Others :
    \/ \E group \in {<<>>, <<Theirs(o)>>} : new = Append(groups, group)
    \/ \E i \in DOMAIN groups : new = [groups EXCEPT ![i] = <<Theirs(o)>> \o @]

LEMMA OneMore ==
  ASSUME NEW X, NEW one \in Seq(X), NEW old \in Seq(X), Len(one) = 1
  PROVE  /\ one \o old \in Seq(X) /\ Len(one \o old) = 1 + Len(old)
         /\ \A j \in 1..(1 + Len(old)) : (one \o old)[j] = IF j <= 1 THEN one[j] ELSE old[j-1]
<1> DEFINE all == one \o old
<1>1. all \in Seq(X) /\ Len(all) = Len(one) + Len(old)
      /\ \A j \in 1..(Len(one) + Len(old)) : all[j] = IF j <= Len(one) THEN one[j] ELSE old[j - Len(one)]
  BY ConcatProperties
<1> HIDE DEF all
<1>2. QED
  BY <1>1 DEF all

\* Whatever is ours in new was in groups.
OursAreOf(new, groups) ==
  \A k \in DOMAIN new : \A j \in DOMAIN new[k] :
    IsOurs(new[k][j]) => \E m \in DOMAIN groups : \E l \in DOMAIN groups[m] : new[k][j] = groups[m][l]

OneHome(groups, h) ==
  \A i \in DOMAIN groups : \A j \in DOMAIN groups[i] : IsOurs(groups[i][j]) => groups[i][j] = Ours(h)

LEMMA OursAreAlike ==
  ASSUME NEW groups, NEW new, OursAreOf(new, groups)
  PROVE  (HasOurs(new) => HasOurs(groups)) /\ \A h : OneHome(groups, h) => OneHome(new, h)
<1>1. HasOurs(new) => HasOurs(groups)
  BY DEF OursAreOf, HasOurs
<1>2. \A h : OneHome(groups, h) => OneHome(new, h)
  BY DEF OursAreOf, OneHome
<1>3. QED
  BY <1>1, <1>2

LEMMA EditIs ==
  ASSUME NEW groups \in Seq(Groups), NEW new, Edited(groups, new)
  PROVE  new \in Seq(Groups) /\ OursAreOf(new, groups) /\ (HasOurs(groups) => HasOurs(new))
<1>1. PICK o \in Others :
        \/ \E group \in {<<>>, <<Theirs(o)>>} : new = Append(groups, group)
        \/ \E i \in DOMAIN groups : new = [groups EXCEPT ![i] = <<Theirs(o)>> \o @]
  BY DEF Edited
<1> DEFINE theirs == Theirs(o)
<1>2. theirs \in Handlers /\ ~IsOurs(theirs)
  BY ForeignAre DEF Foreign
<1>3. <<theirs>> \in Groups /\ Len(<<theirs>>) = 1 /\ <<theirs>>[1] = theirs /\ DOMAIN <<theirs>> = 1..1
  <2>1. <<theirs>> \in Groups
    BY <1>2 DEF Groups
  <2>2. QED
    BY <2>1
<1> HIDE DEF theirs
<1>4. <<>> \in Groups /\ DOMAIN <<>> = {}
  BY EmptySeq DEF Groups
<1>5. Len(groups) \in Nat /\ DOMAIN groups = 1..Len(groups)
      /\ \A i \in DOMAIN groups : groups[i] \in Groups
  BY LenProperties, ElementOfSeq
<1>6. ASSUME NEW group \in Groups, \A j \in DOMAIN group : ~IsOurs(group[j]), new = Append(groups, group)
      PROVE  new \in Seq(Groups) /\ OursAreOf(new, groups) /\ (HasOurs(groups) => HasOurs(new))
  <2>1. new \in Seq(Groups) /\ DOMAIN new = 1..(Len(groups) + 1) /\ new[Len(groups) + 1] = group
        /\ \A i \in DOMAIN groups : new[i] = groups[i]
    BY <1>5, <1>6, AppendProperties, LenProperties
  <2>2. \A i \in DOMAIN new : i \in DOMAIN groups \/ i = Len(groups) + 1
    BY <1>5, <2>1
  <2>3. \A i \in DOMAIN groups : i \in DOMAIN new
    BY <1>5, <2>1
  <2>4. OursAreOf(new, groups)
    BY <1>6, <2>1, <2>2, Zenon DEF OursAreOf
  <2>5. HasOurs(groups) => HasOurs(new)
    BY <2>1, <2>3, Zenon DEF HasOurs
  <2>6. QED
    BY <2>1, <2>4, <2>5
<1>7. CASE \E group \in {<<>>, <<theirs>>} : new = Append(groups, group)
  <2>1. PICK group \in {<<>>, <<theirs>>} : new = Append(groups, group)
    BY <1>7
  <2>2. group \in Groups
    BY <1>3, <1>4, <2>1
  <2>3. \A j \in DOMAIN group : ~IsOurs(group[j])
    BY <1>2, <1>3, <1>4, <2>1
  <2>4. QED
    BY <1>6, <2>1, <2>2, <2>3
<1>8. ASSUME NEW i \in DOMAIN groups, new = [groups EXCEPT ![i] = <<theirs>> \o @]
      PROVE  new \in Seq(Groups) /\ OursAreOf(new, groups) /\ (HasOurs(groups) => HasOurs(new))
  <2> DEFINE old == groups[i]
             one == <<theirs>>
             more == one \o old
  <2>1. old \in Seq(Handlers) /\ one \in Seq(Handlers) /\ Len(one) = 1 /\ one[1] = theirs
    BY <1>3, <1>5, <1>8 DEF Groups
  <2>2. Len(old) \in Nat /\ DOMAIN old = 1..Len(old)
    BY <2>1, LenProperties
  <2> HIDE DEF one
  <2>3. more \in Seq(Handlers) /\ Len(more) = 1 + Len(old)
        /\ \A j \in 1..(1 + Len(old)) : more[j] = IF j <= 1 THEN one[j] ELSE old[j-1]
    <3> HIDE DEF old
    <3> QED BY <2>1, OneMore
  <2>4. new = [groups EXCEPT ![i] = more]
    BY <1>8 DEF one
  <2> HIDE DEF more
  <2>5. new \in Seq(Groups) /\ DOMAIN new = DOMAIN groups
        /\ \A k \in DOMAIN groups : new[k] = IF k = i THEN more ELSE groups[k]
    <3>1. more \in Groups
      BY <2>3 DEF Groups
    <3>2. new \in Seq(Groups)
      <4>1. i \in 1..Len(groups)
        BY <1>5, <1>8
      <4>2. [groups EXCEPT ![i] = more] \in Seq(Groups)
        BY <3>1, <4>1, ExceptSeq, Zenon
      <4>3. QED
        BY <2>4, <4>2
    <3>3. QED
      BY <2>4, <3>2
  <2>6. DOMAIN more = 1..(1 + Len(old))
    BY <2>3, LenProperties
  <2>7. \A j \in DOMAIN more : IsOurs(more[j]) => j - 1 \in DOMAIN old /\ more[j] = old[j-1]
    <3>1. SUFFICES ASSUME NEW j \in DOMAIN more, IsOurs(more[j])
                   PROVE  j - 1 \in DOMAIN old /\ more[j] = old[j-1]
      OBVIOUS
    <3>2. j # 1
      <4>1. SUFFICES ASSUME j = 1 PROVE FALSE
        OBVIOUS
      <4>2. more[1] = theirs
        BY <2>1, <2>2, <2>3
      <4>3. QED
        BY <1>2, <3>1, <4>1, <4>2
    <3>3. j - 1 \in 1..Len(old) /\ more[j] = old[j-1]
      BY <2>2, <2>3, <2>6, <3>1, <3>2
    <3>4. QED
      BY <2>2, <3>1, <3>3
  <2>8. \A j \in DOMAIN old : j + 1 \in DOMAIN more /\ more[j+1] = old[j]
    BY <2>2, <2>3, <2>6
  <2>9. OursAreOf(new, groups)
    <3>1. SUFFICES ASSUME NEW k \in DOMAIN new, NEW j \in DOMAIN new[k], IsOurs(new[k][j])
                   PROVE  \E m \in DOMAIN groups : \E l \in DOMAIN groups[m] : new[k][j] = groups[m][l]
      BY DEF OursAreOf
    <3>2. CASE k = i
      <4>1. j - 1 \in DOMAIN groups[i] /\ new[k][j] = groups[i][j-1]
        BY <1>8, <2>5, <2>7, <3>1, <3>2
      <4>2. QED
        BY <1>8, <4>1, Zenon
    <3>3. CASE k # i
      <4>1. k \in DOMAIN groups /\ j \in DOMAIN groups[k] /\ new[k][j] = groups[k][j]
        BY <2>5, <3>1, <3>3
      <4>2. QED
        BY <4>1, Zenon
    <3>4. QED
      BY <3>2, <3>3
  <2>10. HasOurs(groups) => HasOurs(new)
    <3>1. SUFFICES ASSUME NEW k \in DOMAIN groups, NEW j \in DOMAIN groups[k], IsOurs(groups[k][j]) PROVE HasOurs(new)
      BY DEF HasOurs
    <3>2. CASE k = i
      <4>1. k \in DOMAIN new /\ j + 1 \in DOMAIN new[k] /\ IsOurs(new[k][j+1])
        BY <2>5, <2>8, <3>1, <3>2
      <4>2. QED
        BY <4>1, Zenon DEF HasOurs
    <3>3. CASE k # i
      <4>1. k \in DOMAIN new /\ j \in DOMAIN new[k] /\ IsOurs(new[k][j])
        BY <2>5, <3>1, <3>3
      <4>2. QED
        BY <4>1, Zenon DEF HasOurs
    <3>4. QED
      BY <3>2, <3>3
  <2>11. QED
    BY <2>5, <2>9, <2>10
<1>9. QED
  BY <1>1, <1>7, <1>8 DEF theirs

\* The documents change only under the hooks stage, or by their owners.
LEMMA HooksChange ==
  ASSUME [Next]_vars
  PROVE  UNCHANGED hooks \/ InstallHooks \/ RemoveHooks \/ UserEdits
BY DEF Next, vars, local, elastic, bounds, Setup, RepositoryOnly, VerifyCommand, UninstallCommand, Begin,
       CommandStep, StageFails, ReadStateFails, RemoveHooksFails, Crash, RulesChange, AgentDrops, AgentReports,
       Collect, Select, InitializeGateway, EnrollRoot, ActivatePolicy, LoadAssets, EnsureEndpoint,
       FleetVerified, PollFleet, StartImport, RunImport, FinishImport, HooksInstalled, SaveState,
       SelfCheck, ReadState, HooksRemoved, Purge, Emit, Preflight, Alert, Return

\* The configuration changes only as it is collected.
LEMMA ConfigChanges ==
  ASSUME [Next]_vars
  PROVE  UNCHANGED config \/ Collect
BY DEF Next, vars, local, elastic, bounds, Setup, RepositoryOnly, VerifyCommand, UninstallCommand, Begin,
       CommandStep, StageFails, ReadStateFails, RemoveHooksFails, Crash, RulesChange, AgentDrops, AgentReports,
       Collect, Select, InitializeGateway, EnrollRoot, ActivatePolicy, LoadAssets, EnsureEndpoint,
       FleetVerified, PollFleet, StartImport, RunImport, FinishImport, InstallHooks, HooksInstalled, SaveState,
       SelfCheck, ReadState, RemoveHooks, HooksRemoved, Purge, Emit, Preflight, Alert, Return, UserEdits

\* A home changes only under its command, and how.
LEMMA HomesChange ==
  ASSUME [Next]_vars
  PROVE  \/ UNCHANGED homes
         \/ RepositoryOnly /\ \E h \in CheckHomes : homes' = Created(h)
         \/ (Collect \/ Emit) /\ homes' = Created(cmd.home)
         \/ InitializeGateway \/ EnrollRoot \/ ActivatePolicy \/ SaveState \/ Purge
BY DEF Next, vars, local, elastic, bounds, Setup, RepositoryOnly, VerifyCommand, UninstallCommand, Begin,
       CommandStep, StageFails, ReadStateFails, RemoveHooksFails, Crash, RulesChange, AgentDrops, AgentReports,
       Collect, Select, LoadAssets, EnsureEndpoint,
       FleetVerified, PollFleet, StartImport, RunImport, FinishImport, InstallHooks, HooksInstalled,
       SelfCheck, ReadState, RemoveHooks, HooksRemoved, Emit, Preflight, Alert, Return, UserEdits

LEMMA UserEditsIs ==
  ASSUME LocalOK, UserEdits
  PROVE  /\ hooks' \in [Targets -> Docs]
         /\ \A t \in Targets : \A e \in Events :
              (HasOurs(hooks'[t][e]) => HasOurs(hooks[t][e])) /\ (HasOurs(hooks[t][e]) => HasOurs(hooks'[t][e]))
         /\ \A t \in Targets : \A h : RunsHome(hooks[t], h) => RunsHome(hooks'[t], h)
<1>1. PICK t \in Targets, e \in Events, o \in Others :
        \/ \E group \in {<<>>, <<Theirs(o)>>} : hooks' = [hooks EXCEPT ![t][e] = Append(@, group)]
        \/ \E i \in DOMAIN hooks[t][e] : hooks' = [hooks EXCEPT ![t][e][i] = <<Theirs(o)>> \o @]
  BY DEF UserEdits
<1>2. hooks \in [Targets -> Docs] /\ hooks[t] \in Docs /\ hooks[t][e] \in Seq(Groups)
  BY DEF LocalOK, Docs
<1>3. PICK new : Edited(hooks[t][e], new) /\ hooks' = [hooks EXCEPT ![t][e] = new]
  <2>1. CASE \E group \in {<<>>, <<Theirs(o)>>} : hooks' = [hooks EXCEPT ![t][e] = Append(@, group)]
    <3>1. PICK group \in {<<>>, <<Theirs(o)>>} : hooks' = [hooks EXCEPT ![t][e] = Append(@, group)]
      BY <2>1
    <3>2. Edited(hooks[t][e], Append(hooks[t][e], group))
      BY <3>1 DEF Edited
    <3>3. hooks' = [hooks EXCEPT ![t][e] = Append(hooks[t][e], group)]
      BY <1>2, <3>1 DEF Docs
    <3>4. QED
      BY <3>2, <3>3
  <2>2. CASE \E i \in DOMAIN hooks[t][e] : hooks' = [hooks EXCEPT ![t][e][i] = <<Theirs(o)>> \o @]
    <3>1. PICK i \in DOMAIN hooks[t][e] : hooks' = [hooks EXCEPT ![t][e][i] = <<Theirs(o)>> \o @]
      BY <2>2
    <3> DEFINE new == [hooks[t][e] EXCEPT ![i] = <<Theirs(o)>> \o @]
    <3>2. Edited(hooks[t][e], new)
      BY <3>1 DEF Edited
    <3>3. hooks' = [hooks EXCEPT ![t][e] = new]
      BY <1>2, <3>1 DEF Docs
    <3>4. QED
      BY <3>2, <3>3
  <2>3. QED
    BY <1>1, <2>1, <2>2
<1>4. /\ new \in Seq(Groups)
      /\ (HasOurs(new) => HasOurs(hooks[t][e])) /\ (HasOurs(hooks[t][e]) => HasOurs(new))
      /\ \A h : OneHome(hooks[t][e], h) => OneHome(new, h)
  BY <1>2, <1>3, EditIs, OursAreAlike
<1>5. hooks' \in [Targets -> Docs] /\ hooks'[t][e] = new
      /\ \A s \in Targets : \A d \in Events : ~(s = t /\ d = e) => hooks'[s][d] = hooks[s][d]
  BY <1>2, <1>3, <1>4 DEF Docs
<1>6. \A s \in Targets : \A d \in Events : \A h : OneHome(hooks[s][d], h) => OneHome(hooks'[s][d], h)
  BY <1>4, <1>5
<1>7. \A s \in Targets : \A h : RunsHome(hooks[s], h) => RunsHome(hooks'[s], h)
  BY <1>6 DEF RunsHome, OneHome
<1>8. QED
  BY <1>4, <1>5, <1>7

LEMMA LocalInit == Init => LocalOK
<1>1. SUFFICES ASSUME Init PROVE LocalOK
  OBVIOUS
<1>2. NoHome \in HomeType
  BY DEF NoHome, HomeType
<1>3. NoHooks \in Docs
  BY EmptySeq DEF NoHooks, Docs
<1>4. OldHome \in Homes /\ Install(NoHooks, OldHome) \in Docs
  BY <1>3, InstallIs, OnboardingAssumption
<1>5. QED
  BY <1>1, <1>2, <1>3, <1>4, OnboardingAssumption DEF Init, LocalOK, NoConfig

LEMMA LocalStep == CommandOK /\ LocalOK /\ [Next]_vars => LocalOK'
<1>1. SUFFICES ASSUME CommandOK, LocalOK, [Next]_vars PROVE LocalOK'
  OBVIOUS
<1>2. cmd \in CommandType /\ cmd.home \in Homes /\ homes \in [Homes -> HomeType] /\ homes[cmd.home] \in HomeType
  BY <1>1 DEF CommandOK, CommandType, LocalOK
<1>3. config' \in [there : BOOLEAN, home : Homes, dev : BOOLEAN, enable : BOOLEAN]
  <2>1. CASE UNCHANGED config
    BY <1>1, <2>1 DEF LocalOK
  <2>2. CASE Collect
    <3>1. config' = [there |-> TRUE, home |-> cmd.home, dev |-> cmd.dev, enable |-> cmd.enable]
      BY <2>2 DEF Collect
    <3>2. cmd.dev \in BOOLEAN /\ cmd.enable \in BOOLEAN
      BY <1>2 DEF CommandType
    <3>3. QED
      BY <1>2, <3>1, <3>2
  <2>3. QED
    BY <1>1, <2>1, <2>2, ConfigChanges
<1>4. homes' \in [Homes -> HomeType]
  <2>1. ASSUME NEW h \in Homes, homes' = Created(h) PROVE homes' \in [Homes -> HomeType]
    <3>1. homes[h] \in HomeType
      BY <1>2
    <3>2. [homes[h] EXCEPT !.there = TRUE] \in HomeType
      BY <3>1 DEF HomeType
    <3>3. homes' = [homes EXCEPT ![h] = [homes[h] EXCEPT !.there = TRUE]]
      BY <1>2, <2>1 DEF Created
    <3>4. QED
      BY <1>2, <3>2, <3>3
  <2>2. ASSUME NEW home \in HomeType, homes' = [homes EXCEPT ![cmd.home] = home]
        PROVE  homes' \in [Homes -> HomeType]
    BY <1>2, <2>2
  <2>3. CASE InitializeGateway
    <3> DEFINE output == IF cmd.kind = "check" THEN "jsonl" ELSE "elastic"
               home == [homes[cmd.home] EXCEPT !.there = TRUE, !.output = output, !.unsigned = cmd.dev]
    <3>1. output \in {"none", "jsonl", "elastic"} /\ cmd.dev \in BOOLEAN
      BY <1>2 DEF CommandType
    <3>2. homes' = [homes EXCEPT ![cmd.home] = home]
      BY <1>2, <2>3 DEF InitializeGateway
    <3> HIDE DEF output
    <3>3. home \in HomeType
      BY <1>2, <3>1 DEF HomeType
    <3> HIDE DEF home
    <3>4. QED
      BY <2>2, <3>2, <3>3
  <2>4. CASE EnrollRoot \/ ActivatePolicy \/ SaveState \/ Purge
    <3>1. cmd.targets \in SUBSET Targets
      BY <1>2 DEF CommandType
    <3>2. \/ homes' = [homes EXCEPT ![cmd.home] = [homes[cmd.home] EXCEPT !.root = TRUE]]
          \/ homes' = [homes EXCEPT ![cmd.home] = [homes[cmd.home] EXCEPT !.active = TRUE]]
          \/ homes' = [homes EXCEPT ![cmd.home] =
                         [homes[cmd.home] EXCEPT !.saved = TRUE, !.recorded = cmd.targets]]
          \/ homes' = [homes EXCEPT ![cmd.home] = NoHome]
      BY <1>2, <2>4 DEF EnrollRoot, ActivatePolicy, SaveState, Purge
    <3>3. /\ [homes[cmd.home] EXCEPT !.root = TRUE] \in HomeType
          /\ [homes[cmd.home] EXCEPT !.active = TRUE] \in HomeType
          /\ [homes[cmd.home] EXCEPT !.saved = TRUE, !.recorded = cmd.targets] \in HomeType
          /\ NoHome \in HomeType
      BY <1>2, <3>1 DEF HomeType, NoHome
    <3>4. QED
      BY <2>2, <3>2, <3>3
  <2>5. QED
    BY <1>1, <1>2, <2>1, <2>3, <2>4, HomesChange, OnboardingAssumption
<1>5. hooks' \in [Targets -> Docs]
  <2>1. hooks \in [Targets -> Docs]
    BY <1>1 DEF LocalOK
  <2>2. CASE InstallHooks \/ RemoveHooks
    <3>1. NextTarget \in Targets
      BY <1>1, <2>2, NextTargetIs DEF InstallHooks, RemoveHooks
    <3>2. /\ Install(hooks[NextTarget], cmd.home) \in Docs
          /\ Uninstall(NextTarget, hooks[NextTarget]) \in Docs
      BY <1>2, <2>1, <3>1, InstallIs, UninstallIs
    <3>3. \/ hooks' = [hooks EXCEPT ![NextTarget] = Install(hooks[NextTarget], cmd.home)]
          \/ hooks' = [hooks EXCEPT ![NextTarget] = Uninstall(NextTarget, hooks[NextTarget])]
      BY <2>1, <2>2, <3>1 DEF InstallHooks, RemoveHooks
    <3>4. QED
      BY <2>1, <3>2, <3>3
  <2>3. QED
    BY <1>1, <2>1, <2>2, HooksChange, UserEditsIs
<1>6. QED
  BY <1>3, <1>4, <1>5 DEF LocalOK

LEMMA LabStep == LabOK /\ [Next]_vars => LabOK'
<1>1. SUFFICES ASSUME LabOK, [Next]_vars PROVE LabOK'
  OBVIOUS
<1>2. CASE UNCHANGED <<assets, endpoints, agent>>
  BY <1>1, <1>2 DEF LabOK
<1>3. CASE LoadAssets
  BY <1>1, <1>3 DEF LoadAssets, LabOK
<1>4. CASE EnsureEndpoint
  <2>1. \/ UNCHANGED <<endpoints, agent>>
        \/ ~(endpoints > 0) /\ endpoints' = endpoints + 1 /\ agent' = [agent EXCEPT !.acked = FALSE]
    BY <1>4 DEF EnsureEndpoint, HasEndpoint
  <2>2. UNCHANGED assets /\ assets \in BOOLEAN /\ endpoints \in {0, 1}
        /\ agent \in [online : BOOLEAN, acked : BOOLEAN]
    BY <1>1, <1>4 DEF EnsureEndpoint, LabOK
  <2>3. endpoints' \in {0, 1}
    BY <2>1, <2>2
  <2>4. agent' \in [online : BOOLEAN, acked : BOOLEAN]
    <3>1. [agent EXCEPT !.acked = FALSE] \in [online : BOOLEAN, acked : BOOLEAN]
      BY <2>2
    <3>2. QED
      BY <2>1, <2>2, <3>1
  <2>5. QED
    BY <2>2, <2>3, <2>4 DEF LabOK
<1>5. CASE AgentDrops \/ AgentReports
  <2>1. agent' = [agent EXCEPT !.online = FALSE] \/ agent' = [online |-> TRUE, acked |-> TRUE]
    BY <1>5 DEF AgentDrops, AgentReports
  <2>2. agent' \in [online : BOOLEAN, acked : BOOLEAN]
    <3>1. agent \in [online : BOOLEAN, acked : BOOLEAN]
      BY <1>1 DEF LabOK
    <3>2. [agent EXCEPT !.online = FALSE] \in [online : BOOLEAN, acked : BOOLEAN]
      BY <3>1
    <3>3. [online |-> TRUE, acked |-> TRUE] \in [online : BOOLEAN, acked : BOOLEAN]
      OBVIOUS
    <3>4. QED
      BY <2>1, <3>2, <3>3
  <2>3. UNCHANGED <<assets, endpoints>>
    BY <1>5 DEF AgentDrops, AgentReports
  <2>4. QED
    BY <1>1, <2>2, <2>3 DEF LabOK
<1>6. QED
  BY <1>1, <1>2, <1>3, <1>4, <1>5
  DEF Next, vars, local, elastic, bounds, Setup, RepositoryOnly, VerifyCommand, UninstallCommand, Begin,
       CommandStep, StageFails, ReadStateFails, RemoveHooksFails, Crash, RulesChange,
       Collect, Select, InitializeGateway, EnrollRoot, ActivatePolicy,
       FleetVerified, PollFleet, StartImport, RunImport, FinishImport, InstallHooks, HooksInstalled, SaveState,
       SelfCheck, ReadState, RemoveHooks, HooksRemoved, Purge, Emit, Preflight, Alert, Return, UserEdits

\* Beginning a command counts; what a command did, one that was begun did.
LEMMA BoundsStep == CommandOK /\ LabOK /\ BoundsOK /\ [Next]_vars => BoundsOK'
<1>1. SUFFICES ASSUME CommandOK, LabOK, BoundsOK, [Next]_vars PROVE BoundsOK'
  OBVIOUS
<1>2. /\ MaxCommands \in Nat /\ MaxChanges \in Nat
      /\ commands \in 0..MaxCommands /\ changes \in 0..MaxChanges /\ disturbed \in BOOLEAN
      /\ before \subseteq Targets
      /\ (cmd.at # "idle" \/ endpoints = 1) => commands > 0
  BY <1>1, OnboardingAssumption DEF BoundsOK
<1>3. CASE Setup \/ RepositoryOnly \/ VerifyCommand \/ UninstallCommand
  <2>1. commands < MaxCommands /\ commands' = commands + 1 /\ disturbed' = FALSE /\ UNCHANGED changes
    BY <1>3 DEF Setup, RepositoryOnly, VerifyCommand, UninstallCommand, Begin
  <2>2. commands' \in 0..MaxCommands /\ commands' > 0
    BY <1>2, <2>1
  <2>3. disturbed' \in BOOLEAN /\ changes' \in 0..MaxChanges /\ before' \subseteq Targets
    BY <1>2, <1>3, <2>1 DEF Setup, RepositoryOnly, VerifyCommand, UninstallCommand, Begin
  <2>4. QED
    BY <2>2, <2>3 DEF BoundsOK
<1>4. CASE UNCHANGED <<bounds, cmd, endpoints>>
  BY <1>2, <1>4 DEF BoundsOK, bounds
<1>5. CASE UNCHANGED bounds /\ cmd.at # "idle"
  BY <1>2, <1>5 DEF BoundsOK, bounds
<1>6. CASE UNCHANGED bounds /\ cmd'.at = "idle" /\ UNCHANGED endpoints
  BY <1>2, <1>6 DEF BoundsOK, bounds
<1>7. CASE RulesChange \/ UserEdits \/ AgentDrops
  <2>1. changes < MaxChanges /\ changes' = changes + 1 /\ disturbed' = TRUE /\ UNCHANGED <<before, commands, cmd, endpoints>>
    BY <1>7 DEF RulesChange, UserEdits, AgentDrops, Change, elastic
  <2>2. QED
    BY <1>2, <2>1 DEF BoundsOK
<1>8. CASE CommandStep
  <2>1. cmd.at # "idle" /\ UNCHANGED bounds
    BY <1>8 DEF CommandStep, Collect, Select, InitializeGateway, EnrollRoot, ActivatePolicy, LoadAssets,
       EnsureEndpoint, FleetVerified, PollFleet, StartImport, RunImport, FinishImport, InstallHooks,
       HooksInstalled, SaveState, SelfCheck, ReadState, RemoveHooks, HooksRemoved, Purge, Emit, Preflight,
       Alert, Return, At, bounds
  <2>2. QED
    BY <1>5, <2>1
<1>9. CASE StageFails \/ ReadStateFails \/ RemoveHooksFails
  <2>1. cmd.at # "idle" /\ UNCHANGED bounds
    BY <1>9 DEF StageFails, ReadStateFails, RemoveHooksFails, At
  <2>2. QED
    BY <1>5, <2>1
<1>10. CASE Crash
  <2>1. UNCHANGED bounds /\ cmd'.at = "idle" /\ UNCHANGED endpoints
    BY <1>10 DEF Crash, Idle
  <2>2. QED
    BY <1>6, <2>1
<1>11. CASE AgentReports \/ UNCHANGED vars
  BY <1>4, <1>11 DEF AgentReports, vars, elastic
<1>12. QED
  BY <1>1, <1>3, <1>7, <1>8, <1>9, <1>10, <1>11 DEF Next

\* The rules and the import change under the import stage, by a crash, or by
\* an analyst.
LEMMA RulesChangeHow ==
  ASSUME [Next]_vars
  PROVE  \/ UNCHANGED <<rules, job>>
         \/ At("import") /\ UNCHANGED cmd /\ (StartImport \/ ImportStep) /\ UNCHANGED disturbed
         \/ FinishImport
         \/ Crash
         \/ RulesChange
<1>1. CASE Setup \/ RepositoryOnly \/ VerifyCommand \/ UninstallCommand
  BY <1>1 DEF Setup, RepositoryOnly, VerifyCommand, UninstallCommand, Begin, elastic
<1>2. CASE Collect \/ Select \/ InitializeGateway \/ EnrollRoot \/ ActivatePolicy \/ LoadAssets
           \/ EnsureEndpoint \/ FleetVerified \/ PollFleet \/ InstallHooks \/ HooksInstalled
  BY <1>2 DEF Collect, Select, InitializeGateway, EnrollRoot, ActivatePolicy, LoadAssets,
              EnsureEndpoint, FleetVerified, PollFleet, InstallHooks, HooksInstalled, elastic
<1>3. CASE SaveState \/ SelfCheck \/ ReadState \/ RemoveHooks \/ HooksRemoved \/ Purge
           \/ Emit \/ Preflight \/ Alert \/ Return
  BY <1>3 DEF SaveState, SelfCheck, ReadState, RemoveHooks, HooksRemoved, Purge,
              Emit, Preflight, Alert, Return, elastic
<1>4. CASE StartImport \/ RunImport
  BY <1>4 DEF StartImport, RunImport, bounds
<1>5. CASE StageFails \/ ReadStateFails \/ RemoveHooksFails \/ UserEdits \/ AgentDrops
           \/ AgentReports \/ UNCHANGED vars
  BY <1>5 DEF StageFails, ReadStateFails, RemoveHooksFails, UserEdits, AgentDrops, AgentReports,
              vars, elastic
<1>6. QED
  BY <1>1, <1>2, <1>3, <1>4, <1>5 DEF Next, CommandStep

LEMMA RulesStep == ImportTypeOK /\ [Next]_vars => ImportTypeOK'
<1>1. SUFFICES ASSUME ImportTypeOK, [Next]_vars PROVE ImportTypeOK'
  OBVIOUS
<1>2. rules \in [Rules \cup Unsupported -> States]
      /\ job \in [at : Steps, enable : BOOLEAN, ids : SUBSET Rules]
  BY <1>1 DEF ImportTypeOK
<1>3. NoImport \in [at : Steps, enable : BOOLEAN, ids : SUBSET Rules]
  BY DEF NoImport, Steps
<1>4. CASE UNCHANGED <<rules, job>>
  BY <1>1, <1>4 DEF ImportTypeOK
<1>5. CASE StartImport
  <2>1. Asked(WantsRules) \in BOOLEAN /\ UNCHANGED rules
        /\ job' = [NoImport EXCEPT !.at = "find", !.enable = Asked(WantsRules)]
    BY <1>5 DEF StartImport, Start, Asked, WantsRules
  <2>2. QED
    BY <1>2, <1>3, <2>1 DEF ImportTypeOK, Steps
<1>6. ASSUME NEW step \in Steps, Goto(step), rules' \in [Rules \cup Unsupported -> States]
      PROVE  ImportTypeOK'
  BY <1>2, <1>6 DEF Goto, ImportTypeOK
<1>7. CASE Fail
  BY <1>2, <1>6, <1>7 DEF Fail, Steps
<1>8. CASE Find
  BY <1>2, <1>6, <1>8 DEF Find, Steps
<1>9. CASE Post
  <2>1. PICK S \in SUBSET Rules :
          /\ rules' = [r \in DOMAIN rules |-> IF r \in S THEN "disabled" ELSE rules[r]]
          /\ Goto("verify") \/ Goto("failed")
    BY <1>9 DEF Post
  <2>2. rules' \in [Rules \cup Unsupported -> States]
    BY <1>2, <2>1 DEF States
  <2>3. QED
    BY <1>6, <2>1, <2>2 DEF Steps
<1>10. CASE Verify
  <2>1. UNCHANGED rules
    BY <1>10 DEF Verify
  <2> DEFINE off == Rules \ Enabled(Rules)
             at == IF ~job.enable THEN "passed" ELSE IF off = {} THEN "count" ELSE "enable"
             ids == IF job.enable THEN off ELSE {}
  <2>2. Goto("failed") \/ job' = [job EXCEPT !.at = at, !.ids = ids]
    BY <1>10 DEF Verify
  <2>3. at \in Steps /\ ids \in SUBSET Rules
    BY DEF Steps
  <2>4. CASE Goto("failed")
    BY <1>2, <1>6, <2>1, <2>4 DEF Steps
  <2>5. CASE job' = [job EXCEPT !.at = at, !.ids = ids]
    <3> HIDE DEF at, ids
    <3> QED BY <1>2, <2>1, <2>3, <2>5 DEF ImportTypeOK
  <2>6. QED
    BY <2>2, <2>4, <2>5
<1>11. CASE Enable
  <2>1. PICK S \in SUBSET Present(job.ids) :
          /\ rules' = [r \in DOMAIN rules |-> IF r \in S THEN "enabled" ELSE rules[r]]
          /\ Goto("count") \/ Goto("failed")
    BY <1>11 DEF Enable
  <2>2. rules' \in [Rules \cup Unsupported -> States]
    BY <1>2, <2>1 DEF States
  <2>3. QED
    BY <1>6, <2>1, <2>2 DEF Steps
<1>12. CASE Count
  BY <1>2, <1>6, <1>12 DEF Count, Steps
<1>13. CASE FinishImport \/ Crash
  BY <1>2, <1>3, <1>13 DEF FinishImport, Crash, ImportTypeOK
<1>14. CASE RulesChange
  BY <1>2, <1>14 DEF RulesChange, Analyst, ImportTypeOK
<1>15. QED
  BY <1>1, <1>4, <1>5, <1>7, <1>8, <1>9, <1>10, <1>11, <1>12, <1>13, <1>14, RulesChangeHow DEF ImportStep

LEMMA StateInvariance == Spec => []StateOK
<1>1. Init => StateOK
  <2>1. Init => ImportTypeOK
    BY DEF Init, ImportInit, ImportTypeOK, NoImport, States, Steps
  <2>2. Init => LabOK /\ BoundsOK
    <3>1. SUFFICES ASSUME Init PROVE LabOK /\ BoundsOK
      OBVIOUS
    <3>2. LabOK
      BY <3>1 DEF Init, LabOK
    <3>3. cmd.at = "idle" /\ endpoints = 0
      BY <3>1 DEF Init, Idle
    <3>4. disturbed = FALSE /\ commands = 0 /\ changes = 0
      BY <3>1 DEF Init
    <3>5. BoundsOK
      <4>1. disturbed \in BOOLEAN /\ before \subseteq Targets
        BY <3>1, <3>4 DEF Init
      <4>2. commands \in 0..MaxCommands /\ changes \in 0..MaxChanges
        BY <3>4, OnboardingAssumption
      <4>3. ~(cmd.at # "idle" \/ endpoints = 1)
        BY <3>3
      <4>4. QED
        BY <4>1, <4>2, <4>3, Zenon DEF BoundsOK
    <3>6. QED
      BY <3>2, <3>5
  <2>3. QED
    BY <2>1, <2>2, LocalInit, CommandInit DEF StateOK
<1>2. StateOK /\ [Next]_vars => StateOK'
  BY CommandOKStep, LocalStep, LabStep, BoundsStep, RulesStep DEF StateOK
<1>3. QED
  BY <1>1, <1>2, PTL DEF Spec

\* Every command is at a stage, and every document and home is one
\* (onboarding.py, installer.py, import_rules.py).
THEOREM OnboardingTypeCorrect == Spec => []TypeOK
<1>1. StateOK => TypeOK
  <2>1. SUFFICES ASSUME StateOK PROVE TypeOK
    OBVIOUS
  <2>2. ASSUME NEW t \in Targets, NEW e \in Events, NEW i \in DOMAIN hooks[t][e],
               NEW j \in DOMAIN hooks[t][e][i]
        PROVE  hooks[t][e][i][j] \in Handlers
    <3>1. hooks[t][e] \in Seq(Groups)
      BY <2>1 DEF StateOK, LocalOK, Docs
    <3>2. hooks[t][e][i] \in Groups
      BY <2>2, <3>1, LenProperties, ElementOfSeq
    <3>3. QED
      BY <2>2, <3>2, LenProperties, ElementOfSeq DEF Groups
  <2>3. endpoints \in 0..MaxCommands
    BY <2>1, OnboardingAssumption DEF StateOK, LabOK, BoundsOK
  <2>4. DOMAIN hooks = Targets
    BY <2>1 DEF StateOK, LocalOK
  <2>5. QED
    BY <2>1, <2>2, <2>3, <2>4 DEF StateOK, LocalOK, LabOK, BoundsOK, CommandOK, CommandType, HomeType, TypeOK
<1>2. QED
  BY <1>1, StateInvariance, PTL

\* However often setup is run, killed, or loses an answer, the agent policy gets
\* one Elastic Defend integration (FleetClient ensure_endpoint).
THEOREM OneIntegration == Spec => []OneEndpoint
<1>1. StateOK => OneEndpoint
  BY DEF StateOK, LabOK, OneEndpoint
<1>2. QED
  BY <1>1, StateInvariance, PTL

-----------------------------------------------------------------------------
(* The import.                                                             *)

LEMMA ImportStage ==
  ASSUME [Next]_vars, cmd.at = "import"
  PROVE  /\ UNCHANGED cmd \/ FinishImport \/ Crash
         /\ ~disturbed' => ~disturbed
<1>1. cmd # Idle
  BY DEF Idle
<1>2. UNCHANGED cmd \/ FinishImport \/ Crash
  BY <1>1 DEF Next, vars, Setup, RepositoryOnly, VerifyCommand, UninstallCommand, Begin,
       CommandStep, StageFails, ReadStateFails, RemoveHooksFails, RulesChange, UserEdits, AgentDrops, AgentReports, Change,
       Collect, Select, InitializeGateway, EnrollRoot, ActivatePolicy, LoadAssets, EnsureEndpoint,
       FleetVerified, PollFleet, StartImport, RunImport, InstallHooks, HooksInstalled, SaveState,
       SelfCheck, ReadState, RemoveHooks, HooksRemoved, Purge, Emit, Preflight, Alert, Return, At
<1>3. ~disturbed' => ~disturbed
  BY <1>1 DEF Next, vars, bounds, Setup, RepositoryOnly, VerifyCommand, UninstallCommand, Begin, Crash,
       CommandStep, StageFails, ReadStateFails, RemoveHooksFails, RulesChange, UserEdits, AgentDrops, AgentReports, Change,
       Collect, Select, InitializeGateway, EnrollRoot, ActivatePolicy, LoadAssets, EnsureEndpoint,
       FleetVerified, PollFleet, StartImport, RunImport, InstallHooks, HooksInstalled, SaveState, FinishImport,
       SelfCheck, ReadState, RemoveHooks, HooksRemoved, Purge, Emit, Preflight, Alert, Return
<1>4. QED
  BY <1>2, <1>3

LEMMA NoJob ==
  ASSUME job.at \in {"none", "find", "failed"},
         job.at # "none" => cmd.at = "import" /\ job.enable = Asked(WantsRules)
  PROVE  ImportOK
BY DEF ImportOK, ImportIsExact

\* Nobody else is at the rules: what the requests do to them.
LEMMA RequestStep ==
  ASSUME ImportTypeOK, ImportOK, ImportStep, UNCHANGED <<cmd, disturbed>>, cmd.at = "import"
  PROVE  ImportOK'
<1>1. rules \in [Rules \cup Unsupported -> States]
      /\ job \in [at : Steps, enable : BOOLEAN, ids : SUBSET Rules] /\ Rules \cap Unsupported = {}
  BY ImportAssumption DEF ImportTypeOK
<1>2. job.at # "none" => job.enable = Asked(WantsRules)
  BY DEF ImportOK
<1>3. ASSUME NEW step \in {"find", "failed"}, Goto(step), job.at # "none" PROVE ImportOK'
  <2>1. job'.at = step /\ job'.enable = job.enable
    BY <1>1, <1>3 DEF Goto
  <2>2. job'.at \in {"none", "find", "failed"}
    BY <1>3, <2>1
  <2>3. job'.enable = Asked(WantsRules)' /\ cmd'.at = "import"
    BY <1>2, <1>3, <2>1 DEF WantsRules, Asked
  <2>4. QED
    BY <2>2, <2>3, NoJob DEF ImportOK, ImportIsExact
<1>4. CASE Fail
  BY <1>3, <1>4 DEF Fail
<1>5. CASE Find
  <2>1. job.at = "find" /\ UNCHANGED rules
    BY <1>5 DEF Find
  <2>2. CASE Present(Unsupported) = {}
    <3>1. job' = [job EXCEPT !.at = "post"]
      BY <1>5, <2>2 DEF Find, Goto
    <3>2. job'.at = "post" /\ job'.enable = job.enable
      BY <1>1, <3>1
    <3>3. Present(Unsupported)' = {}
      BY <2>1, <2>2 DEF Present
    <3>4. QED
      BY <1>2, <2>1, <3>2, <3>3 DEF ImportOK, ImportIsExact, WantsRules, Asked
  <2>3. CASE Present(Unsupported) # {}
    BY <1>3, <1>5, <2>1, <2>3 DEF Find
  <2>4. QED
    BY <2>2, <2>3
<1>6. CASE Post
  <2>1. PICK S \in SUBSET Rules :
          /\ rules' = [r \in DOMAIN rules |-> IF r \in S THEN "disabled" ELSE rules[r]]
          /\ Goto("failed") \/ (Goto("verify") /\ S = Rules)
    BY <1>6 DEF Post, Complete
  <2>2. job.at = "post"
    BY <1>6 DEF Post
  <2>3. CASE Goto("failed")
    BY <1>3, <2>2, <2>3
  <2>4. CASE Goto("verify") /\ S = Rules
    <3>1. job'.at = "verify" /\ job'.enable = job.enable
      BY <1>1, <2>4 DEF Goto
    <3>2. \A r \in Rules : rules'[r] = "disabled"
      BY <1>1, <2>1, <2>4
    <3>3. \A r \in Unsupported : rules'[r] = rules[r]
      BY <1>1, <2>1
    <3>4. ~disturbed => Present(Unsupported)' = {}
      BY <2>2, <3>3 DEF ImportOK, Present
    <3>5. QED
      BY <1>2, <2>2, <3>1, <3>2, <3>4 DEF ImportOK, ImportIsExact, WantsRules, Asked
  <2>5. QED
    BY <2>1, <2>3, <2>4
<1>7. CASE Verify
  <2>1. job.at = "verify" /\ UNCHANGED rules
    BY <1>7 DEF Verify
  <2> DEFINE off == Rules \ Enabled(Rules)
  <2>2. CASE Goto("failed")
    BY <1>3, <2>1, <2>2
  <2>3. CASE job' = [job EXCEPT !.at = IF ~job.enable THEN "passed" ELSE IF off = {} THEN "count" ELSE "enable",
                                !.ids = IF job.enable THEN off ELSE {}]
    <3>1. job'.enable = job.enable /\ job'.at \in {"passed", "count", "enable"}
          /\ (job'.at = "passed" => ~job.enable) /\ (job'.at \in {"count", "enable"} => job.enable)
          /\ (job'.at = "enable" => job'.ids = off)
      BY <1>1, <2>3
    <3>2. ~disturbed => Present(Unsupported)' = {} /\ \A r \in Rules : rules'[r] = "disabled"
      BY <2>1 DEF ImportOK, Present
    <3>3. ~disturbed => off = Rules
      BY <2>1, <3>2 DEF Enabled
    <3>4. job'.at = "passed" /\ ~disturbed =>
            \A r \in Rules : rules'[r] = IF job'.enable THEN "enabled" ELSE "disabled"
      BY <3>1, <3>2
    <3> HIDE DEF off
    <3>5. job'.enable = Asked(WantsRules)' /\ job'.at # "none"
      BY <1>2, <2>1, <3>1 DEF WantsRules, Asked
    <3>6. ImportIsExact'
      BY <3>2, <3>4 DEF ImportIsExact
    <3>7. QED
      BY <3>1, <3>2, <3>3, <3>5, <3>6 DEF ImportOK
  <2>4. QED
    BY <1>7, <2>2, <2>3 DEF Verify
<1>8. CASE Enable
  <2>1. PICK S \in SUBSET Present(job.ids) :
          /\ rules' = [r \in DOMAIN rules |-> IF r \in S THEN "enabled" ELSE rules[r]]
          /\ Goto("failed") \/ Goto("count")
    BY <1>8 DEF Enable
  <2>2. job.at = "enable"
    BY <1>8 DEF Enable
  <2>3. CASE Goto("failed")
    BY <1>3, <2>2, <2>3
  <2>4. CASE Goto("count")
    <3>1. job'.at = "count" /\ job'.enable = job.enable
      BY <1>1, <2>4 DEF Goto
    <3>2. S \subseteq Rules
      BY <1>1, <2>1 DEF Present
    <3>3. \A r \in Unsupported : rules'[r] = rules[r]
      BY <1>1, <2>1, <3>2
    <3>4. ~disturbed => Present(Unsupported)' = {}
      BY <2>2, <3>3 DEF ImportOK, Present
    <3>5. job'.enable /\ job'.enable = Asked(WantsRules)'
      BY <1>2, <2>2, <3>1 DEF ImportOK, WantsRules, Asked
    <3>6. QED
      BY <3>1, <3>4, <3>5 DEF ImportOK, ImportIsExact
  <2>5. QED
    BY <2>1, <2>3, <2>4
<1>9. CASE Count
  <2>1. job.at = "count" /\ UNCHANGED rules
    BY <1>9 DEF Count
  <2>2. CASE Enabled(Rules) # Rules
    BY <1>3, <1>9, <2>1, <2>2 DEF Count
  <2>3. CASE Enabled(Rules) = Rules
    <3>1. job' = [job EXCEPT !.at = "passed"]
      BY <1>9, <2>3 DEF Count, Goto
    <3>2. job'.at = "passed" /\ job'.enable = job.enable
      BY <1>1, <3>1
    <3>3. job.enable
      BY <2>1 DEF ImportOK
    <3>4. \A r \in Rules : rules'[r] = "enabled"
      BY <2>1, <2>3 DEF Enabled
    <3>5. ~disturbed => Present(Unsupported)' = {}
      BY <2>1 DEF ImportOK, Present
    <3>6. job'.enable = Asked(WantsRules)'
      BY <1>2, <2>1, <3>2 DEF WantsRules, Asked
    <3>7. QED
      BY <3>2, <3>3, <3>4, <3>5, <3>6 DEF ImportOK, ImportIsExact
  <2>4. QED
    BY <2>2, <2>3
<1>10. QED
  BY <1>4, <1>5, <1>6, <1>7, <1>8, <1>9 DEF ImportStep

LEMMA ImportOKStep == StateOK /\ ImportOK /\ [Next]_vars => ImportOK'
<1>1. SUFFICES ASSUME StateOK, ImportOK, [Next]_vars PROVE ImportOK'
  OBVIOUS
<1>2. job \in [at : Steps, enable : BOOLEAN, ids : SUBSET Rules]
  BY <1>1 DEF StateOK, ImportTypeOK
<1>3. ASSUME job'.at = "none" PROVE ImportOK'
  BY <1>3 DEF ImportOK, ImportIsExact
<1>4. CASE FinishImport \/ Crash
  <2>1. job'.at = "none"
    BY <1>4 DEF FinishImport, Crash, NoImport
  <2>2. QED
    BY <1>3, <2>1
<1>5. CASE UNCHANGED <<rules, job>> /\ job.at = "none"
  BY <1>3, <1>5
<1>6. CASE UNCHANGED <<rules, job>> /\ job.at # "none"
  <2>1. cmd.at = "import"
    BY <1>1, <1>6 DEF ImportOK
  <2>2. (UNCHANGED cmd \/ FinishImport \/ Crash) /\ (~disturbed' => ~disturbed)
    BY <1>1, <2>1, ImportStage
  <2>3. CASE UNCHANGED cmd
    BY <1>1, <1>6, <2>2, <2>3 DEF ImportOK, ImportIsExact, Present, WantsRules, Asked
  <2>4. QED
    BY <1>4, <2>2, <2>3
<1>7. CASE StartImport
  <2>1. cmd.at = "import" /\ UNCHANGED cmd /\ job'.at = "find" /\ job'.enable = Asked(WantsRules)
    BY <1>7 DEF StartImport, Start, At, NoImport
  <2>2. QED
    BY <2>1 DEF ImportOK, ImportIsExact, WantsRules, Asked
<1>8. CASE ImportStep /\ At("import") /\ UNCHANGED <<cmd, disturbed>>
  BY <1>1, <1>8, RequestStep DEF StateOK, At
<1>9. CASE RulesChange
  <2>1. disturbed' /\ UNCHANGED <<cmd, job>>
    BY <1>9 DEF RulesChange, Change, Analyst
  <2>2. QED
    BY <1>1, <2>1 DEF ImportOK, ImportIsExact, WantsRules, Asked
<1>10. QED
  BY <1>1, <1>4, <1>5, <1>6, <1>7, <1>8, <1>9, RulesChangeHow

LEMMA ImportInvariance == Spec => []ImportOK
<1>1. Init => ImportOK
  BY DEF Init, ImportInit, NoImport, ImportOK, ImportIsExact
<1>2. StateOK /\ ImportOK /\ [Next]_vars => ImportOK'
  BY ImportOKStep
<1>3. QED
  BY <1>1, <1>2, StateInvariance, PTL DEF Spec

\* An import that passed, with nobody else at the rules, left exactly the pack:
\* every rule there, all of them enabled or none, and no other WatchMyAI rule,
\* whatever answers were lost in earlier imports (import_rules.py main).
THEOREM ImportsAreExact == Spec => []ImportIsExact
<1>1. ImportOK => ImportIsExact
  BY DEF ImportOK
<1>2. QED
  BY <1>1, ImportInvariance, PTL

-----------------------------------------------------------------------------
(* The hooks of the other tools.                                           *)

LEMMA HooksOfTargets ==
  ASSUME StateOK, InstallHooks \/ RemoveHooks
  PROVE  /\ NextTarget \in cmd.left /\ NextTarget \in Targets /\ cmd.left' = cmd.left \ {NextTarget}
         /\ cmd'.targets = cmd.targets /\ cmd'.at = cmd.at /\ cmd'.kind = cmd.kind /\ cmd'.failed = cmd.failed
         /\ hooks'[NextTarget] \in Docs
         /\ TheirHandlers(hooks'[NextTarget]) = TheirHandlers(hooks[NextTarget])
         /\ InstallHooks => /\ Hooked(hooks'[NextTarget])
                            /\ RunsHome(hooks[NextTarget], cmd.home) => RunsHome(hooks'[NextTarget], cmd.home)
         /\ RemoveHooks => Unhooked(hooks'[NextTarget])
         /\ \A t \in Targets : t # NextTarget => hooks'[t] = hooks[t]
<1>1. /\ cmd \in CommandType /\ cmd.home \in Homes /\ cmd.left # {} /\ CommandOK
      /\ hooks \in [Targets -> Docs]
  BY DEF StateOK, CommandOK, CommandType, LocalOK, InstallHooks, RemoveHooks
<1>2. NextTarget \in cmd.left /\ NextTarget \in Targets
  BY <1>1, NextTargetIs
<1>3. PICK target \in Targets : target = NextTarget
  BY <1>2
<1>4. hooks[target] \in Docs
  BY <1>1, <1>3
<1>5. /\ Install(hooks[target], cmd.home) \in Docs
      /\ Hooked(Install(hooks[target], cmd.home))
      /\ TheirHandlers(Install(hooks[target], cmd.home)) = TheirHandlers(hooks[target])
      /\ RunsHome(hooks[target], cmd.home) => RunsHome(Install(hooks[target], cmd.home), cmd.home)
  BY <1>1, <1>4, InstallIs
<1>6. /\ Uninstall(target, hooks[target]) \in Docs
      /\ Unhooked(Uninstall(target, hooks[target]))
      /\ TheirHandlers(Uninstall(target, hooks[target])) = TheirHandlers(hooks[target])
  BY <1>4, UninstallIs
<1>7. /\ InstallHooks => hooks' = [hooks EXCEPT ![target] = Install(hooks[target], cmd.home)]
      /\ RemoveHooks => hooks' = [hooks EXCEPT ![target] = Uninstall(target, hooks[target])]
  BY <1>1, <1>3 DEF InstallHooks, RemoveHooks
<1>8. /\ InstallHooks => hooks'[target] = Install(hooks[target], cmd.home)
      /\ RemoveHooks => hooks'[target] = Uninstall(target, hooks[target])
      /\ \A t \in Targets : t # target => hooks'[t] = hooks[t]
  BY <1>1, <1>7
<1>9. /\ cmd'.left = cmd.left \ {NextTarget}
      /\ cmd'.targets = cmd.targets /\ cmd'.at = cmd.at /\ cmd'.kind = cmd.kind /\ cmd'.failed = cmd.failed
  BY <1>1 DEF InstallHooks, RemoveHooks, CommandType
<1>10. QED
  BY <1>2, <1>3, <1>5, <1>6, <1>8, <1>9

\* Installing and removing our hooks never drops, adds or reorders a handler of
\* another tool, in whatever documents (installer.py install and uninstall).
THEOREM TheirHooksAreKept == Spec => TheirsAreKept
<1>1. StateOK /\ [Next]_vars =>
        [UserEdits \/ \A t \in Targets : TheirHandlers(hooks'[t]) = TheirHandlers(hooks[t])]_vars
  <2>1. SUFFICES ASSUME StateOK, [Next]_vars
                 PROVE  UserEdits \/ \A t \in Targets : TheirHandlers(hooks'[t]) = TheirHandlers(hooks[t])
    OBVIOUS
  <2>2. CASE InstallHooks \/ RemoveHooks
    BY <2>1, <2>2, HooksOfTargets
  <2>3. QED
    BY <2>1, <2>2, HooksChange
<1>2. QED
  BY <1>1, StateInvariance, PTL DEF Spec, TheirsAreKept

-----------------------------------------------------------------------------
(* Setup.                                                                  *)

LEMMA Begins ==
  ASSUME StateOK, Setup \/ RepositoryOnly \/ VerifyCommand \/ UninstallCommand
  PROVE  /\ cmd.at = "idle" /\ UNCHANGED <<elastic, config, hooks>>
         /\ cmd'.kind = "setup" => cmd'.at = "collect" /\ cmd'.left = cmd'.targets
         /\ ~cmd'.failed
         /\ cmd'.kind = "setup" => before' = {t \in Targets : ~Unhooked(hooks[t])}
         /\ Setup => cmd'.kind = "setup"
         /\ RepositoryOnly => cmd'.kind = "check"
         /\ VerifyCommand => cmd'.kind = "verify"
         /\ UninstallCommand => /\ cmd'.kind = "uninstall" /\ cmd'.home = config.home
                                /\ cmd'.at \in {"import", "recorded"} /\ (cmd'.at = "recorded" => ~config.there)
<1>1. cmd.at = "idle" /\ UNCHANGED <<elastic, config, hooks>>
  <2>1. cmd = Idle /\ UNCHANGED <<elastic, config, hooks, changes>>
    BY DEF Setup, RepositoryOnly, VerifyCommand, UninstallCommand, Begin
  <2>2. Idle.at = "idle"
    BY DEF Idle
  <2>3. QED
    BY <2>1, <2>2
<1>2. LocalOK
  BY DEF StateOK
<1>3. cmd'.kind = "setup" => before' = {t \in Targets : ~Unhooked(hooks[t])}
  BY DEF Setup, RepositoryOnly, VerifyCommand, UninstallCommand, Begin
<1>4. CASE Setup
  <2>1. \E h \in SetupHomes, dev, enable \in BOOLEAN, targets \in HookChoices :
          cmd' = Begun("setup", "collect", h, dev, enable, targets, FALSE)
    BY <1>2, <1>4, Beginnings
  <2>2. cmd'.kind = "setup" /\ cmd'.at = "collect" /\ cmd'.left = cmd'.targets /\ ~cmd'.failed
    BY <2>1 DEF Begun
  <2>3. ~RepositoryOnly /\ ~VerifyCommand /\ ~UninstallCommand
    <3>1. (RepositoryOnly => cmd'.kind = "check") /\ (VerifyCommand => cmd'.kind = "verify")
          /\ (UninstallCommand => cmd'.kind = "uninstall")
      BY <1>2, Beginnings DEF Begun
    <3>2. QED
      BY <2>2, <3>1
  <2>4. QED
    BY <1>1, <1>3, <2>2, <2>3
<1>5. CASE ~Setup /\ (RepositoryOnly \/ VerifyCommand \/ UninstallCommand)
  <2>1. (RepositoryOnly => cmd'.kind = "check" /\ ~cmd'.failed)
        /\ (VerifyCommand => cmd'.kind = "verify" /\ ~cmd'.failed)
    BY <1>2, Beginnings DEF Begun
  <2>2. UninstallCommand => /\ cmd'.kind = "uninstall" /\ ~cmd'.failed /\ cmd'.home = config.home
                            /\ cmd'.at \in {"import", "recorded"} /\ (cmd'.at = "recorded" => ~config.there)
    BY <1>2, Beginnings DEF Begun
  <2>3. QED
    BY <1>1, <1>3, <1>5, <2>1, <2>2
<1>6. QED
  BY <1>4, <1>5

Same == /\ cmd'.kind = cmd.kind /\ cmd'.home = cmd.home /\ cmd'.dev = cmd.dev
        /\ cmd'.targets = cmd.targets /\ cmd'.failed = cmd.failed /\ cmd'.purge = cmd.purge

LEMMA ProceedIs ==
  ASSUME StateOK, NEW stage, Proceed(stage)
  PROVE  Same /\ cmd'.at = stage /\ cmd'.left = cmd.left
BY DEF StateOK, CommandOK, CommandType, Proceed, Same

LEMMA StopIs ==
  ASSUME StateOK, Stop
  PROVE  cmd'.failed /\ cmd'.at = "end" /\ cmd'.kind = cmd.kind /\ cmd'.home = cmd.home
BY DEF StateOK, CommandOK, CommandType, Stop

\* How a setup that has not failed came to where it is.
SetupMoves ==
  \/ /\ cmd'.at = "collect" /\ cmd'.left = cmd'.targets
     /\ UNCHANGED hooks /\ before' = {t \in Targets : ~Unhooked(hooks[t])}
  \/ /\ cmd.kind = "setup" /\ ~cmd.failed /\ Same
     /\ \/ cmd'.at = cmd.at /\ (cmd'.left = cmd.left \/ InstallHooks)
        \/ /\ cmd'.left = cmd.left
           /\ \/ Collect /\ cmd.at = "collect" /\ cmd'.at = "select"
              \/ cmd.at = "select" /\ cmd'.at = "init"
              \/ /\ InitializeGateway /\ cmd.at = "init"
                 /\ \/ cmd.dev /\ cmd'.at = "assets"
                    \/ ~cmd.dev /\ homes[cmd.home].root /\ cmd'.at = "activate"
                    \/ ~cmd.dev /\ cmd'.at = "enroll"
              \/ EnrollRoot /\ cmd.at = "enroll" /\ cmd'.at = "activate"
              \/ ActivatePolicy /\ cmd.at = "activate" /\ cmd'.at = "assets"
              \/ LoadAssets /\ cmd.at = "assets" /\ cmd'.at = "endpoint"
              \/ EnsureEndpoint /\ cmd.at = "endpoint" /\ cmd'.at = "fleet"
              \/ FleetVerified /\ cmd.at = "fleet" /\ cmd'.at = "import"
              \/ cmd.at = "import" /\ cmd'.at = "hooks"
              \/ cmd.at = "hooks" /\ cmd.left = {} /\ cmd'.at = "save"
              \/ SaveState /\ cmd.at = "save" /\ cmd'.at = "emit"
              \/ Emit /\ cmd.at = "emit" /\ cmd'.at = "fleet again"
              \/ cmd.at = "fleet again" /\ cmd'.at = "preflight"
              \/ Preflight /\ cmd.at = "preflight" /\ cmd'.at = "alert"
              \/ Alert /\ cmd.at = "alert" /\ cmd'.at = "end"

LEMMA SetupMovesSo ==
  ASSUME StateOK, [Next]_vars, cmd'.kind = "setup", ~cmd'.failed
  PROVE  SetupMoves
<1>1. cmd \in CommandType /\ CommandOK
  BY DEF StateOK, CommandOK
<1>2. CASE UNCHANGED cmd
  BY <1>2 DEF SetupMoves, Same
<1>3. CASE Setup \/ RepositoryOnly \/ VerifyCommand \/ UninstallCommand
  BY <1>3, Begins DEF SetupMoves
<1>4. ~Stop
  BY StopIs
<1>5. cmd' # Idle
  BY DEF Idle
<1>6. ~Return /\ ~Crash /\ ~StageFails
  BY <1>4, <1>5 DEF Return, Crash, StageFails
<1>7. ASSUME NEW stage, Proceed(stage) PROVE Same /\ cmd'.at = stage /\ cmd'.left = cmd.left
                                             /\ cmd.kind = "setup" /\ ~cmd.failed
  BY <1>7, ProceedIs DEF Same
<1>8. CASE Collect
  <2>1. Proceed("select") /\ cmd.at = "collect"
    BY <1>8 DEF Collect, At
  <2>2. QED
    BY <1>7, <1>8, <2>1 DEF SetupMoves
<1>9. CASE Select
  <2>1. Proceed("init") /\ cmd.at = "select"
    BY <1>9 DEF Select, At
  <2>2. QED
    BY <1>7, <2>1 DEF SetupMoves
<1>10. CASE InitializeGateway
  <2>1. cmd.at = "init"
    BY <1>10 DEF InitializeGateway, At
  <2>2. CASE cmd.kind = "check"
    <3>1. Proceed("self-check")
      BY <1>10, <2>2 DEF InitializeGateway
    <3>2. QED
      BY <1>7, <2>2, <3>1
  <2>3. CASE cmd.kind # "check" /\ cmd.dev
    <3>1. Proceed("assets")
      BY <1>10, <2>3 DEF InitializeGateway
    <3>2. QED
      BY <1>7, <1>10, <2>1, <2>3, <3>1 DEF SetupMoves
  <2>4. CASE cmd.kind # "check" /\ ~cmd.dev /\ homes[cmd.home].root
    <3>1. Proceed("activate")
      BY <1>10, <2>4 DEF InitializeGateway
    <3>2. QED
      BY <1>7, <1>10, <2>1, <2>4, <3>1 DEF SetupMoves
  <2>5. CASE cmd.kind # "check" /\ ~cmd.dev /\ ~homes[cmd.home].root
    <3>1. Proceed("enroll")
      BY <1>10, <2>5 DEF InitializeGateway
    <3>2. QED
      BY <1>7, <1>10, <2>1, <2>5, <3>1 DEF SetupMoves
  <2>6. QED
    BY <2>2, <2>3, <2>4, <2>5
<1>11. CASE EnrollRoot
  <2>1. Proceed("activate") /\ cmd.at = "enroll"
    BY <1>11 DEF EnrollRoot, At
  <2>2. QED
    BY <1>7, <1>11, <2>1 DEF SetupMoves
<1>12. CASE ActivatePolicy
  <2>1. Proceed("assets") /\ cmd.at = "activate"
    BY <1>12 DEF ActivatePolicy, At
  <2>2. QED
    BY <1>7, <1>12, <2>1 DEF SetupMoves
<1>13. CASE LoadAssets
  <2>1. Proceed("endpoint") /\ cmd.at = "assets"
    BY <1>13 DEF LoadAssets, At
  <2>2. QED
    BY <1>7, <1>13, <2>1 DEF SetupMoves
<1>14. CASE EnsureEndpoint
  <2>1. Proceed("fleet") /\ cmd.at = "endpoint"
    BY <1>4, <1>14 DEF EnsureEndpoint, At
  <2>2. QED
    BY <1>7, <1>14, <2>1 DEF SetupMoves
<1>15. CASE FleetVerified
  <2>1. Proceed(AfterFleet) /\ cmd.at \in {"fleet", "fleet again"}
        /\ AfterFleet = IF cmd.at = "fleet" THEN "import" ELSE "preflight"
    BY <1>15 DEF FleetVerified, AfterFleet, At
  <2>2. CASE cmd.at = "fleet"
    BY <1>7, <1>15, <2>1, <2>2 DEF SetupMoves
  <2>3. CASE cmd.at = "fleet again"
    BY <1>7, <2>1, <2>3 DEF SetupMoves
  <2>4. QED
    BY <2>1, <2>2, <2>3
<1>16. CASE PollFleet
  <2>1. cmd' = [cmd EXCEPT !.polls = @ + 1]
    BY <1>4, <1>16 DEF PollFleet
  <2>2. Same /\ cmd'.at = cmd.at /\ cmd'.left = cmd.left
    BY <1>1, <2>1 DEF CommandType, Same
  <2>3. QED
    BY <2>2 DEF SetupMoves, Same
<1>17. CASE FinishImport
  <2>1. cmd.at = "import" /\ (Proceed(AfterImport) \/ (cmd.kind # "setup" /\ Note("recorded")))
    BY <1>4, <1>17 DEF FinishImport, At
  <2>2. CASE Proceed(AfterImport)
    <3>1. Same /\ cmd'.at = AfterImport /\ cmd'.left = cmd.left /\ cmd.kind = "setup" /\ ~cmd.failed
      BY <1>7, <2>2
    <3>2. AfterImport = "hooks"
      BY <3>1 DEF AfterImport
    <3>3. QED
      BY <2>1, <3>1, <3>2 DEF SetupMoves
  <2>3. CASE cmd.kind # "setup" /\ Note("recorded")
    BY <1>1, <2>3 DEF Note, CommandType
  <2>4. QED
    BY <2>1, <2>2, <2>3
<1>18. CASE InstallHooks \/ RemoveHooks
  <2>1. cmd'.at = cmd.at /\ Same
    BY <1>1, <1>18 DEF InstallHooks, RemoveHooks, CommandType, Same
  <2>2. cmd.kind = "setup" /\ ~cmd.failed
    BY <2>1 DEF Same
  <2>3. InstallHooks
    BY <1>18, <2>2 DEF RemoveHooks
  <2>4. QED
    BY <2>1, <2>2, <2>3 DEF SetupMoves
<1>19. CASE HooksInstalled
  <2>1. Proceed("save") /\ cmd.at = "hooks" /\ cmd.left = {}
    BY <1>19 DEF HooksInstalled, At
  <2>2. QED
    BY <1>7, <2>1 DEF SetupMoves
<1>20. CASE SaveState
  <2>1. cmd.at = "save" /\ Proceed(IF cmd.kind = "check" THEN "end" ELSE "emit")
    BY <1>20 DEF SaveState, At
  <2>2. QED
    BY <1>7, <1>20, <2>1 DEF SetupMoves
<1>21. CASE SelfCheck \/ ReadState \/ ReadStateFails \/ HooksRemoved \/ Purge \/ RemoveHooksFails
  <2>1. cmd.kind # "setup"
    BY <1>1, <1>21 DEF SelfCheck, ReadState, ReadStateFails, HooksRemoved, Purge, RemoveHooksFails, At, CommandOK
  <2>2. cmd'.kind = cmd.kind
    BY <1>1, <1>21 DEF SelfCheck, ReadState, ReadStateFails, HooksRemoved, Purge, RemoveHooksFails, Proceed, Note,
       CommandType
  <2>3. QED
    BY <2>1, <2>2
<1>22. CASE Emit
  <2>1. PICK sent \in BOOLEAN : cmd' = [cmd EXCEPT !.at = "fleet again", !.sent = sent]
    BY <1>22 DEF Emit
  <2>2. Same /\ cmd'.at = "fleet again" /\ cmd'.left = cmd.left /\ cmd.at = "emit"
    BY <1>1, <1>22, <2>1 DEF CommandType, Same, Emit, At
  <2>3. QED
    BY <1>22, <2>2 DEF SetupMoves, Same
<1>23. CASE Preflight
  <2>1. Proceed("alert") /\ cmd.at = "preflight"
    BY <1>4, <1>23 DEF Preflight, At
  <2>2. QED
    BY <1>7, <1>23, <2>1 DEF SetupMoves
<1>24. CASE Alert
  <2>1. Proceed("end") /\ cmd.at = "alert"
    BY <1>4, <1>24 DEF Alert, At
  <2>2. QED
    BY <1>7, <1>24, <2>1 DEF SetupMoves
<1>25. CASE StartImport \/ RunImport \/ RulesChange \/ UserEdits \/ AgentDrops \/ AgentReports
  BY <1>2, <1>25 DEF StartImport, RunImport, RulesChange, UserEdits, AgentDrops, AgentReports, Change
<1>26. CASE UNCHANGED vars
  BY <1>2, <1>26 DEF vars
<1>27. QED
  BY <1>3, <1>6, <1>8, <1>9, <1>10, <1>11, <1>12, <1>13, <1>14, <1>15, <1>16, <1>17, <1>18, <1>19,
     <1>20, <1>21, <1>22, <1>23, <1>24, <1>25, <1>26 DEF Next, CommandStep

\* The homes of a setup: what a step leaves of them, and what it puts there.
LEMMA SetupHome ==
  ASSUME StateOK, [Next]_vars, cmd.kind = "setup"
  PROVE  LET home == homes[cmd.home]
             new == homes'[cmd.home]
         IN /\ (home.there => new.there) /\ (home.root => new.root) /\ (home.active => new.active)
            /\ home.output = "elastic" => new.output = "elastic"
            /\ InitializeGateway \/ new.unsigned = home.unsigned
            /\ SaveState \/ (new.saved = home.saved /\ new.recorded = home.recorded)
            /\ Collect \/ InitializeGateway => new.there
            /\ InitializeGateway => new.output = "elastic" /\ new.unsigned = cmd.dev
            /\ EnrollRoot => new.root
            /\ ActivatePolicy => new.active
            /\ SaveState => new.saved /\ new.recorded = cmd.targets
<1>1. /\ cmd.home \in Homes /\ homes \in [Homes -> HomeType]
      /\ cmd.at # "purge" /\ cmd.at # "idle" /\ cmd.kind = "setup"
  BY DEF StateOK, CommandOK, CommandType, LocalOK
<1>2. homes[cmd.home] \in HomeType
  BY <1>1
<1>3. CASE UNCHANGED homes /\ ~InitializeGateway /\ ~EnrollRoot /\ ~ActivatePolicy /\ ~SaveState /\ ~Collect
  BY <1>3
<1>4. ASSUME NEW h, homes' = Created(h), ~InitializeGateway, ~EnrollRoot, ~ActivatePolicy, ~SaveState,
             Collect => h = cmd.home
      PROVE  LET home == homes[cmd.home]
                 new == homes'[cmd.home]
             IN /\ (home.there => new.there) /\ new.root = home.root /\ new.active = home.active
                /\ new.output = home.output /\ new.unsigned = home.unsigned
                /\ new.saved = home.saved /\ new.recorded = home.recorded
                /\ Collect => new.there
  <2>1. homes' = [homes EXCEPT ![h].there = TRUE]
    BY <1>4 DEF Created
  <2>2. CASE h = cmd.home
    <3>1. homes'[cmd.home] = [homes[cmd.home] EXCEPT !.there = TRUE]
      BY <1>1, <2>1, <2>2
    <3>2. QED
      BY <1>2, <3>1 DEF HomeType
  <2>3. CASE h # cmd.home
    <3>1. homes'[cmd.home] = homes[cmd.home]
      BY <1>1, <2>1, <2>3
    <3>2. QED
      BY <1>4, <2>3, <3>1
  <2>4. QED
    BY <2>2, <2>3
<1>5. CASE InitializeGateway
  <2>1. /\ cmd.at = "init"
        /\ homes' = [homes EXCEPT ![cmd.home].there = TRUE,
                            ![cmd.home].output = "elastic",
                            ![cmd.home].unsigned = cmd.dev]
    BY <1>1, <1>5 DEF InitializeGateway, At
  <2>2. homes'[cmd.home] = [homes[cmd.home] EXCEPT !.there = TRUE, !.output = "elastic", !.unsigned = cmd.dev]
    BY <1>1, <2>1
  <2>3. ~EnrollRoot /\ ~ActivatePolicy /\ ~SaveState
    BY <2>1 DEF EnrollRoot, ActivatePolicy, SaveState, At
  <2>4. QED
    BY <1>2, <1>5, <2>2, <2>3 DEF HomeType
<1>6. CASE EnrollRoot
  <2>1. cmd.at = "enroll" /\ homes' = [homes EXCEPT ![cmd.home].root = TRUE]
    BY <1>6 DEF EnrollRoot, At
  <2>2. homes'[cmd.home] = [homes[cmd.home] EXCEPT !.root = TRUE]
    BY <1>1, <2>1
  <2>3. ~InitializeGateway /\ ~ActivatePolicy /\ ~SaveState /\ ~Collect
    BY <2>1 DEF InitializeGateway, ActivatePolicy, SaveState, Collect, At
  <2>4. QED
    BY <1>2, <2>2, <2>3 DEF HomeType
<1>7. CASE ActivatePolicy
  <2>1. cmd.at = "activate" /\ homes' = [homes EXCEPT ![cmd.home].active = TRUE]
    BY <1>7 DEF ActivatePolicy, At
  <2>2. homes'[cmd.home] = [homes[cmd.home] EXCEPT !.active = TRUE]
    BY <1>1, <2>1
  <2>3. ~InitializeGateway /\ ~EnrollRoot /\ ~SaveState /\ ~Collect
    BY <2>1 DEF InitializeGateway, EnrollRoot, SaveState, Collect, At
  <2>4. QED
    BY <1>2, <2>2, <2>3 DEF HomeType
<1>8. CASE SaveState
  <2>1. cmd.at = "save" /\ homes' = [homes EXCEPT ![cmd.home].saved = TRUE, ![cmd.home].recorded = cmd.targets]
    BY <1>8 DEF SaveState, At
  <2>2. homes'[cmd.home] = [homes[cmd.home] EXCEPT !.saved = TRUE, !.recorded = cmd.targets]
    BY <1>1, <2>1
  <2>3. ~InitializeGateway /\ ~EnrollRoot /\ ~ActivatePolicy /\ ~Collect
    BY <2>1 DEF InitializeGateway, EnrollRoot, ActivatePolicy, Collect, At
  <2>4. QED
    BY <1>2, <1>8, <2>2, <2>3 DEF HomeType
<1>9. ~Purge
  BY <1>1 DEF Purge, At
<1>10. Collect => homes' = Created(cmd.home)
  BY DEF Collect
<1>11. CASE ~InitializeGateway /\ ~EnrollRoot /\ ~ActivatePolicy /\ ~SaveState
  <2>1. \/ UNCHANGED homes /\ ~Collect
        \/ \E h \in CheckHomes : homes' = Created(h) /\ ~Collect
        \/ homes' = Created(cmd.home)
    BY <1>9, <1>10, <1>11, HomesChange
  <2>2. QED
    BY <1>3, <1>4, <1>11, <2>1
<1>12. QED
  BY <1>5, <1>6, <1>7, <1>8, <1>11

\* What the lab has, it keeps.
LEMMA LabKeeps ==
  ASSUME StateOK, [Next]_vars
  PROVE  /\ (assets => assets') /\ (LoadAssets => assets')
         /\ (endpoints > 0 => endpoints' > 0) /\ (EnsureEndpoint => endpoints' > 0)
         /\ endpoints > 0 /\ agent.acked => agent'.acked
         /\ FleetVerified => agent'.acked
<1>1. /\ assets \in BOOLEAN /\ endpoints \in {0, 1}
      /\ agent \in [online : BOOLEAN, acked : BOOLEAN]
  BY DEF StateOK, LabOK
<1>2. CASE UNCHANGED <<assets, endpoints, agent>> /\ ~LoadAssets /\ ~EnsureEndpoint
  BY <1>2 DEF FleetVerified, Acknowledged
<1>3. CASE LoadAssets
  <2>1. assets' /\ UNCHANGED <<endpoints, agent>> /\ ~EnsureEndpoint /\ ~FleetVerified
    BY <1>3 DEF LoadAssets, EnsureEndpoint, FleetVerified, At
  <2>2. QED
    BY <2>1
<1>4. CASE EnsureEndpoint
  <2>1. UNCHANGED assets /\ ~LoadAssets /\ ~FleetVerified
    BY <1>4 DEF LoadAssets, EnsureEndpoint, FleetVerified, At
  <2>2. CASE endpoints > 0
    BY <1>4, <2>1, <2>2 DEF EnsureEndpoint, HasEndpoint
  <2>3. CASE ~(endpoints > 0)
    <3>1. endpoints = 0 /\ endpoints' = endpoints + 1
      BY <1>1, <1>4, <2>3 DEF EnsureEndpoint, HasEndpoint
    <3>2. QED
      BY <2>1, <3>1
  <2>4. QED
    BY <2>2, <2>3
<1>5. CASE AgentDrops \/ AgentReports
  <2>1. UNCHANGED <<assets, endpoints>> /\ (agent.acked => agent'.acked)
    BY <1>1, <1>5 DEF AgentDrops, AgentReports
  <2>2. (AgentReports => agent'.acked) /\ (AgentDrops => agent'.acked = agent.acked)
    BY <1>1 DEF AgentDrops, AgentReports
  <2>3. FleetVerified => agent.acked
    BY DEF FleetVerified, Acknowledged
  <2>4. (LoadAssets => assets') /\ (EnsureEndpoint => endpoints' > 0)
    BY <1>3, <1>4
  <2>5. QED
    BY <2>1, <2>2, <2>3, <2>4
<1>6. QED
  BY <1>2, <1>3, <1>4, <1>5 DEF Next, vars, local, elastic, bounds, Setup, RepositoryOnly, VerifyCommand,
     UninstallCommand, Begin, CommandStep, StageFails, ReadStateFails, RemoveHooksFails, Crash, RulesChange, Analyst,
     Collect, Select, InitializeGateway, EnrollRoot, ActivatePolicy, ImportStep,
     FleetVerified, PollFleet, StartImport, RunImport, FinishImport, InstallHooks, HooksInstalled, SaveState,
     SelfCheck, ReadState, RemoveHooks, HooksRemoved, Purge, Emit, Preflight, Alert, Return, UserEdits

LEMMA SetupStep ==
  StateOK /\ SetupOK /\ [Next]_vars => SetupOK'
<1>1. SUFFICES ASSUME StateOK, SetupOK, [Next]_vars, cmd'.kind = "setup", ~cmd'.failed PROVE SetupOK'
  BY DEF SetupOK
<1>2. SetupMoves
  BY <1>1, SetupMovesSo
<1>3. CASE cmd'.at = "collect" /\ cmd'.left = cmd'.targets
  BY <1>3 DEF SetupOK, NotCollected, NotConfigured, NotEnrolled, NotActive, NotSaved, NotHooked, NotReported,
     NotIntegrated, NotLoaded
<1>4. CASE cmd.kind = "setup" /\ ~cmd.failed /\ Same
  <2> DEFINE home == homes[cmd.home]
             new == homes'[cmd.home]
  <2>1. /\ (home.there => new.there) /\ (home.root => new.root) /\ (home.active => new.active)
        /\ home.output = "elastic" => new.output = "elastic"
        /\ InitializeGateway \/ new.unsigned = home.unsigned
        /\ SaveState \/ (new.saved = home.saved /\ new.recorded = home.recorded)
        /\ Collect \/ InitializeGateway => new.there
        /\ InitializeGateway => new.output = "elastic" /\ new.unsigned = cmd.dev
        /\ EnrollRoot => new.root
        /\ ActivatePolicy => new.active
        /\ SaveState => new.saved /\ new.recorded = cmd.targets
    BY <1>1, <1>4, SetupHome
  <2>2. /\ cmd.at \notin NotCollected => home.there
        /\ cmd.at \notin NotConfigured => home.output = "elastic" /\ home.unsigned = cmd.dev
        /\ cmd.at \notin NotEnrolled /\ ~cmd.dev => home.root
        /\ cmd.at \notin NotActive /\ ~cmd.dev => home.active
        /\ cmd.at \notin NotSaved => home.saved /\ home.recorded = cmd.targets
    BY <1>1, <1>4 DEF SetupOK
  <2>3. homes'[cmd'.home] = new /\ cmd'.dev = cmd.dev /\ cmd'.targets = cmd.targets
    BY <1>4 DEF Same
  <2>4. InitializeGateway => cmd.at = "init" /\ cmd'.at \in {"assets", "activate", "enroll"}
    <3>1. InitializeGateway => cmd.at = "init" /\ cmd'.at # "init" /\ cmd'.at # "collect"
      <4>1. ASSUME InitializeGateway PROVE cmd.at = "init" /\ \E stage \in Stages \ {"init", "collect"} : Proceed(stage)
        BY <4>1 DEF InitializeGateway, At, Stages
      <4>2. QED
        BY <1>1, <4>1, ProceedIs
    <3>2. QED
      BY <1>2, <3>1 DEF SetupMoves
  <2>5. SaveState => cmd.at = "save" /\ cmd'.at = "emit"
    <3>1. ASSUME SaveState PROVE cmd.at = "save" /\ Proceed("emit")
      BY <1>4, <3>1 DEF SaveState, At
    <3>2. QED
      BY <1>1, <3>1, ProceedIs
  <2>6. /\ cmd'.at \notin NotCollected => new.there
        /\ cmd'.at \notin NotConfigured => new.output = "elastic" /\ new.unsigned = cmd.dev
        /\ cmd'.at \notin NotEnrolled /\ ~cmd.dev => new.root
        /\ cmd'.at \notin NotActive /\ ~cmd.dev => new.active
        /\ cmd'.at \notin NotSaved => new.saved /\ new.recorded = cmd.targets
    <3> HIDE DEF home, new
    <3>1. cmd'.at \notin NotCollected => new.there
      BY <1>2, <2>1, <2>2 DEF SetupMoves, NotCollected
    <3>2. cmd'.at \notin NotConfigured => new.output = "elastic" /\ new.unsigned = cmd.dev
      BY <1>2, <2>1, <2>2, <2>4 DEF SetupMoves, NotCollected, NotConfigured
    <3>3. cmd'.at \notin NotEnrolled /\ ~cmd.dev => new.root
      BY <1>2, <2>1, <2>2 DEF SetupMoves, NotCollected, NotConfigured, NotEnrolled, home
    <3>4. cmd'.at \notin NotActive /\ ~cmd.dev => new.active
      BY <1>2, <2>1, <2>2 DEF SetupMoves, NotCollected, NotConfigured, NotEnrolled, NotActive
    <3>5. cmd'.at \notin NotSaved => new.saved /\ new.recorded = cmd.targets
      BY <1>2, <2>1, <2>2, <2>5 DEF SetupMoves, NotCollected, NotConfigured, NotEnrolled, NotActive, NotLoaded,
         NotIntegrated, NotReported, NotHooked, NotSaved
    <3>6. QED
      BY <3>1, <3>2, <3>3, <3>4, <3>5
  <2> HIDE DEF new
  <2>7. QED
    BY <2>3, <2>6 DEF SetupOK
<1>5. QED
  BY <1>2, <1>3, <1>4 DEF SetupMoves

LEMMA SetupLabStep ==
  StateOK /\ SetupLabOK /\ [Next]_vars => SetupLabOK'
<1>1. SUFFICES ASSUME StateOK, SetupLabOK, [Next]_vars, cmd'.kind = "setup", ~cmd'.failed PROVE SetupLabOK'
  BY DEF SetupLabOK
<1>2. SetupMoves
  BY <1>1, SetupMovesSo
<1>3. CASE cmd'.at = "collect" /\ cmd'.left = cmd'.targets
  BY <1>3 DEF SetupLabOK, NotCollected, NotConfigured, NotEnrolled, NotActive, NotLoaded, NotIntegrated, NotReported
<1>4. CASE cmd.kind = "setup" /\ ~cmd.failed /\ Same
  <2>1. /\ (assets => assets') /\ (LoadAssets => assets')
        /\ (endpoints > 0 => endpoints' > 0) /\ (EnsureEndpoint => endpoints' > 0)
        /\ endpoints > 0 /\ agent.acked => agent'.acked
        /\ FleetVerified => agent'.acked
    BY <1>1, LabKeeps
  <2>2. /\ cmd.at \notin NotLoaded => assets
        /\ cmd.at \notin NotIntegrated => endpoints > 0
        /\ cmd.at \notin NotReported => agent.acked
    BY <1>1, <1>4 DEF SetupLabOK
  <2>3. cmd'.at \notin NotLoaded => assets'
    BY <1>2, <2>1, <2>2 DEF SetupMoves, NotCollected, NotConfigured, NotEnrolled, NotActive, NotLoaded
  <2>4. cmd'.at \notin NotIntegrated => endpoints' > 0
    BY <1>2, <2>1, <2>2 DEF SetupMoves, NotCollected, NotConfigured, NotEnrolled, NotActive, NotLoaded, NotIntegrated
  <2>5. cmd.at \notin NotReported => cmd.at \notin NotIntegrated
    BY DEF NotReported
  <2>6. cmd'.at \notin NotReported => cmd.at \notin NotReported \/ FleetVerified
    BY <1>2 DEF SetupMoves, NotCollected, NotConfigured, NotEnrolled, NotActive, NotLoaded, NotIntegrated, NotReported
  <2>7. cmd'.at \notin NotReported => agent'.acked
    BY <2>1, <2>2, <2>5, <2>6
  <2>8. QED
    BY <2>3, <2>4, <2>7 DEF SetupLabOK
<1>5. QED
  BY <1>2, <1>3, <1>4 DEF SetupMoves

\* Which documents had something of ours is noted as setup starts.
LEMMA BeforeStays ==
  ASSUME [Next]_vars, cmd.kind # "none"
  PROVE  UNCHANGED before
<1>1. cmd # Idle
  BY DEF Idle
<1>2. QED
  BY <1>1 DEF Next, vars, bounds, Setup, RepositoryOnly, VerifyCommand, UninstallCommand, Begin, Crash,
     CommandStep, StageFails, ReadStateFails, RemoveHooksFails, RulesChange, UserEdits, AgentDrops, AgentReports, Change,
     Collect, Select, InitializeGateway, EnrollRoot, ActivatePolicy, LoadAssets, EnsureEndpoint,
     FleetVerified, PollFleet, StartImport, RunImport, InstallHooks, HooksInstalled, SaveState, FinishImport,
     SelfCheck, ReadState, RemoveHooks, HooksRemoved, Purge, Emit, Preflight, Alert, Return

LEMMA SetupHooksStep ==
  StateOK /\ SetupHooksOK /\ [Next]_vars => SetupHooksOK'
<1>1. SUFFICES ASSUME StateOK, SetupHooksOK, [Next]_vars, cmd'.kind = "setup", ~cmd'.failed PROVE SetupHooksOK'
  BY DEF SetupHooksOK
<1>2. SetupMoves
  BY <1>1, SetupMovesSo
<1>3. CASE /\ cmd'.at = "collect" /\ cmd'.left = cmd'.targets
           /\ UNCHANGED hooks /\ before' = {t \in Targets : ~Unhooked(hooks[t])}
  <2>1. \A t \in Targets \ before' : RunsHome(hooks'[t], cmd'.home)
    BY <1>3 DEF Unhooked, HasOurs, RunsHome
  <2>2. QED
    BY <1>3, <2>1 DEF SetupHooksOK, NotCollected, NotConfigured, NotEnrolled, NotActive, NotLoaded, NotIntegrated,
       NotReported, NotHooked
<1>4. CASE /\ cmd.kind = "setup" /\ ~cmd.failed /\ Same
           /\ \/ cmd'.at = cmd.at /\ (cmd'.left = cmd.left \/ InstallHooks)
              \/ cmd'.at # "collect" /\ cmd'.left = cmd.left
  <2>1. /\ cmd.at \notin NotHooked => cmd.left = {}
        /\ \A t \in cmd.targets : t \in cmd.left \/ Hooked(hooks[t])
        /\ \A t \in Targets \ before : RunsHome(hooks[t], cmd.home)
        /\ cmd.targets \subseteq Targets
    BY <1>1, <1>4 DEF SetupHooksOK, StateOK, CommandOK, CommandType
  <2>2. cmd'.targets = cmd.targets /\ cmd'.home = cmd.home /\ before' = before
    BY <1>1, <1>4, BeforeStays DEF Same
  <2>3. CASE InstallHooks
    <3>1. /\ cmd'.left = cmd.left \ {NextTarget} /\ cmd'.at = cmd.at /\ cmd.at = "hooks"
          /\ Hooked(hooks'[NextTarget])
          /\ RunsHome(hooks[NextTarget], cmd.home) => RunsHome(hooks'[NextTarget], cmd.home)
          /\ \A t \in Targets : t # NextTarget => hooks'[t] = hooks[t]
      BY <1>1, <2>3, HooksOfTargets DEF InstallHooks, At
    <3>2. \A t \in cmd.targets : t \in cmd'.left \/ Hooked(hooks'[t])
      BY <2>1, <3>1
    <3>3. \A t \in Targets \ before : RunsHome(hooks'[t], cmd.home)
      BY <2>1, <3>1
    <3>4. QED
      BY <2>2, <3>1, <3>2, <3>3 DEF SetupHooksOK, NotHooked
  <2>4. CASE ~InstallHooks
    <3>1. cmd'.left = cmd.left
      BY <1>4, <2>4
    <3>2. ~RemoveHooks
      BY <1>4 DEF RemoveHooks
    <3>3. CASE UNCHANGED hooks
      <4>1. /\ \A t \in Targets : Hooked(hooks[t]) => Hooked(hooks'[t])
            /\ \A t \in Targets : RunsHome(hooks[t], cmd.home) => RunsHome(hooks'[t], cmd.home)
        BY <3>3
      <4>2. cmd'.at \notin NotHooked => cmd.at \notin NotHooked \/ cmd.left = {}
        BY <1>2, <1>4, <2>4 DEF SetupMoves, NotCollected, NotConfigured, NotEnrolled, NotActive, NotLoaded, NotIntegrated,
           NotReported, NotHooked
      <4>3. QED
        BY <2>1, <2>2, <3>1, <4>1, <4>2 DEF SetupHooksOK
    <3>4. CASE UserEdits
      <4>1. /\ \A t \in Targets : Hooked(hooks[t]) => Hooked(hooks'[t])
            /\ \A t \in Targets : RunsHome(hooks[t], cmd.home) => RunsHome(hooks'[t], cmd.home)
        BY <1>1, <3>4, UserEditsIs DEF StateOK, Hooked
      <4>2. cmd' = cmd
        BY <3>4 DEF UserEdits, Change
      <4>3. QED
        BY <2>1, <2>2, <4>1, <4>2 DEF SetupHooksOK
    <3>5. QED
      BY <1>1, <2>4, <3>2, <3>3, <3>4, HooksChange
  <2>5. QED
    BY <2>3, <2>4
<1>5. QED
  BY <1>2, <1>3, <1>4 DEF SetupMoves

LEMMA SetupRulesStep ==
  StateOK /\ SetupRulesOK /\ [Next]_vars => SetupRulesOK'
<1>1. SUFFICES ASSUME StateOK, SetupRulesOK, [Next]_vars, cmd'.kind = "setup", ~cmd'.failed, ~disturbed',
                      cmd'.at \in {"alert", "end"}
               PROVE  SetupRulesOK'
  BY DEF SetupRulesOK
<1>2. /\ cmd.kind = "setup" /\ ~cmd.failed /\ cmd.at \in {"preflight", "alert", "end"}
      /\ cmd'.at = cmd.at \/ (Preflight /\ cmd.at = "preflight" /\ cmd'.at = "alert")
                          \/ (Alert /\ cmd.at = "alert" /\ cmd'.at = "end")
  BY <1>1, SetupMovesSo DEF SetupMoves
<1>3. UNCHANGED rules /\ ~disturbed
  <2>1. ~At("import") /\ ~FinishImport /\ cmd' # Idle
    BY <1>1, <1>2 DEF At, FinishImport, Idle
  <2>2. ~RulesChange
    BY <1>1 DEF RulesChange, Change
  <2>3. UNCHANGED rules
    BY <1>1, <2>1, <2>2, RulesChangeHow DEF Crash
  <2>4. ~disturbed
    <3>1. cmd # Idle
      BY <1>2 DEF Idle
    <3>2. QED
      BY <1>1, <3>1 DEF Next, vars, bounds, Setup, RepositoryOnly, VerifyCommand, UninstallCommand, Begin, Crash,
       CommandStep, StageFails, ReadStateFails, RemoveHooksFails, RulesChange, UserEdits, AgentDrops, AgentReports, Change,
       Collect, Select, InitializeGateway, EnrollRoot, ActivatePolicy, LoadAssets, EnsureEndpoint,
       FleetVerified, PollFleet, StartImport, RunImport, InstallHooks, HooksInstalled, SaveState, FinishImport,
       SelfCheck, ReadState, RemoveHooks, HooksRemoved, Purge, Emit, Preflight, Alert, Return
  <2>5. QED
    BY <2>3, <2>4
<1>4. Enabled(Rules)' = Enabled(Rules)
  BY <1>3 DEF Enabled
<1>5. CASE cmd'.at = cmd.at
  BY <1>1, <1>2, <1>3, <1>4, <1>5 DEF SetupRulesOK
<1>6. CASE Preflight /\ cmd.at = "preflight" /\ cmd'.at = "alert"
  <2>1. Enabled(Rules) = IF Asked(cmd.enable) THEN Rules ELSE {}
    <3>1. ~Stop
      BY <1>1, StopIs
    <3>2. QED
      BY <1>6, <3>1 DEF Preflight
  <2>2. QED
    BY <1>4, <1>6, <2>1 DEF SetupRulesOK
<1>7. CASE Alert /\ cmd.at = "alert" /\ cmd'.at = "end"
  <2>1. rules[AlertRule] = "enabled"
    <3>1. ~Stop
      BY <1>1, StopIs
    <3>2. QED
      BY <1>7, <3>1 DEF Alert
  <2>2. AlertRule \in Enabled(Rules)
    BY <2>1, OnboardingAssumption DEF Enabled
  <2>3. Enabled(Rules) = Rules
    BY <1>1, <1>2, <1>3, <1>7, <2>2 DEF SetupRulesOK
  <2>4. QED
    BY <1>4, <1>7, <2>3 DEF SetupRulesOK
<1>8. QED
  BY <1>2, <1>5, <1>6, <1>7

SetupInv == SetupOK /\ SetupLabOK /\ SetupHooksOK /\ SetupRulesOK

LEMMA SetupInvariance == Spec => []SetupInv
<1>1. Init => SetupInv
  <2>1. Init => cmd.kind = "none"
    BY DEF Init, Idle
  <2>2. cmd.kind = "none" => SetupInv
    BY DEF SetupInv, SetupOK, SetupLabOK, SetupHooksOK, SetupRulesOK
  <2>3. QED
    BY <2>1, <2>2
<1>2. StateOK /\ SetupInv /\ [Next]_vars => SetupInv'
  BY SetupStep, SetupLabStep, SetupHooksStep, SetupRulesStep DEF SetupInv
<1>3. QED
  BY <1>1, <1>2, StateInvariance, PTL DEF Spec

\* When setup passes, and nobody else changed anything, the home is what the mode
\* says, exports and is recorded; every event that was asked for has a hook of
\* ours, and in a document that had none before it runs this home; the agent has
\* the endpoint integration and the rules are on (onboarding.py setup).
THEOREM SetupsAreComplete == Spec => []SetupIsComplete
<1>1. SetupInv => SetupIsComplete
  <2>1. SUFFICES ASSUME SetupInv, cmd.kind = "setup", cmd.at = "end", ~cmd.failed, ~disturbed
                 PROVE  SetupIsComplete
    BY DEF SetupIsComplete, Passed, At
  <2>2. /\ cmd.at \notin NotCollected /\ cmd.at \notin NotConfigured /\ cmd.at \notin NotEnrolled
        /\ cmd.at \notin NotActive /\ cmd.at \notin NotLoaded /\ cmd.at \notin NotIntegrated
        /\ cmd.at \notin NotReported /\ cmd.at \notin NotHooked /\ cmd.at \notin NotSaved
    BY <2>1 DEF NotCollected, NotConfigured, NotEnrolled, NotActive, NotLoaded, NotIntegrated, NotReported,
       NotHooked, NotSaved
  <2>3. LET home == homes[cmd.home]
        IN /\ home.there /\ home.output = "elastic" /\ home.unsigned = cmd.dev
           /\ ~cmd.dev => home.root /\ home.active
           /\ home.saved /\ home.recorded = cmd.targets
    BY <2>1, <2>2 DEF SetupInv, SetupOK
  <2>4. assets /\ endpoints > 0 /\ agent.acked
    BY <2>1, <2>2 DEF SetupInv, SetupLabOK
  <2>5. /\ \A t \in cmd.targets : Hooked(hooks[t])
        /\ \A t \in Targets \ before : RunsHome(hooks[t], cmd.home)
    BY <2>1, <2>2 DEF SetupInv, SetupHooksOK
  <2>6. Enabled(Rules) = Rules
    BY <2>1 DEF SetupInv, SetupRulesOK
  <2>7. QED
    BY <2>3, <2>4, <2>5, <2>6 DEF SetupIsComplete
<1>2. QED
  BY <1>1, SetupInvariance, PTL

-----------------------------------------------------------------------------
(* Uninstall.                                                              *)

\* How an uninstall came to where it is.
UninstallMoves ==
  \/ /\ UNCHANGED <<config, hooks>> /\ cmd'.at \in {"import", "recorded"}
     /\ cmd'.at = "recorded" => ~config.there
  \/ /\ cmd.kind = "uninstall" /\ cmd'.home = cmd.home /\ cmd'.purge = cmd.purge
     /\ cmd.failed => cmd'.failed
     /\ \/ cmd'.at = cmd.at /\ cmd'.left = cmd.left /\ cmd'.targets = cmd.targets
        \/ cmd.at = "import" /\ cmd'.at = "recorded" /\ (~cmd'.failed => job.at = "passed")
        \/ /\ cmd.at = "recorded" /\ cmd'.at = "hooks"
           /\ cmd'.left = Recorded(cmd.home) /\ cmd'.targets = Recorded(cmd.home)
        \/ RemoveHooks /\ cmd.at = "hooks" /\ cmd'.at = "hooks"
        \/ cmd'.failed /\ cmd.at \in {"recorded", "hooks"} /\ cmd'.at = "hooks"
        \/ /\ cmd.at = "hooks" /\ cmd.left = {} /\ cmd'.left = {} /\ cmd'.targets = cmd.targets
           /\ cmd'.at = IF cmd.purge THEN "purge" ELSE "end"
        \/ cmd.at = "purge" /\ cmd'.left = cmd.left /\ cmd'.targets = cmd.targets /\ cmd'.at = "end"

LEMMA UninstallMovesSo ==
  ASSUME StateOK, [Next]_vars, cmd'.kind = "uninstall"
  PROVE  UninstallMoves
<1>1. cmd \in CommandType /\ CommandOK
  BY DEF StateOK, CommandOK
<1>2. CASE UNCHANGED cmd
  BY <1>1, <1>2 DEF UninstallMoves, CommandOK
<1>3. CASE Setup \/ RepositoryOnly \/ VerifyCommand \/ UninstallCommand
  BY <1>3, Begins DEF UninstallMoves
<1>4. ASSUME cmd'.kind = cmd.kind PROVE cmd.kind = "uninstall" /\ cmd.at \in {"import", "recorded", "hooks", "purge", "end"}
  BY <1>1, <1>4 DEF CommandOK
<1>5. ASSUME cmd' = Idle PROVE FALSE
  BY <1>5 DEF Idle
<1>6. ASSUME NEW stage, Proceed(stage) PROVE Same /\ cmd'.at = stage /\ cmd'.left = cmd.left /\ cmd.kind = "uninstall"
  BY <1>6, ProceedIs DEF Same
<1>7. ASSUME Stop PROVE cmd.kind = "uninstall"
  BY <1>7, StopIs
<1>8. ASSUME NEW stage, Note(stage)
      PROVE  cmd'.failed /\ cmd'.at = stage /\ cmd'.kind = cmd.kind /\ cmd'.home = cmd.home /\ cmd'.left = cmd.left
             /\ cmd.kind = "uninstall" /\ cmd'.purge = cmd.purge /\ cmd'.targets = cmd.targets
  BY <1>1, <1>8 DEF Note, CommandType
<1>9. ~StageFails
  BY <1>4, <1>7 DEF StageFails, At, Stop, CommandType
<1>10. ~(Collect \/ Select \/ EnrollRoot \/ ActivatePolicy \/ LoadAssets \/ SelfCheck)
  <2>1. ASSUME Collect \/ Select \/ EnrollRoot \/ ActivatePolicy \/ LoadAssets \/ SelfCheck PROVE FALSE
    <3>1. PICK stage \in Stages : Proceed(stage)
      BY <2>1 DEF Collect, Select, EnrollRoot, ActivatePolicy, LoadAssets, SelfCheck, Stages
    <3>2. cmd.at \in {"import", "recorded", "hooks", "purge", "end"}
      BY <1>4, <1>6, <3>1 DEF Same
    <3>3. QED
      BY <2>1, <3>2 DEF Collect, Select, EnrollRoot, ActivatePolicy, LoadAssets, SelfCheck, At
  <2>2. QED
    BY <2>1
<1>11. ~(InitializeGateway \/ FleetVerified \/ SaveState)
  <2>1. ASSUME InitializeGateway \/ FleetVerified \/ SaveState PROVE FALSE
    <3>1. cmd.at \in {"init", "fleet", "fleet again", "save"}
      BY <2>1 DEF InitializeGateway, FleetVerified, SaveState, At
    <3>2. \/ Proceed(IF cmd.kind = "check" THEN "self-check"
                     ELSE IF cmd.dev THEN "assets" ELSE IF homes[cmd.home].root THEN "activate" ELSE "enroll")
          \/ Proceed(AfterFleet)
          \/ Proceed(IF cmd.kind = "check" THEN "end" ELSE "emit")
      BY <2>1 DEF InitializeGateway, FleetVerified, SaveState
    <3>3. Same
      BY <1>6, <3>2
    <3>4. QED
      BY <1>4, <3>1, <3>3 DEF Same
  <2>2. QED
    BY <2>1
<1>12. ~(EnsureEndpoint \/ PollFleet \/ Preflight \/ Alert \/ Emit)
  <2>1. ASSUME EnsureEndpoint \/ PollFleet \/ Preflight \/ Alert \/ Emit PROVE FALSE
    <3>1. cmd.at \in {"endpoint", "fleet", "fleet again", "preflight", "alert", "emit"}
      BY <2>1 DEF EnsureEndpoint, PollFleet, Preflight, Alert, Emit, At
    <3>2. cmd'.kind = cmd.kind
      BY <1>1, <2>1 DEF EnsureEndpoint, PollFleet, Preflight, Alert, Emit, Proceed, Stop, CommandType
    <3>3. QED
      BY <1>4, <3>1, <3>2
  <2>2. QED
    BY <2>1
<1>13. CASE FinishImport
  <2>1. cmd.at = "import" /\ job.at \in {"passed", "failed"}
    BY <1>13 DEF FinishImport, At
  <2>2. CASE job.at = "passed"
    <3>1. Proceed(AfterImport)
      BY <1>13, <2>2 DEF FinishImport
    <3>2. Same /\ cmd'.at = AfterImport /\ cmd'.left = cmd.left /\ cmd.kind = "uninstall"
      BY <1>6, <3>1
    <3>3. AfterImport = "recorded"
      BY <3>2 DEF AfterImport
    <3>4. QED
      BY <2>1, <2>2, <3>2, <3>3 DEF UninstallMoves, Same
  <2>3. CASE job.at # "passed"
    <3>1. Note("recorded")
      <4>1. IF cmd.kind = "setup" THEN Stop ELSE Note("recorded")
        BY <1>13, <2>3 DEF FinishImport
      <4>2. QED
        BY <1>7, <4>1
    <3>2. QED
      BY <1>8, <2>1, <3>1 DEF UninstallMoves
  <2>4. QED
    BY <2>2, <2>3
<1>14. CASE InstallHooks \/ RemoveHooks
  <2>1. cmd'.kind = cmd.kind /\ cmd'.at = cmd.at /\ cmd'.home = cmd.home /\ cmd'.failed = cmd.failed
        /\ cmd'.purge = cmd.purge
    BY <1>1, <1>14 DEF InstallHooks, RemoveHooks, CommandType
  <2>2. cmd.kind = "uninstall"
    BY <1>4, <2>1
  <2>3. RemoveHooks /\ cmd.at = "hooks"
    BY <1>14, <2>2 DEF InstallHooks, RemoveHooks, At
  <2>4. QED
    BY <2>1, <2>2, <2>3 DEF UninstallMoves
<1>15. CASE RemoveHooksFails
  <2>1. cmd'.kind = cmd.kind /\ cmd'.at = cmd.at /\ cmd'.home = cmd.home /\ cmd'.failed /\ cmd.at = "hooks"
        /\ cmd'.purge = cmd.purge
    BY <1>1, <1>15 DEF RemoveHooksFails, CommandType, At
  <2>2. QED
    BY <1>4, <2>1 DEF UninstallMoves
<1>16. CASE HooksInstalled
  <2>1. cmd.kind = "setup" /\ Proceed("save")
    BY <1>16 DEF HooksInstalled
  <2>2. QED
    BY <1>6, <2>1
<1>17. CASE ReadState
  <2>1. cmd'.kind = cmd.kind /\ cmd'.at = "hooks" /\ cmd'.home = cmd.home /\ cmd'.failed = cmd.failed
        /\ cmd'.left = Recorded(cmd.home) /\ cmd'.targets = Recorded(cmd.home) /\ cmd.at = "recorded"
        /\ cmd'.purge = cmd.purge
    BY <1>1, <1>17 DEF ReadState, CommandType, At
  <2>2. QED
    BY <1>4, <2>1 DEF UninstallMoves
<1>18. CASE HooksRemoved
  <2>1. /\ cmd.at = "hooks" /\ cmd.left = {}
        /\ Proceed(IF cmd.purge THEN "purge" ELSE "end")
    BY <1>18 DEF HooksRemoved, At
  <2>2. Same /\ cmd'.at = (IF cmd.purge THEN "purge" ELSE "end") /\ cmd'.left = cmd.left
        /\ cmd.kind = "uninstall"
    BY <1>6, <2>1
  <2>3. QED
    BY <2>1, <2>2 DEF UninstallMoves, Same
<1>19. CASE Purge
  <2>1. cmd.at = "purge" /\ (Proceed("end") \/ Note("end"))
    BY <1>19 DEF Purge, At
  <2>2. cmd'.at = "end" /\ cmd'.left = cmd.left /\ cmd'.home = cmd.home /\ cmd.kind = "uninstall"
        /\ (cmd.failed => cmd'.failed) /\ cmd'.purge = cmd.purge /\ cmd'.targets = cmd.targets
    BY <1>6, <1>8, <2>1 DEF Same
  <2>3. QED
    BY <2>1, <2>2 DEF UninstallMoves
<1>20. CASE Return \/ Crash
  BY <1>5, <1>20 DEF Return, Crash
<1>21. CASE StartImport \/ RunImport \/ RulesChange \/ UserEdits \/ AgentDrops \/ AgentReports
  BY <1>2, <1>21 DEF StartImport, RunImport, RulesChange, UserEdits, AgentDrops, AgentReports, Change
<1>22. CASE UNCHANGED vars
  BY <1>2, <1>22 DEF vars
<1>23. CASE ReadStateFails
  <2>1. cmd.at = "recorded" /\ Note("hooks")
    BY <1>23 DEF ReadStateFails, At
  <2>2. QED
    BY <1>8, <2>1 DEF UninstallMoves
<1>24. QED
  BY <1>3, <1>9, <1>10, <1>11, <1>12, <1>13, <1>14, <1>15, <1>16, <1>17, <1>18, <1>19, <1>20, <1>21, <1>22,
     <1>23 DEF Next, CommandStep

\* A record outlives an uninstall, unless it purges the home.
LEMMA RecordsStay ==
  ASSUME StateOK, [Next]_vars, cmd.kind = "uninstall", ~Purge
  PROVE  UNCHANGED homes
<1>1. cmd.at \in {"import", "recorded", "hooks", "purge", "end"} /\ cmd # Idle
  BY DEF StateOK, CommandOK, Idle
<1>2. /\ ~RepositoryOnly /\ ~Collect /\ ~Emit /\ ~InitializeGateway /\ ~EnrollRoot /\ ~ActivatePolicy
      /\ ~SaveState
  BY <1>1 DEF RepositoryOnly, Begin, Collect, Emit, InitializeGateway, EnrollRoot, ActivatePolicy, SaveState, At
<1>3. QED
  BY <1>2, HomesChange

\* What a step makes of the hooks.
LEMMA HooksUnlessInstalled ==
  ASSUME StateOK, [Next]_vars
  PROVE  \A t \in Targets : Unhooked(hooks[t]) =>
           Unhooked(hooks'[t]) \/ (InstallHooks /\ cmd.kind = "setup" /\ cmd.at = "hooks" /\ t \in cmd.left)
<1>1. CASE UNCHANGED hooks
  BY <1>1
<1>2. CASE InstallHooks
  <2>1. /\ NextTarget \in cmd.left /\ \A t \in Targets : t # NextTarget => hooks'[t] = hooks[t]
        /\ cmd.kind = "setup" /\ cmd.at = "hooks"
    BY <1>2, HooksOfTargets DEF InstallHooks, At
  <2>2. QED
    BY <1>2, <2>1
<1>3. CASE RemoveHooks
  <2>1. Unhooked(hooks'[NextTarget]) /\ \A t \in Targets : t # NextTarget => hooks'[t] = hooks[t]
    BY <1>3, HooksOfTargets
  <2>2. QED
    BY <2>1
<1>4. CASE UserEdits
  BY <1>4, UserEditsIs DEF StateOK, Unhooked
<1>5. QED
  BY <1>1, <1>2, <1>3, <1>4, HooksChange

\* While a command runs nobody undoes the notice that something was changed.
LEMMA StaysUndisturbed ==
  ASSUME StateOK, [Next]_vars, cmd.kind # "none", ~disturbed'
  PROVE  ~disturbed
<1>1. cmd # Idle
  BY DEF Idle
<1>2. QED
  BY <1>1 DEF Next, vars, bounds, Setup, RepositoryOnly, VerifyCommand, UninstallCommand, Begin, Crash,
     CommandStep, StageFails, ReadStateFails, RemoveHooksFails, RulesChange, UserEdits, AgentDrops, AgentReports, Change,
     Collect, Select, InitializeGateway, EnrollRoot, ActivatePolicy, LoadAssets, EnsureEndpoint,
     FleetVerified, PollFleet, StartImport, RunImport, InstallHooks, HooksInstalled, SaveState, FinishImport,
     SelfCheck, ReadState, RemoveHooks, HooksRemoved, Purge, Emit, Preflight, Alert, Return

\* Who leaves the import stage, or is not at it, leaves the rules alone.
LEMMA RulesOfOthers ==
  ASSUME StateOK, [Next]_vars, ~disturbed', cmd'.kind # "none",
         cmd.at = "import" => cmd'.at # "import"
  PROVE  UNCHANGED rules
<1>1. ~RulesChange /\ ~Crash
  BY DEF RulesChange, Change, Crash, Idle
<1>2. ~(At("import") /\ UNCHANGED cmd)
  BY DEF At
<1>3. FinishImport => UNCHANGED rules
  BY DEF FinishImport
<1>4. QED
  BY <1>1, <1>2, <1>3, RulesChangeHow

LEMMA UninstallStep ==
  StateOK /\ ImportOK /\ UninstallOK /\ [Next]_vars => UninstallOK'
<1>1. SUFFICES ASSUME StateOK, ImportOK, UninstallOK, [Next]_vars, cmd'.kind = "uninstall"
               PROVE  UninstallOK'
  BY DEF UninstallOK
<1>2. UninstallMoves
  BY <1>1, UninstallMovesSo
<1>3. CASE /\ UNCHANGED <<config, hooks>> /\ cmd'.at \in {"import", "recorded"}
           /\ cmd'.at = "recorded" => ~config.there
  BY <1>3 DEF UninstallOK
<1>4. CASE /\ cmd.kind = "uninstall" /\ cmd'.home = cmd.home /\ cmd'.purge = cmd.purge
           /\ cmd.failed => cmd'.failed
           /\ ~(UNCHANGED <<config, hooks>> /\ cmd'.at \in {"import", "recorded"}
                /\ (cmd'.at = "recorded" => ~config.there))
  <2>1. /\ cmd.at = "purge" => cmd.purge
        /\ cmd.at \in {"purge", "end"} => cmd.left = {}
        /\ cmd.at \in {"hooks", "purge", "end"} /\ ~cmd.failed =>
             /\ \A t \in cmd.targets : t \in cmd.left \/ Unhooked(hooks[t])
             /\ (cmd.at = "end" /\ cmd.purge) \/ cmd.targets = Recorded(cmd.home)
        /\ config.there /\ cmd.at # "import" /\ ~cmd.failed /\ ~disturbed =>
             Enabled(Rules) = IF Asked(FALSE) THEN Rules ELSE {}
        /\ cmd.targets \subseteq Targets /\ Recorded(cmd.home) \subseteq Targets
    BY <1>1, <1>4 DEF UninstallOK, StateOK, CommandOK, CommandType, LocalOK, HomeType, Recorded
  <2>2. UNCHANGED config
    <3>1. ~Collect
      BY <1>1, <1>4 DEF StateOK, CommandOK, Collect, At
    <3>2. QED
      BY <1>1, <3>1, ConfigChanges
  <2>3. \A t \in Targets : Unhooked(hooks[t]) => Unhooked(hooks'[t])
    BY <1>1, <1>4, HooksUnlessInstalled
  <2>4. (cmd'.at = "purge" => cmd'.purge) /\ (cmd'.at \in {"purge", "end"} => cmd'.left = {})
    BY <1>2, <1>4, <2>1 DEF UninstallMoves
  <2>5. cmd'.at \in {"hooks", "purge", "end"} /\ ~cmd'.failed =>
          /\ \A t \in cmd'.targets : t \in cmd'.left \/ Unhooked(hooks'[t])
          /\ (cmd'.at = "end" /\ cmd'.purge) \/ cmd'.targets = Recorded(cmd.home)
    <3>1. SUFFICES ASSUME cmd'.at \in {"hooks", "purge", "end"}, ~cmd'.failed
                   PROVE  /\ \A t \in cmd'.targets : t \in cmd'.left \/ Unhooked(hooks'[t])
                          /\ (cmd'.at = "end" /\ cmd'.purge) \/ cmd'.targets = Recorded(cmd.home)
      OBVIOUS
    <3>2. CASE cmd'.at = cmd.at /\ cmd'.left = cmd.left /\ cmd'.targets = cmd.targets
      BY <1>4, <2>1, <2>3, <3>1, <3>2
    <3>3. CASE cmd'.left = Recorded(cmd.home) /\ cmd'.targets = Recorded(cmd.home)
      BY <3>3
    <3>4. CASE RemoveHooks /\ cmd.at = "hooks" /\ cmd'.at = "hooks"
      <4>1. cmd'.left = cmd.left \ {NextTarget} /\ Unhooked(hooks'[NextTarget]) /\ cmd'.targets = cmd.targets
        BY <1>1, <3>4, HooksOfTargets
      <4>2. /\ \A t \in cmd.targets : t \in cmd.left \/ Unhooked(hooks[t])
            /\ cmd.targets = Recorded(cmd.home)
        BY <1>4, <2>1, <3>1, <3>4
      <4>3. QED
        BY <2>1, <2>3, <4>1, <4>2
    <3>5. CASE /\ cmd.at = "hooks" /\ cmd.left = {} /\ cmd'.left = {} /\ cmd'.targets = cmd.targets
               /\ cmd'.at = IF cmd.purge THEN "purge" ELSE "end"
      BY <1>4, <2>1, <2>3, <3>1, <3>5
    <3>6. CASE cmd.at = "purge" /\ cmd'.left = cmd.left /\ cmd'.targets = cmd.targets /\ cmd'.at = "end"
      BY <1>4, <2>1, <2>3, <3>1, <3>6
    <3>7. QED
      BY <1>2, <1>4, <3>1, <3>2, <3>3, <3>4, <3>5, <3>6 DEF UninstallMoves
  <2>6. (cmd'.at = "end" /\ cmd'.purge) \/ Recorded(cmd.home)' = Recorded(cmd.home)
    <3>1. CASE Purge
      <4>1. cmd.at = "purge" /\ cmd'.at = "end"
        BY <1>1, <3>1 DEF Purge, At, Proceed, Note, StateOK, CommandOK, CommandType
      <4>2. QED
        BY <1>4, <2>1, <4>1
    <3>2. CASE ~Purge
      BY <1>1, <1>4, <3>2, RecordsStay DEF Recorded
    <3>3. QED
      BY <3>1, <3>2
  <2>7. config'.there /\ cmd'.at # "import" /\ ~cmd'.failed /\ ~disturbed' =>
          Enabled(Rules)' = IF Asked(FALSE) THEN Rules ELSE {}
    <3>1. SUFFICES ASSUME config'.there, cmd'.at # "import", ~cmd'.failed, ~disturbed'
                   PROVE  Enabled(Rules)' = IF Asked(FALSE) THEN Rules ELSE {}
      OBVIOUS
    <3>2. ~disturbed
      BY <1>1, <1>4, <3>1, StaysUndisturbed
    <3>3. CASE cmd.at = "import"
      <4>1. job.at = "passed" /\ cmd'.at = "recorded"
        BY <1>2, <1>4, <3>1, <3>3 DEF UninstallMoves
      <4>2. job.enable = Asked(FALSE)
        BY <1>1, <1>4, <4>1 DEF ImportOK, WantsRules
      <4>3. \A r \in Rules : rules[r] = IF job.enable THEN "enabled" ELSE "disabled"
        BY <1>1, <3>2, <4>1 DEF ImportOK, ImportIsExact
      <4>4. UNCHANGED rules
        BY <1>1, <1>4, <3>1, <3>3, <4>1, RulesOfOthers
      <4>5. QED
        BY <4>2, <4>3, <4>4 DEF Enabled
    <3>4. CASE cmd.at # "import"
      <4>1. Enabled(Rules) = IF Asked(FALSE) THEN Rules ELSE {}
        BY <1>4, <2>1, <2>2, <3>1, <3>2, <3>4
      <4>2. UNCHANGED rules
        BY <1>1, <1>4, <3>1, <3>4, RulesOfOthers
      <4>3. QED
        BY <4>1, <4>2 DEF Enabled
    <3>5. QED
      BY <3>3, <3>4
  <2>8. QED
    BY <1>4, <2>4, <2>5, <2>6, <2>7 DEF UninstallOK
<1>5. QED
  BY <1>2, <1>3, <1>4 DEF UninstallMoves

\* When uninstall passes, whichever commands were run or died before, no handler of
\* ours is left in a document that the record of the home names, or in any document
\* when there is no record; and when there is a configuration no rule is enabled,
\* unless ENABLE_RULES=true is exported: then all are (onboarding.py uninstall).
THEOREM UninstallsAreComplete == Spec => []UninstallIsComplete
<1>1. Init => UninstallOK
  <2>1. Init => cmd.kind = "none"
    BY DEF Init, Idle
  <2>2. QED
    BY <2>1 DEF UninstallOK
<1>2. StateOK /\ ImportOK /\ UninstallOK /\ [Next]_vars => UninstallOK'
  BY UninstallStep
<1>3. StateOK /\ UninstallOK => UninstallIsComplete
  <2>1. SUFFICES ASSUME StateOK, UninstallOK, cmd.kind = "uninstall", cmd.at = "end", ~cmd.failed, ~disturbed
                 PROVE  UninstallIsComplete
    BY DEF UninstallIsComplete, Passed, At
  <2>2. /\ \A t \in cmd.targets : Unhooked(hooks[t])
        /\ cmd.purge \/ cmd.targets = Recorded(cmd.home)
    BY <2>1 DEF UninstallOK
  <2>3. \A t \in Targets : Unhooked(hooks[t]) \/ Overlooked(t)
    BY <2>2 DEF Overlooked, Recorded
  <2>4. config.there => Enabled(Rules) = IF Asked(FALSE) THEN Rules ELSE {}
    BY <2>1 DEF UninstallOK
  <2>5. QED
    BY <2>3, <2>4 DEF UninstallIsComplete
<1>4. QED
  BY <1>1, <1>2, <1>3, StateInvariance, ImportInvariance, PTL DEF Spec
=============================================================================
