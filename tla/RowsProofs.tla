----------------------------- MODULE RowsProofs ------------------------------
(***************************************************************************)
(* What holds of the rows of the three deciders, for texts, options and    *)
(* windows of any size.                                                    *)
(*                                                                         *)
(* Rows are concatenations, and three definitions of Rows run over a whole *)
(* sequence: Total, Only and FlattenSeq.  What they compute is an          *)
(* induction over the sequence; it is done over the set of the lengths     *)
(* for which the fact holds (SetInduction).                                *)
(***************************************************************************)
EXTENDS Rows, SequenceTheorems, FiniteSetTheorems, WellFoundedInduction, TLAPS

-----------------------------------------------------------------------------
(* Induction                                                               *)

\* Any naturals there are have a least one.
LEMMA LeastOne ==
  ASSUME NEW T, T \subseteq Nat, T # {}
  PROVE  \E x \in T : \A y \in T : x <= y
PROOF
  <1>1. PICK R : R = OpToRel(<, Nat)
    OBVIOUS
  <1>2. IsWellFoundedOn(R, Nat)
    BY <1>1, NatLessThanWellFounded, Zenon
  <1>3. PICK x \in T : \A y \in T : ~ (<<y, x>> \in R)
    BY <1>2, WFMin
  <1>4. \A y, z \in Nat : y < z => <<y, z>> \in R
    BY <1>1 DEF OpToRel
  <1>5. ASSUME NEW y \in T PROVE x <= y
    <2>1. x \in Nat /\ y \in Nat /\ ~ (y < x)
      BY <1>3, <1>4
    <2>. QED
      BY <2>1
  <1>. QED
    BY <1>5

\* Induction over the naturals, for a set.
LEMMA SetInduction ==
  ASSUME NEW T, 0 \in T, \A n \in Nat : n \in T => n + 1 \in T
  PROVE  \A n \in Nat : n \in T
PROOF
  <1>. SUFFICES ASSUME Nat \ T # {} PROVE FALSE
    OBVIOUS
  <1>1. PICK x \in Nat \ T : \A y \in Nat \ T : x <= y
    BY LeastOne
  <1>2. x # 0 /\ x \in Nat
    BY <1>1
  <1>3. x - 1 \in Nat /\ x - 1 + 1 = x /\ ~ (x <= x - 1)
    BY <1>2
  <1>4. x - 1 \in T
    BY <1>1, <1>3
  <1>. QED
    BY <1>1, <1>3, <1>4

-----------------------------------------------------------------------------
(* Recursion                                                               *)

\* f starts at base and takes n steps.
Runs(f, n, base, step) ==
  f[0] = base /\ \A k \in 1..n : f[k] = step[k][f[k - 1]]

\* Whatever the steps, there is such a function.
LEMMA RunExists ==
  ASSUME NEW V, NEW n \in Nat, NEW base \in V, NEW step \in [1..n -> [V -> V]]
  PROVE  \E f \in [0..n -> V] : Runs(f, n, base, step)
PROOF
  <1>. DEFINE T == {m \in Nat : m <= n => \E f \in [0..m -> V] : Runs(f, m, base, step)}
  <1>1. 0 \in T
    <2>1. [k \in 0..0 |-> base] \in [0..0 -> V]
      OBVIOUS
    <2>2. Runs([k \in 0..0 |-> base], 0, base, step)
      BY DEF Runs
    <2>. QED
      BY <2>1, <2>2
  <1>2. ASSUME NEW m \in Nat, m \in T PROVE m + 1 \in T
    <2>. SUFFICES ASSUME m + 1 <= n
                  PROVE  \E f \in [0..(m + 1) -> V] : Runs(f, m + 1, base, step)
      OBVIOUS
    <2>1. PICK f \in [0..m -> V] : Runs(f, m, base, step)
      BY <1>2
    <2>. DEFINE g == [k \in 0..(m + 1) |-> IF k <= m THEN f[k] ELSE step[m + 1][f[m]]]
    <2>2. f[m] \in V /\ step[m + 1] \in [V -> V]
      BY <2>1
    <2>3. g \in [0..(m + 1) -> V]
      BY <2>1, <2>2
    <2>4. ASSUME NEW k \in 1..(m + 1) PROVE g[k] = step[k][g[k - 1]]
      <3>1. CASE k \in 1..m
        <4>1. f[k] = step[k][f[k - 1]]
          BY <2>1, <3>1 DEF Runs
        <4>2. g[k] = f[k] /\ g[k - 1] = f[k - 1]
          BY <3>1
        <4>. QED
          BY <4>1, <4>2
      <3>2. CASE k = m + 1
        BY <3>2
      <3>. QED
        BY <3>1, <3>2
    <2>5. g[0] = base
      BY <2>1 DEF Runs
    <2>. HIDE DEF g
    <2>. QED
      BY <2>3, <2>4, <2>5 DEF Runs
  <1>. HIDE DEF T
  <1>3. n \in T
    BY <1>1, <1>2, SetInduction
  <1>. QED
    BY <1>3 DEF T

\* And only one.
LEMMA RunsAgree ==
  ASSUME NEW n \in Nat, NEW base, NEW step, NEW f, NEW g,
         Runs(f, n, base, step), Runs(g, n, base, step)
  PROVE  f[n] = g[n]
PROOF
  <1>. DEFINE T == {k \in Nat : k <= n => f[k] = g[k]}
  <1>1. 0 \in T
    BY DEF Runs
  <1>2. ASSUME NEW k \in Nat, k \in T PROVE k + 1 \in T
    <2>. SUFFICES ASSUME k + 1 <= n PROVE f[k + 1] = g[k + 1]
      OBVIOUS
    <2>1. f[k] = g[k] /\ k + 1 \in 1..n /\ k + 1 - 1 = k
      BY <1>2
    <2>2. f[k + 1] = step[k + 1][f[k + 1 - 1]] /\ g[k + 1] = step[k + 1][g[k + 1 - 1]]
      BY <2>1 DEF Runs
    <2>. QED
      BY <2>1, <2>2
  <1>. HIDE DEF T
  <1>3. n \in T
    BY <1>1, <1>2, SetInduction
  <1>. QED
    BY <1>3 DEF T

\* One step more.
LEMMA RunsGoOn ==
  ASSUME NEW n \in Nat, NEW m, m = n + 1, NEW base, NEW short, NEW long, NEW f, NEW g,
         Runs(f, n, base, short), Runs(g, m, base, long),
         \A k \in 1..n : long[k] = short[k]
  PROVE  g[m] = long[m][f[n]]
PROOF
  <1>1. m \in 1..m /\ m - 1 = n /\ \A k \in 1..n : k \in 1..m
    OBVIOUS
  <1>2. g[0] = base /\ \A k \in 1..m : g[k] = long[k][g[k - 1]]
    BY DEF Runs
  <1>3. Runs(g, n, base, short)
    BY <1>1, <1>2 DEF Runs
  <1>4. f[n] = g[n]
    BY <1>3, RunsAgree
  <1>. QED
    BY <1>1, <1>2, <1>4

-----------------------------------------------------------------------------
(* Total                                                                   *)

Adding(lens) == [k \in 1..Len(lens) |-> [a \in Int |-> a + lens[k]]]

\* Total is where the running sum ends.
LEMMA TotalRuns ==
  ASSUME NEW lens \in Seq(Int)
  PROVE  \E f \in [0..Len(lens) -> Int] :
           Runs(f, Len(lens), 0, Adding(lens)) /\ Total(lens) = f[Len(lens)]
PROOF
  <1>. DEFINE n == Len(lens)
              sum == CHOOSE f : f = [k \in 0..n |-> IF k = 0 THEN 0 ELSE f[k - 1] + lens[k]]
  <1>1. n \in Nat /\ \A k \in 1..n : lens[k] \in Int
    BY LenProperties, ElementOfSeq
  <1>2. Adding(lens) \in [1..n -> [Int -> Int]]
    BY <1>1 DEF Adding
  <1>3. PICK f \in [0..n -> Int] : Runs(f, n, 0, Adding(lens))
    <2>1. 0 \in Int
      OBVIOUS
    <2>. HIDE DEF n
    <2>. QED
      BY <1>1, <1>2, <2>1, RunExists, Zenon
  <1>4. ASSUME NEW k \in 0..n PROVE f[k] = IF k = 0 THEN 0 ELSE f[k - 1] + lens[k]
    <2>1. CASE k = 0
      BY <1>3, <2>1 DEF Runs
    <2>2. CASE k \in 1..n
      <3>1. f[k] = Adding(lens)[k][f[k - 1]]
        BY <1>3, <2>2 DEF Runs
      <3>2. k - 1 \in 0..n
        BY <1>1, <2>2
      <3>. QED
        <4>1. f[k - 1] \in Int
          BY <1>3, <3>2
        <4>2. Adding(lens)[k] = [a \in Int |-> a + lens[k]]
          BY <2>2 DEF Adding
        <4>3. f[k] = f[k - 1] + lens[k]
          BY <3>1, <4>1, <4>2
        <4>. QED
          BY <2>2, <4>3
    <2>. QED
      BY <1>1, <2>1, <2>2
  <1>5. f = [k \in 0..n |-> IF k = 0 THEN 0 ELSE f[k - 1] + lens[k]]
    BY <1>3, <1>4
  <1>6. sum = [k \in 0..n |-> IF k = 0 THEN 0 ELSE sum[k - 1] + lens[k]]
    BY <1>5, Zenon
  <1>7. Total(lens) = sum[n]
    BY DEF Total
  <1>. HIDE DEF sum
  <1>8. \A k \in 0..n : sum[k] = f[k]
    <2>. DEFINE T == {k \in Nat : k <= n => sum[k] = f[k]}
    <2>1. 0 \in T
      BY <1>1, <1>4, <1>6
    <2>2. ASSUME NEW k \in Nat, k \in T PROVE k + 1 \in T
      BY <1>1, <1>4, <1>6, <2>2
    <2>. HIDE DEF T
    <2>3. \A k \in Nat : k \in T
      BY <2>1, <2>2, SetInduction
    <2>. QED
      BY <2>3 DEF T
  <1>. QED
    BY <1>1, <1>3, <1>7, <1>8

\* The sum of nothing, and of one element more.
LEMMA TotalEmpty == Total(<< >>) = 0
PROOF
  <1>1. << >> \in Seq(Int) /\ Len(<< >>) = 0
    OBVIOUS
  <1>. QED
    BY <1>1, TotalRuns DEF Runs

\* The sum of a sequence with one number more (Total, the widths added up in the
\* source).
LEMMA TotalAppend ==
  ASSUME NEW lens \in Seq(Int), NEW e \in Int
  PROVE  Total(lens) \in Int /\ Total(Append(lens, e)) = Total(lens) + e
PROOF
  <1>. DEFINE more == Append(lens, e)
              n == Len(lens)
  <1>1. /\ n \in Nat /\ more \in Seq(Int) /\ Len(more) = n + 1
        /\ \A k \in 1..n : more[k] = lens[k]
        /\ more[n + 1] = e
    BY AppendProperties, LenProperties
  <1>. HIDE DEF more
  <1>2. PICK f : f \in [0..n -> Int] /\ Runs(f, n, 0, Adding(lens)) /\ Total(lens) = f[n]
    BY TotalRuns
  <1>3. PICK m : m = n + 1
    OBVIOUS
  <1>4. PICK g : Runs(g, m, 0, Adding(more)) /\ Total(more) = g[m]
    BY <1>1, <1>3, TotalRuns
  <1>5. ASSUME NEW k \in 1..n PROVE Adding(more)[k] = Adding(lens)[k]
    <2>1. k \in 1..(n + 1) /\ more[k] = lens[k]
      BY <1>1
    <2>. QED
      BY <1>1, <2>1 DEF Adding
  <1>6. g[m] = Adding(more)[m][f[n]]
    <2>1. n \in Nat /\ Runs(f, n, 0, Adding(lens)) /\ Runs(g, m, 0, Adding(more))
      BY <1>1, <1>2, <1>4
    <2>. HIDE DEF n
    <2>. QED
      BY <1>3, <1>5, <2>1, RunsGoOn
  <1>7. f[n] \in Int /\ m \in 1..Len(more)
    BY <1>1, <1>2, <1>3
  <1>. QED
    BY <1>1, <1>2, <1>3, <1>4, <1>6, <1>7 DEF Adding, more

-----------------------------------------------------------------------------
(* Only                                                                    *)

Choosing(s, S, K) ==
  [k \in 1..Len(s) |-> [a \in Seq(S) |-> IF s[k] \in K THEN Append(a, s[k]) ELSE a]]

\* Only is where the running choice ends.
LEMMA OnlyRuns ==
  ASSUME NEW S, NEW s \in Seq(S), NEW K
  PROVE  \E f \in [0..Len(s) -> Seq(S)] :
           Runs(f, Len(s), << >>, Choosing(s, S, K)) /\ Only(s, K) = f[Len(s)]
PROOF
  <1>. DEFINE n == Len(s)
              step(f, k) == IF s[k] \in K THEN Append(f[k - 1], s[k]) ELSE f[k - 1]
              only == CHOOSE f : f = [k \in 0..n |->
                        IF k = 0 THEN << >>
                        ELSE IF s[k] \in K THEN Append(f[k - 1], s[k]) ELSE f[k - 1]]
  <1>1. n \in Nat /\ \A k \in 1..n : s[k] \in S
    BY LenProperties, ElementOfSeq
  <1>2. Choosing(s, S, K) \in [1..n -> [Seq(S) -> Seq(S)]]
    <2>1. ASSUME NEW k \in 1..n, NEW a \in Seq(S)
          PROVE  (IF s[k] \in K THEN Append(a, s[k]) ELSE a) \in Seq(S)
      BY <1>1, AppendProperties
    <2>. QED
      BY <2>1 DEF Choosing
  <1>3. PICK f \in [0..n -> Seq(S)] : Runs(f, n, << >>, Choosing(s, S, K))
    <2>1. << >> \in Seq(S)
      OBVIOUS
    <2>. HIDE DEF n
    <2>. QED
      BY <1>1, <1>2, <2>1, RunExists, Zenon
  <1>4. ASSUME NEW k \in 0..n PROVE f[k] = IF k = 0 THEN << >> ELSE step(f, k)
    <2>1. CASE k = 0
      BY <1>3, <2>1 DEF Runs
    <2>2. CASE k \in 1..n
      <3>1. f[k] = Choosing(s, S, K)[k][f[k - 1]]
        BY <1>3, <2>2 DEF Runs
      <3>2. k - 1 \in 0..n
        BY <1>1, <2>2
      <3>3. f[k - 1] \in Seq(S)
        BY <1>3, <3>2
      <3>4. Choosing(s, S, K)[k] =
              [a \in Seq(S) |-> IF s[k] \in K THEN Append(a, s[k]) ELSE a]
        BY <2>2 DEF Choosing
      <3>5. f[k] = step(f, k)
        BY <3>1, <3>3, <3>4
      <3>. QED
        BY <2>2, <3>5
    <2>. QED
      BY <1>1, <2>1, <2>2
  <1>5. f = [k \in 0..n |->
               IF k = 0 THEN << >>
               ELSE IF s[k] \in K THEN Append(f[k - 1], s[k]) ELSE f[k - 1]]
    BY <1>3, <1>4
  <1>6. only = [k \in 0..n |->
               IF k = 0 THEN << >>
               ELSE IF s[k] \in K THEN Append(only[k - 1], s[k]) ELSE only[k - 1]]
    BY <1>5, Zenon
  <1>7. Only(s, K) = only[n]
    BY DEF Only
  <1>. HIDE DEF only
  <1>8. \A k \in 0..n : only[k] = f[k]
    <2>. DEFINE T == {k \in Nat : k <= n => only[k] = f[k]}
    <2>1. 0 \in T
      BY <1>1, <1>4, <1>6
    <2>2. ASSUME NEW k \in Nat, k \in T PROVE k + 1 \in T
      <3>. SUFFICES ASSUME k + 1 <= n PROVE only[k + 1] = f[k + 1]
        OBVIOUS
      <3>1. PICK j : j = k + 1
        OBVIOUS
      <3>2. j \in 0..n /\ j # 0 /\ j - 1 = k /\ only[k] = f[k]
        BY <1>1, <2>2, <3>1
      <3>3. only[j] = step(only, j)
        BY <1>6, <3>2
      <3>4. f[j] = step(f, j)
        BY <1>4, <3>2
      <3>5. only[j - 1] = f[j - 1]
        BY <3>2
      <3>. QED
        BY <3>1, <3>3, <3>4, <3>5
    <2>. HIDE DEF T
    <2>3. \A k \in Nat : k \in T
      BY <2>1, <2>2, SetInduction
    <2>. QED
      BY <2>3 DEF T
  <1>. QED
    BY <1>1, <1>3, <1>7, <1>8

\* What is chosen of nothing, and of one element more.
LEMMA OnlyEmpty == ASSUME NEW K PROVE Only(<< >>, K) = << >>
PROOF
  <1>1. << >> \in Seq({}) /\ Len(<< >>) = 0
    OBVIOUS
  <1>2. PICK f : Runs(f, Len(<< >>), << >>, Choosing(<< >>, {}, K)) /\ Only(<< >>, K) = f[Len(<< >>)]
    BY <1>1, OnlyRuns
  <1>. QED
    BY <1>1, <1>2 DEF Runs

\* An element more is chosen when it is in K.
LEMMA OnlyAppend ==
  ASSUME NEW S, NEW s \in Seq(S), NEW e \in S, NEW K
  PROVE  /\ Only(s, K) \in Seq(S)
         /\ Only(Append(s, e), K) = IF e \in K THEN Append(Only(s, K), e) ELSE Only(s, K)
PROOF
  <1>. DEFINE more == Append(s, e)
              n == Len(s)
  <1>1. /\ n \in Nat /\ more \in Seq(S) /\ Len(more) = n + 1
        /\ \A k \in 1..n : more[k] = s[k]
        /\ more[n + 1] = e
    BY AppendProperties, LenProperties
  <1>. HIDE DEF more
  <1>2. PICK f : f \in [0..n -> Seq(S)] /\ Runs(f, n, << >>, Choosing(s, S, K)) /\ Only(s, K) = f[n]
    BY OnlyRuns
  <1>3. PICK m : m = n + 1
    OBVIOUS
  <1>4. PICK g : Runs(g, m, << >>, Choosing(more, S, K)) /\ Only(more, K) = g[m]
    BY <1>1, <1>3, OnlyRuns
  <1>5. ASSUME NEW k \in 1..n PROVE Choosing(more, S, K)[k] = Choosing(s, S, K)[k]
    <2>1. k \in 1..(n + 1) /\ more[k] = s[k]
      BY <1>1
    <2>. QED
      BY <1>1, <2>1 DEF Choosing
  <1>6. g[m] = Choosing(more, S, K)[m][f[n]]
    <2>1. n \in Nat /\ Runs(f, n, << >>, Choosing(s, S, K)) /\ Runs(g, m, << >>, Choosing(more, S, K))
      BY <1>1, <1>2, <1>4
    <2>. HIDE DEF n
    <2>. QED
      BY <1>3, <1>5, <2>1, RunsGoOn
  <1>7. f[n] \in Seq(S) /\ m \in 1..Len(more)
    BY <1>1, <1>2, <1>3
  <1>. QED
    BY <1>1, <1>2, <1>3, <1>4, <1>6, <1>7 DEF Choosing, more

-----------------------------------------------------------------------------
(* FlattenSeq                                                              *)

Joining(ss, S) == [k \in 1..Len(ss) |-> [a \in Seq(S) |-> a \o ss[k]]]

\* FlattenSeq is where the running concatenation ends.
LEMMA FlattenRuns ==
  ASSUME NEW S, NEW ss \in Seq(Seq(S))
  PROVE  \E f \in [0..Len(ss) -> Seq(S)] :
           Runs(f, Len(ss), << >>, Joining(ss, S)) /\ FlattenSeq(ss) = f[Len(ss)]
PROOF
  <1>. DEFINE n == Len(ss)
              flat == CHOOSE f : f = [k \in 1..n |->
                        IF k = 1 THEN ss[k] ELSE f[k - 1] \o ss[k]]
  <1>1. n \in Nat /\ \A k \in 1..n : ss[k] \in Seq(S)
    BY LenProperties, ElementOfSeq
  <1>2. Joining(ss, S) \in [1..n -> [Seq(S) -> Seq(S)]]
    <2>1. ASSUME NEW k \in 1..n, NEW a \in Seq(S) PROVE a \o ss[k] \in Seq(S)
      BY <1>1, ConcatProperties
    <2>. QED
      BY <2>1 DEF Joining
  <1>3. PICK f \in [0..n -> Seq(S)] : Runs(f, n, << >>, Joining(ss, S))
    <2>1. << >> \in Seq(S)
      OBVIOUS
    <2>. HIDE DEF n
    <2>. QED
      BY <1>1, <1>2, <2>1, RunExists, Zenon
  <1>4. ASSUME NEW k \in 1..n PROVE f[k] = IF k = 1 THEN ss[k] ELSE f[k - 1] \o ss[k]
    <2>1. f[k] = Joining(ss, S)[k][f[k - 1]]
      BY <1>3 DEF Runs
    <2>2. k - 1 \in 0..n
      BY <1>1
    <2>3. f[k - 1] \in Seq(S)
      BY <1>3, <2>2
    <2>4. Joining(ss, S)[k] = [a \in Seq(S) |-> a \o ss[k]]
      BY DEF Joining
    <2>5. f[k] = f[k - 1] \o ss[k]
      BY <2>1, <2>3, <2>4
    <2>6. CASE k = 1
      <3>1. f[k - 1] = << >>
        BY <1>3, <2>6 DEF Runs
      <3>. QED
        BY <1>1, <2>5, <2>6, <3>1, ConcatEmptySeq
    <2>. QED
      BY <2>5, <2>6
  <1>5. CASE n = 0
    BY <1>3, <1>5, EmptySeq DEF FlattenSeq, Runs
  <1>6. CASE n # 0
    <2>1. [k \in 1..n |-> f[k]] = [k \in 1..n |->
            IF k = 1 THEN ss[k] ELSE [i \in 1..n |-> f[i]][k - 1] \o ss[k]]
      <3>1. ASSUME NEW k \in 1..n
            PROVE  f[k] = IF k = 1 THEN ss[k] ELSE [i \in 1..n |-> f[i]][k - 1] \o ss[k]
        BY <1>1, <1>4
      <3>. QED
        BY <3>1
    <2>2. flat = [k \in 1..n |-> IF k = 1 THEN ss[k] ELSE flat[k - 1] \o ss[k]]
      BY <2>1, Zenon
    <2>3. FlattenSeq(ss) = flat[n]
      BY <1>6 DEF FlattenSeq
    <2>. HIDE DEF flat
    <2>4. \A k \in 1..n : flat[k] = f[k]
      <3>. DEFINE T == {k \in Nat : k + 1 <= n => flat[k + 1] = f[k + 1]}
      <3>1. 0 \in T
        BY <1>1, <1>4, <1>6, <2>2
      <3>2. ASSUME NEW k \in Nat, k \in T PROVE k + 1 \in T
        <4>. SUFFICES ASSUME k + 1 + 1 <= n PROVE flat[k + 1 + 1] = f[k + 1 + 1]
          OBVIOUS
        <4>1. PICK j : j = k + 1 + 1
          OBVIOUS
        <4>2. j \in 1..n /\ j # 1 /\ j - 1 = k + 1
          BY <1>1, <4>1
        <4>3. flat[j - 1] = f[j - 1]
          BY <1>1, <3>2, <4>2
        <4>4. flat[j] = flat[j - 1] \o ss[j]
          BY <2>2, <4>2
        <4>5. f[j] = f[j - 1] \o ss[j]
          BY <1>4, <4>2
        <4>. QED
          BY <4>1, <4>3, <4>4, <4>5
      <3>. HIDE DEF T
      <3>3. \A k \in Nat : k \in T
        BY <3>1, <3>2, SetInduction
      <3>. TAKE k \in 1..n
      <3>4. k - 1 \in T /\ k - 1 + 1 = k /\ k <= n
        BY <1>1, <3>3
      <3>. QED
        BY <3>4 DEF T
    <2>5. n \in 1..n
      BY <1>1, <1>6
    <2>. QED
      BY <1>3, <2>3, <2>4, <2>5
  <1>. QED
    BY <1>5, <1>6

\* Nothing is joined to nothing; one sequence more is joined at the end.
LEMMA FlattenEmpty == FlattenSeq(<< >>) = << >>
PROOF
  BY DEF FlattenSeq

\* A sequence more is joined at the end.
LEMMA FlattenAppend ==
  ASSUME NEW S, NEW ss \in Seq(Seq(S)), NEW e \in Seq(S)
  PROVE  /\ FlattenSeq(ss) \in Seq(S)
         /\ FlattenSeq(Append(ss, e)) = FlattenSeq(ss) \o e
PROOF
  <1>. DEFINE more == Append(ss, e)
              n == Len(ss)
  <1>1. /\ n \in Nat /\ more \in Seq(Seq(S)) /\ Len(more) = n + 1
        /\ \A k \in 1..n : more[k] = ss[k]
        /\ more[n + 1] = e
    BY AppendProperties, LenProperties
  <1>. HIDE DEF more
  <1>2. PICK f : f \in [0..n -> Seq(S)] /\ Runs(f, n, << >>, Joining(ss, S)) /\ FlattenSeq(ss) = f[n]
    BY FlattenRuns
  <1>3. PICK m : m = n + 1
    OBVIOUS
  <1>4. PICK g : Runs(g, m, << >>, Joining(more, S)) /\ FlattenSeq(more) = g[m]
    BY <1>1, <1>3, FlattenRuns
  <1>5. ASSUME NEW k \in 1..n PROVE Joining(more, S)[k] = Joining(ss, S)[k]
    <2>1. k \in 1..(n + 1) /\ more[k] = ss[k]
      BY <1>1
    <2>. QED
      BY <1>1, <2>1 DEF Joining
  <1>6. g[m] = Joining(more, S)[m][f[n]]
    <2>1. n \in Nat /\ Runs(f, n, << >>, Joining(ss, S)) /\ Runs(g, m, << >>, Joining(more, S))
      BY <1>1, <1>2, <1>4
    <2>. HIDE DEF n
    <2>. QED
      BY <1>3, <1>5, <2>1, RunsGoOn
  <1>7. f[n] \in Seq(S) /\ m \in 1..Len(more)
    <2>1. n \in 0..n /\ m \in 1..Len(more)
      BY <1>1, <1>3
    <2>. QED
      BY <1>2, <2>1
  <1>. QED
    BY <1>1, <1>2, <1>3, <1>4, <1>6, <1>7 DEF Joining, more

-----------------------------------------------------------------------------
(* What follows for sums                                                   *)

\* A prefix is the shorter one and its last element.
LEMMA LongerPrefix ==
  ASSUME NEW S, NEW s \in Seq(S), NEW k \in 1..Len(s)
  PROVE  /\ SubSeq(s, 1, k - 1) \in Seq(S) /\ s[k] \in S
         /\ SubSeq(s, 1, k) = Append(SubSeq(s, 1, k - 1), s[k])
PROOF
  <1>1. Len(s) \in Nat /\ k \in Nat /\ s[k] \in S
    BY LenProperties, ElementOfSeq
  <1>2. \A i \in 1..(k - 1) : s[i] \in S
    <2>. TAKE i \in 1..(k - 1)
    <2>1. i \in 1..Len(s)
      BY <1>1
    <2>. QED
      BY <2>1, ElementOfSeq
  <1>3. SubSeq(s, 1, k - 1) \in Seq(S)
    BY <1>1, <1>2, SubSeqProperties
  <1>4. SubSeq(s, 1, k) = SubSeq(s, 1, k - 1) \o <<s[k]>>
    <2>1. 1 \in 1..Len(s) /\ k \in 1..Len(s)
      BY <1>1
    <2>. QED
      BY <2>1, SubSeqRecursiveSecond
  <1>. QED
    BY <1>1, <1>3, <1>4, AppendIsConcat

\* Induction over the sequences of elements of S, for a set.
LEMMA SeqInduction ==
  ASSUME NEW S, NEW T, << >> \in T,
         \A s \in Seq(S) : \A e \in S : s \in T => Append(s, e) \in T
  PROVE  \A s \in Seq(S) : s \in T
PROOF
  <1>. SUFFICES ASSUME NEW s \in Seq(S) PROVE s \in T
    OBVIOUS
  <1>. DEFINE U == {m \in Nat : m <= Len(s) => SubSeq(s, 1, m) \in T}
  <1>1. Len(s) \in Nat
    BY LenProperties
  <1>2. 0 \in U
    <2>1. SubSeq(s, 1, 0) = << >>
      BY SubSeqEmpty
    <2>. QED
      BY <2>1
  <1>3. ASSUME NEW m \in Nat, m \in U PROVE m + 1 \in U
    <2>. SUFFICES ASSUME m + 1 <= Len(s) PROVE SubSeq(s, 1, m + 1) \in T
      OBVIOUS
    <2>1. PICK k : k = m + 1
      OBVIOUS
    <2>2. k \in 1..Len(s) /\ k - 1 = m /\ SubSeq(s, 1, m) \in T
      BY <1>1, <1>3, <2>1
    <2>3. /\ SubSeq(s, 1, k - 1) \in Seq(S) /\ s[k] \in S
          /\ SubSeq(s, 1, k) = Append(SubSeq(s, 1, k - 1), s[k])
      BY <2>2, LongerPrefix
    <2>. QED
      BY <2>1, <2>2, <2>3
  <1>. HIDE DEF U
  <1>4. \A m \in Nat : m \in U
    BY <1>2, <1>3, SetInduction
  <1>5. Len(s) \in U
    BY <1>1, <1>4
  <1>6. SubSeq(s, 1, Len(s)) = s
    BY SubSeqFull
  <1>7. SubSeq(s, 1, Len(s)) \in T
    BY <1>1, <1>5 DEF U
  <1>. QED
    BY <1>6, <1>7

\* The sum of the first k.
Upto(lens, k) == Total(SubSeq(lens, 1, k))

\* The sums of the first none and of all.
LEMMA UptoEnds ==
  ASSUME NEW lens \in Seq(Nat)
  PROVE  Upto(lens, 0) = 0 /\ Upto(lens, Len(lens)) = Total(lens)
PROOF
  <1>1. SubSeq(lens, 1, 0) = << >>
    BY SubSeqEmpty
  <1>2. SubSeq(lens, 1, Len(lens)) = lens
    BY SubSeqFull
  <1>. QED
    BY <1>1, <1>2, TotalEmpty DEF Upto

\* One more adds its own number.
LEMMA UptoStep ==
  ASSUME NEW lens \in Seq(Nat), NEW k \in 1..Len(lens)
  PROVE  Upto(lens, k) = Upto(lens, k - 1) + lens[k]
PROOF
  <1>1. /\ SubSeq(lens, 1, k - 1) \in Seq(Nat) /\ lens[k] \in Nat
        /\ SubSeq(lens, 1, k) = Append(SubSeq(lens, 1, k - 1), lens[k])
    BY LongerPrefix
  <1>2. SubSeq(lens, 1, k - 1) \in Seq(Int) /\ lens[k] \in Int
    BY <1>1, SeqMonotonic
  <1>. QED
    BY <1>1, <1>2, TotalAppend DEF Upto

\* Sums of naturals are naturals, grow, and bound what they sum.
LEMMA UptoNat ==
  ASSUME NEW lens \in Seq(Nat), NEW k \in 0..Len(lens)
  PROVE  Upto(lens, k) \in Nat
PROOF
  <1>. DEFINE T == {m \in Nat : m <= Len(lens) => Upto(lens, m) \in Nat}
  <1>1. Len(lens) \in Nat
    BY LenProperties
  <1>2. 0 \in T
    BY UptoEnds
  <1>3. ASSUME NEW m \in Nat, m \in T PROVE m + 1 \in T
    <2>. SUFFICES ASSUME m + 1 <= Len(lens) PROVE Upto(lens, m + 1) \in Nat
      OBVIOUS
    <2>1. m + 1 \in 1..Len(lens) /\ m + 1 - 1 = m /\ Upto(lens, m) \in Nat
      BY <1>1, <1>3
    <2>2. lens[m + 1] \in Nat
      BY <2>1, ElementOfSeq
    <2>3. Upto(lens, m + 1) = Upto(lens, m + 1 - 1) + lens[m + 1]
      BY <2>1, UptoStep
    <2>. QED
      BY <2>1, <2>2, <2>3
  <1>. HIDE DEF T
  <1>4. \A m \in Nat : m \in T
    BY <1>2, <1>3, SetInduction
  <1>. QED
    BY <1>1, <1>4 DEF T

\* Sums of more are no less.
LEMMA UptoGrows ==
  ASSUME NEW lens \in Seq(Nat), NEW j \in 0..Len(lens), NEW k \in j..Len(lens)
  PROVE  Upto(lens, j) <= Upto(lens, k)
PROOF
  <1>. DEFINE T == {m \in Nat : j + m <= Len(lens) => Upto(lens, j) <= Upto(lens, j + m)}
  <1>1. Len(lens) \in Nat /\ j \in Nat /\ k \in Nat
    BY LenProperties
  <1>2. 0 \in T
    BY <1>1, UptoNat
  <1>3. ASSUME NEW m \in Nat, m \in T PROVE m + 1 \in T
    <2>. SUFFICES ASSUME j + (m + 1) <= Len(lens) PROVE Upto(lens, j) <= Upto(lens, j + (m + 1))
      OBVIOUS
    <2>1. PICK i : i = j + (m + 1)
      OBVIOUS
    <2>2. i \in 1..Len(lens) /\ i - 1 = j + m /\ i - 1 \in 0..Len(lens)
      BY <1>1, <2>1
    <2>3. lens[i] \in Nat /\ Upto(lens, i - 1) \in Nat /\ Upto(lens, j) \in Nat
      BY <2>2, ElementOfSeq, UptoNat
    <2>4. Upto(lens, i) = Upto(lens, i - 1) + lens[i]
      BY <2>2, UptoStep
    <2>5. Upto(lens, j) <= Upto(lens, i - 1)
      BY <1>1, <1>3, <2>2
    <2>. QED
      BY <2>1, <2>3, <2>4, <2>5
  <1>. HIDE DEF T
  <1>4. \A m \in Nat : m \in T
    BY <1>2, <1>3, SetInduction
  <1>5. k - j \in T /\ j + (k - j) = k
    BY <1>1, <1>4
  <1>. QED
    BY <1>1, <1>5 DEF T

\* The sum of k numbers that are at most b.
LEMMA UptoBounded ==
  ASSUME NEW lens \in Seq(Nat), NEW b \in Nat, \A i \in 1..Len(lens) : lens[i] <= b
  PROVE  Total(lens) <= Len(lens) * b
PROOF
  <1>. DEFINE T == {m \in Nat : m <= Len(lens) => Upto(lens, m) <= m * b}
  <1>1. Len(lens) \in Nat
    BY LenProperties
  <1>2. 0 \in T
    BY UptoEnds
  <1>3. ASSUME NEW m \in Nat, m \in T PROVE m + 1 \in T
    <2>. SUFFICES ASSUME m + 1 <= Len(lens) PROVE Upto(lens, m + 1) <= (m + 1) * b
      OBVIOUS
    <2>1. m + 1 \in 1..Len(lens) /\ m + 1 - 1 = m /\ m \in 0..Len(lens)
      BY <1>1
    <2>2. lens[m + 1] \in Nat /\ lens[m + 1] <= b /\ Upto(lens, m) \in Nat
      BY <2>1, ElementOfSeq, UptoNat
    <2>3. Upto(lens, m + 1) = Upto(lens, m + 1 - 1) + lens[m + 1]
      BY <2>1, UptoStep
    <2>4. Upto(lens, m) <= m * b
      BY <1>3, <2>1
    <2>5. PICK x : x = m * b
      OBVIOUS
    <2>6. x \in Nat /\ (m + 1) * b = x + b
      BY <2>5
    <2>. QED
      BY <2>1, <2>2, <2>3, <2>4, <2>5, <2>6
  <1>. HIDE DEF T
  <1>4. \A m \in Nat : m \in T
    BY <1>2, <1>3, SetInduction
  <1>. QED
    BY <1>1, <1>4, UptoEnds DEF T

\* A sum is no less than any of what it sums.
LEMMA TotalCovers ==
  ASSUME NEW lens \in Seq(Nat), NEW k \in 1..Len(lens)
  PROVE  Total(lens) \in Nat /\ lens[k] \in Nat /\ lens[k] <= Total(lens)
PROOF
  <1>1. /\ Len(lens) \in Nat /\ k \in Nat /\ k - 1 \in 0..Len(lens) /\ k \in 0..Len(lens)
        /\ Len(lens) \in k..Len(lens) /\ Len(lens) \in 0..Len(lens)
    BY LenProperties
  <1>2. lens[k] \in Nat /\ Upto(lens, k - 1) \in Nat /\ Upto(lens, k) = Upto(lens, k - 1) + lens[k]
    BY <1>1, ElementOfSeq, UptoNat, UptoStep
  <1>3. Upto(lens, k) <= Upto(lens, Len(lens)) /\ Upto(lens, Len(lens)) \in Nat
    BY <1>1, UptoGrows, UptoNat
  <1>. QED
    BY <1>2, <1>3, UptoEnds

-----------------------------------------------------------------------------
(* What follows for choices                                                *)

\* An element of K is chosen, and no other.
LEMMA OnlyTakes ==
  ASSUME NEW S, NEW s \in Seq(S), NEW e \in S, NEW K, e \in K
  PROVE  Only(Append(s, e), K) = Append(Only(s, K), e)
PROOF
  BY OnlyAppend

\* An element that is not in K is left out.
LEMMA OnlyDrops ==
  ASSUME NEW S, NEW s \in Seq(S), NEW e \in S, NEW K, e \notin K
  PROVE  Only(Append(s, e), K) = Only(s, K)
PROOF
  BY OnlyAppend

\* What is chosen are elements of the sequence.
LEMMA OnlyType ==
  ASSUME NEW S, NEW s \in Seq(S), NEW K
  PROVE  Only(s, K) \in Seq(S) /\ Only(s, K) \in Seq(S \cap K)
PROOF
  <1>. DEFINE T == {t \in Seq(S) : Only(t, K) \in Seq(S) /\ Only(t, K) \in Seq(S \cap K)}
  <1>1. << >> \in T
    <2>1. << >> \in Seq(S) /\ << >> \in Seq(S \cap K)
      OBVIOUS
    <2>. QED
      BY <2>1, OnlyEmpty
  <1>2. ASSUME NEW t \in Seq(S), NEW e \in S, t \in T PROVE Append(t, e) \in T
    <2>1. Only(Append(t, e), K) = IF e \in K THEN Append(Only(t, K), e) ELSE Only(t, K)
      BY OnlyAppend
    <2>2. Append(t, e) \in Seq(S)
      BY AppendProperties
    <2>3. Only(t, K) \in Seq(S) /\ Only(t, K) \in Seq(S \cap K)
      BY <1>2
    <2>4. Append(Only(t, K), e) \in Seq(S)
      BY <2>3, AppendProperties
    <2>5. e \in K => Append(Only(t, K), e) \in Seq(S \cap K)
      <3>1. e \in K => e \in S \cap K
        OBVIOUS
      <3>. QED
        BY <2>3, <3>1, AppendProperties
    <2>. QED
      BY <2>1, <2>2, <2>3, <2>4, <2>5
  <1>. HIDE DEF T
  <1>3. \A t \in Seq(S) : t \in T
    BY <1>1, <1>2, SeqInduction
  <1>. QED
    BY <1>3 DEF T

\* A sequence of elements of K is chosen whole.
LEMMA OnlyAll ==
  ASSUME NEW S, NEW s \in Seq(S), NEW K, S \subseteq K
  PROVE  Only(s, K) = s
PROOF
  <1>. DEFINE T == {t \in Seq(S) : Only(t, K) = t}
  <1>1. << >> \in T
    BY OnlyEmpty
  <1>2. ASSUME NEW t \in Seq(S), NEW e \in S, t \in T PROVE Append(t, e) \in T
    <2>1. Only(Append(t, e), K) = Append(Only(t, K), e)
      BY OnlyTakes
    <2>. QED
      BY <1>2, <2>1, AppendProperties
  <1>. HIDE DEF T
  <1>3. \A t \in Seq(S) : t \in T
    BY <1>1, <1>2, SeqInduction
  <1>. QED
    BY <1>3 DEF T

\* Of a sequence without elements of K nothing is.
LEMMA OnlyNone ==
  ASSUME NEW S, NEW s \in Seq(S), NEW K, S \cap K = {}
  PROVE  Only(s, K) = << >>
PROOF
  <1>1. Only(s, K) \in Seq({})
    BY OnlyType
  <1>2. Len(Only(s, K)) \in Nat /\ \A i \in 1..Len(Only(s, K)) : Only(s, K)[i] \in {}
    BY <1>1, LenProperties, ElementOfSeq
  <1>3. Len(Only(s, K)) = 0
    BY <1>2
  <1>. QED
    BY <1>1, <1>3, EmptySeq

\* Joining and appending may be done in either order.
LEMMA AppendConcat ==
  ASSUME NEW S, NEW s \in Seq(S), NEW t \in Seq(S), NEW e \in S
  PROVE  s \o Append(t, e) = Append(s \o t, e)
PROOF
  <1>1. <<e>> \in Seq(S) /\ s \o t \in Seq(S)
    BY ConcatProperties
  <1>2. Append(t, e) = t \o <<e>> /\ Append(s \o t, e) = (s \o t) \o <<e>>
    BY <1>1, AppendIsConcat
  <1>3. (s \o t) \o <<e>> = s \o (t \o <<e>>)
    BY <1>1, ConcatAssociative
  <1>. QED
    BY <1>2, <1>3

\* What is chosen of a concatenation is chosen of its parts.
LEMMA OnlyConcat ==
  ASSUME NEW S, NEW s \in Seq(S), NEW t \in Seq(S), NEW K
  PROVE  Only(s \o t, K) = Only(s, K) \o Only(t, K)
PROOF
  <1>. DEFINE T == {u \in Seq(S) : Only(s \o u, K) = Only(s, K) \o Only(u, K)}
  <1>1. Only(s, K) \in Seq(S)
    BY OnlyType
  <1>2. << >> \in T
    <2>1. << >> \in Seq(S) /\ s \o << >> = s /\ Only(s, K) \o << >> = Only(s, K)
      BY <1>1, ConcatEmptySeq
    <2>. QED
      BY <2>1, OnlyEmpty
  <1>3. ASSUME NEW u \in Seq(S), NEW e \in S, u \in T PROVE Append(u, e) \in T
    <2>1. /\ Append(u, e) \in Seq(S) /\ Append(u, e) = u \o <<e>>
          /\ s \o u \in Seq(S) /\ <<e>> \in Seq(S)
      BY AppendProperties, AppendIsConcat, ConcatProperties
    <2>2. s \o Append(u, e) = Append(s \o u, e)
      BY AppendConcat
    <2>3. Only(u, K) \in Seq(S)
      BY OnlyType
    <2>4. Only(s \o u, K) = Only(s, K) \o Only(u, K)
      BY <1>3
    <2>5. Only(s, K) \o Append(Only(u, K), e) = Append(Only(s, K) \o Only(u, K), e)
      BY <1>1, <2>3, AppendConcat
    <2>6. CASE e \in K
      <3>1. Only(Append(u, e), K) = Append(Only(u, K), e)
        BY <2>6, OnlyTakes, Zenon
      <3>2. Only(Append(s \o u, e), K) = Append(Only(s \o u, K), e)
        BY <2>1, <2>6, OnlyTakes, Zenon
      <3>. QED
        BY <2>1, <2>2, <2>4, <2>5, <3>1, <3>2
    <2>7. CASE e \notin K
      <3>1. Only(Append(u, e), K) = Only(u, K)
        BY <2>7, OnlyDrops, Zenon
      <3>2. Only(Append(s \o u, e), K) = Only(s \o u, K)
        BY <2>1, <2>7, OnlyDrops, Zenon
      <3>. QED
        BY <2>1, <2>2, <2>4, <3>1, <3>2
    <2>. QED
      BY <2>6, <2>7
  <1>. HIDE DEF T
  <1>4. \A u \in Seq(S) : u \in T
    BY <1>2, <1>3, SeqInduction
  <1>. QED
    BY <1>4 DEF T

\* Two sets that agree on the elements choose the same.
LEMMA OnlySame ==
  ASSUME NEW S, NEW s \in Seq(S), NEW K, NEW L, \A i \in 1..Len(s) : s[i] \in K <=> s[i] \in L
  PROVE  Only(s, K) = Only(s, L)
PROOF
  <1>. DEFINE T == {t \in Seq(S) :
                      (\A i \in 1..Len(t) : t[i] \in K <=> t[i] \in L) => Only(t, K) = Only(t, L)}
  <1>1. << >> \in T
    BY OnlyEmpty
  <1>2. ASSUME NEW t \in Seq(S), NEW e \in S, t \in T PROVE Append(t, e) \in T
    <2>1. /\ Append(t, e) \in Seq(S) /\ Len(Append(t, e)) = Len(t) + 1 /\ Len(t) \in Nat
          /\ \A i \in 1..Len(t) : Append(t, e)[i] = t[i]
          /\ Append(t, e)[Len(t) + 1] = e
      BY AppendProperties, LenProperties
    <2>. SUFFICES ASSUME \A i \in 1..Len(Append(t, e)) : Append(t, e)[i] \in K <=> Append(t, e)[i] \in L
                  PROVE  Only(Append(t, e), K) = Only(Append(t, e), L)
      BY <2>1
    <2>2. e \in K <=> e \in L
      <3>1. Len(t) + 1 \in 1..Len(Append(t, e))
        BY <2>1
      <3>. QED
        BY <2>1, <3>1
    <2>3. \A i \in 1..Len(t) : t[i] \in K <=> t[i] \in L
      <3>1. \A i \in 1..Len(t) : i \in 1..Len(Append(t, e))
        BY <2>1
      <3>. QED
        BY <2>1, <3>1
    <2>4. Only(t, K) = Only(t, L)
      BY <1>2, <2>3
    <2>5. CASE e \in K
      <3>1. Only(Append(t, e), K) = Append(Only(t, K), e)
        BY <2>5, OnlyTakes, Zenon
      <3>2. Only(Append(t, e), L) = Append(Only(t, L), e)
        BY <2>2, <2>5, OnlyTakes, Zenon
      <3>. QED
        BY <2>4, <3>1, <3>2
    <2>6. CASE e \notin K
      <3>1. Only(Append(t, e), K) = Only(t, K)
        BY <2>6, OnlyDrops, Zenon
      <3>2. Only(Append(t, e), L) = Only(t, L)
        BY <2>2, <2>6, OnlyDrops, Zenon
      <3>. QED
        BY <2>4, <3>1, <3>2
    <2>. QED
      BY <2>5, <2>6
  <1>. HIDE DEF T
  <1>3. \A t \in Seq(S) : t \in T
    BY <1>1, <1>2, SeqInduction
  <1>. QED
    BY <1>3 DEF T

\* As many are chosen as there are places with an element of K.
LEMMA OnlyCounts ==
  ASSUME NEW S, NEW s \in Seq(S), NEW K
  PROVE  /\ IsFiniteSet({i \in 1..Len(s) : s[i] \in K})
         /\ Cardinality({i \in 1..Len(s) : s[i] \in K}) = Len(Only(s, K))
PROOF
  <1>. DEFINE P(t) == {i \in 1..Len(t) : t[i] \in K}
              T == {t \in Seq(S) : IsFiniteSet(P(t)) /\ Cardinality(P(t)) = Len(Only(t, K))}
  <1>1. << >> \in T
    <2>1. P(<< >>) = {} /\ << >> \in Seq(S) /\ Len(<< >>) = 0
      OBVIOUS
    <2>. QED
      BY <2>1, OnlyEmpty, FS_EmptySet
  <1>2. ASSUME NEW t \in Seq(S), NEW e \in S, t \in T PROVE Append(t, e) \in T
    <2>1. /\ Append(t, e) \in Seq(S) /\ Len(Append(t, e)) = Len(t) + 1 /\ Len(t) \in Nat
          /\ \A i \in 1..Len(t) : Append(t, e)[i] = t[i]
          /\ Append(t, e)[Len(t) + 1] = e
      BY AppendProperties, LenProperties
    <2>2. Only(t, K) \in Seq(S) /\ Len(Append(Only(t, K), e)) = Len(Only(t, K)) + 1
      BY OnlyType, AppendProperties
    <2>3. IsFiniteSet(P(t)) /\ Cardinality(P(t)) = Len(Only(t, K))
      BY <1>2
    <2>4. CASE e \in K
      <3>1. P(Append(t, e)) = P(t) \cup {Len(t) + 1} /\ Len(t) + 1 \notin P(t)
        BY <2>1, <2>4
      <3>2. Only(Append(t, e), K) = Append(Only(t, K), e)
        BY <2>4, OnlyTakes, Zenon
      <3>. HIDE DEF P
      <3>3. /\ IsFiniteSet(P(t) \cup {Len(t) + 1})
            /\ Cardinality(P(t) \cup {Len(t) + 1}) = Cardinality(P(t)) + 1
        BY <2>3, <3>1, FS_AddElement
      <3>. QED
        BY <2>1, <2>2, <2>3, <3>1, <3>2, <3>3
    <2>5. CASE e \notin K
      <3>1. P(Append(t, e)) = P(t)
        BY <2>1, <2>5
      <3>2. Only(Append(t, e), K) = Only(t, K)
        BY <2>5, OnlyDrops, Zenon
      <3>. HIDE DEF P
      <3>. QED
        BY <2>1, <2>3, <3>1, <3>2
    <2>. QED
      BY <2>4, <2>5
  <1>. HIDE DEF T
  <1>3. \A t \in Seq(S) : t \in T
    BY <1>1, <1>2, SeqInduction
  <1>. QED
    BY <1>3 DEF T

-----------------------------------------------------------------------------
(* What follows for sequences that are joined                              *)

\* A function on 1..n is a sequence of length n.
LEMMA FunctionIsSeq ==
  ASSUME NEW n \in Nat, NEW S, NEW f \in [1..n -> S]
  PROVE  f \in Seq(S) /\ Len(f) = n
PROOF
  OBVIOUS

Lens(ss) == [k \in 1..Len(ss) |-> Len(ss[k])]

\* The lengths are numbers; one sequence more adds its own.
LEMMA LensAppend ==
  ASSUME NEW S, NEW ss \in Seq(Seq(S)), NEW e \in Seq(S)
  PROVE  /\ Lens(ss) \in Seq(Nat) /\ Len(Lens(ss)) = Len(ss)
         /\ Len(e) \in Nat /\ Lens(Append(ss, e)) = Append(Lens(ss), Len(e))
PROOF
  <1>1. Len(ss) \in Nat /\ \A k \in 1..Len(ss) : ss[k] \in Seq(S)
    BY LenProperties, ElementOfSeq
  <1>2. Len(e) \in Nat /\ \A k \in 1..Len(ss) : Len(ss[k]) \in Nat
    BY <1>1, LenProperties
  <1>3. Lens(ss) \in Seq(Nat) /\ Len(Lens(ss)) = Len(ss)
    <2>1. Lens(ss) \in [1..Len(ss) -> Nat]
      BY <1>2 DEF Lens
    <2>. QED
      BY <1>1, <2>1, FunctionIsSeq, Zenon
  <1>4. /\ Append(ss, e) \in Seq(Seq(S)) /\ Len(Append(ss, e)) = Len(ss) + 1
        /\ \A k \in 1..Len(ss) : Append(ss, e)[k] = ss[k]
        /\ Append(ss, e)[Len(ss) + 1] = e
    BY AppendProperties
  <1>5. /\ Append(Lens(ss), Len(e)) \in Seq(Nat)
        /\ Len(Append(Lens(ss), Len(e))) = Len(ss) + 1
        /\ \A k \in 1..Len(ss) : Append(Lens(ss), Len(e))[k] = Lens(ss)[k]
        /\ Append(Lens(ss), Len(e))[Len(ss) + 1] = Len(e)
    BY <1>2, <1>3, AppendProperties
  <1>6. /\ Lens(Append(ss, e)) \in Seq(Nat)
        /\ Len(Lens(Append(ss, e))) = Len(ss) + 1
        /\ \A k \in 1..(Len(ss) + 1) : Lens(Append(ss, e))[k] = Len(Append(ss, e)[k])
    <2>1. \A k \in 1..(Len(ss) + 1) : Len(Append(ss, e)[k]) \in Nat
      BY <1>1, <1>2, <1>4
    <2>2. Lens(Append(ss, e)) = [k \in 1..(Len(ss) + 1) |-> Len(Append(ss, e)[k])]
      BY <1>4 DEF Lens
    <2>3. Len(ss) + 1 \in Nat
      BY <1>1
    <2>4. Lens(Append(ss, e)) \in [1..(Len(ss) + 1) -> Nat]
      BY <2>1, <2>2
    <2>5. Lens(Append(ss, e)) \in Seq(Nat) /\ Len(Lens(Append(ss, e))) = Len(ss) + 1
      BY <2>3, <2>4, FunctionIsSeq, Zenon
    <2>. QED
      BY <2>2, <2>5
  <1>7. \A k \in 1..(Len(ss) + 1) : Lens(Append(ss, e))[k] = Append(Lens(ss), Len(e))[k]
    <2>. TAKE k \in 1..(Len(ss) + 1)
    <2>1. CASE k \in 1..Len(ss)
      <3>1. Lens(ss)[k] = Len(ss[k])
        BY <2>1 DEF Lens
      <3>. QED
        BY <1>4, <1>5, <1>6, <2>1, <3>1
    <2>2. CASE k = Len(ss) + 1
      BY <1>4, <1>5, <1>6, <2>2
    <2>3. k \in 1..Len(ss) \/ k = Len(ss) + 1
      BY <1>1
    <2>. QED
      BY <2>1, <2>2, <2>3
  <1>8. Lens(Append(ss, e)) = Append(Lens(ss), Len(e))
    BY <1>5, <1>6, <1>7, SeqEqual
  <1>. QED
    BY <1>2, <1>3, <1>8

\* The lengths of sequences are numbers, one for each.
LEMMA LensType ==
  ASSUME NEW S, NEW ss \in Seq(Seq(S))
  PROVE  Lens(ss) \in Seq(Nat) /\ Len(Lens(ss)) = Len(ss)
PROOF
  <1>1. << >> \in Seq(S)
    OBVIOUS
  <1>. QED
    BY <1>1, LensAppend

\* What is joined is as long as its parts together.
LEMMA FlattenLength ==
  ASSUME NEW S, NEW ss \in Seq(Seq(S))
  PROVE  FlattenSeq(ss) \in Seq(S) /\ Len(FlattenSeq(ss)) = Total(Lens(ss))
PROOF
  <1>. DEFINE T == {tt \in Seq(Seq(S)) : FlattenSeq(tt) \in Seq(S) /\ Len(FlattenSeq(tt)) = Total(Lens(tt))}
  <1>1. << >> \in T
    <2>1. << >> \in Seq(Seq(S)) /\ << >> \in Seq(S) /\ Len(<< >>) = 0
      OBVIOUS
    <2>2. Lens(<< >>) = << >>
      <3>1. Lens(<< >>) \in Seq(Nat) /\ Len(Lens(<< >>)) = 0
        BY <2>1, LensType
      <3>. QED
        BY <3>1, EmptySeq
    <2>. QED
      BY <2>1, <2>2, FlattenEmpty, TotalEmpty
  <1>2. ASSUME NEW tt \in Seq(Seq(S)), NEW e \in Seq(S), tt \in T PROVE Append(tt, e) \in T
    <2>1. FlattenSeq(tt) \in Seq(S) /\ FlattenSeq(Append(tt, e)) = FlattenSeq(tt) \o e
      BY FlattenAppend
    <2>2. /\ Lens(tt) \in Seq(Nat) /\ Len(e) \in Nat
          /\ Lens(Append(tt, e)) = Append(Lens(tt), Len(e))
      BY LensAppend
    <2>3. Total(Append(Lens(tt), Len(e))) = Total(Lens(tt)) + Len(e)
      <3>1. Lens(tt) \in Seq(Int) /\ Len(e) \in Int
        BY <2>2, SeqMonotonic
      <3>. QED
        BY <3>1, TotalAppend
    <2>4. /\ FlattenSeq(tt) \o e \in Seq(S)
          /\ Len(FlattenSeq(tt) \o e) = Len(FlattenSeq(tt)) + Len(e)
      BY <2>1, ConcatProperties
    <2>5. Append(tt, e) \in Seq(Seq(S))
      BY AppendProperties
    <2>6. Len(FlattenSeq(tt)) = Total(Lens(tt))
      BY <1>2
    <2>. QED
      BY <2>1, <2>2, <2>3, <2>4, <2>5, <2>6
  <1>. HIDE DEF T
  <1>3. \A tt \in Seq(Seq(S)) : tt \in T
    BY <1>1, <1>2, SeqInduction
  <1>. QED
    BY <1>3 DEF T

\* The sums of the first numbers do not depend on the last.
LEMMA UptoAppend ==
  ASSUME NEW lens \in Seq(Nat), NEW x \in Nat, NEW k \in 0..Len(lens)
  PROVE  Upto(Append(lens, x), k) = Upto(lens, k)
PROOF
  <1>1. Append(lens, x) = lens \o <<x>> /\ <<x>> \in Seq(Nat) /\ Len(lens) \in Nat
    BY AppendIsConcat, LenProperties
  <1>2. CASE k = 0
    <2>1. SubSeq(lens, 1, 0) = << >> /\ SubSeq(Append(lens, x), 1, 0) = << >>
      BY SubSeqEmpty
    <2>. QED
      BY <1>2, <2>1 DEF Upto
  <1>3. CASE k # 0
    <2>1. 1 \in 1..Len(lens) /\ k \in 1..Len(lens)
      BY <1>1, <1>3
    <2>2. SubSeq(lens \o <<x>>, 1, k) = SubSeq(lens, 1, k)
      BY <1>1, <2>1, SubSeqOfConcat1
    <2>. QED
      BY <1>1, <2>2 DEF Upto
  <1>. QED
    BY <1>2, <1>3

\* Element j of sequence k stands behind the k - 1 sequences before it.
LEMMA FlattenPlaces ==
  ASSUME NEW S, NEW ss \in Seq(Seq(S)), NEW k \in 1..Len(ss), NEW j \in 1..Len(ss[k])
  PROVE  FlattenSeq(ss)[Upto(Lens(ss), k - 1) + j] = ss[k][j]
PROOF
  <1>. DEFINE T == {tt \in Seq(Seq(S)) : \A i \in 1..Len(tt) : \A h \in 1..Len(tt[i]) :
                      FlattenSeq(tt)[Upto(Lens(tt), i - 1) + h] = tt[i][h]}
  <1>1. << >> \in T
    OBVIOUS
  <1>2. ASSUME NEW tt \in Seq(Seq(S)), NEW e \in Seq(S), tt \in T PROVE Append(tt, e) \in T
    <2>. DEFINE n == Len(tt)
                more == Append(tt, e)
    <2>1. /\ more \in Seq(Seq(S)) /\ Len(more) = n + 1 /\ n \in Nat
          /\ \A i \in 1..n : more[i] = tt[i]
          /\ more[n + 1] = e
      BY AppendProperties, LenProperties
    <2>2. FlattenSeq(tt) \in Seq(S) /\ FlattenSeq(more) = FlattenSeq(tt) \o e
      BY FlattenAppend
    <2>3. /\ Lens(tt) \in Seq(Nat) /\ Len(Lens(tt)) = n /\ Len(e) \in Nat
          /\ Lens(more) = Append(Lens(tt), Len(e))
      BY LensAppend
    <2>4. Len(FlattenSeq(tt)) = Total(Lens(tt))
      BY FlattenLength
    <2>5. \A i \in 0..n : Upto(Lens(more), i) = Upto(Lens(tt), i)
      BY <2>3, UptoAppend
    <2>6. /\ Len(FlattenSeq(tt)) \in Nat
          /\ \A p \in 1..Len(FlattenSeq(tt)) : FlattenSeq(more)[p] = FlattenSeq(tt)[p]
          /\ \A h \in 1..Len(e) : FlattenSeq(more)[Len(FlattenSeq(tt)) + h] = e[h]
      BY <2>2, <2>3, ConcatProperties, LenProperties
    <2>. HIDE DEF n, more
    <2>7. ASSUME NEW i \in 1..n, NEW h \in 1..Len(more[i])
          PROVE  FlattenSeq(more)[Upto(Lens(more), i - 1) + h] = more[i][h]
      <3>1. i - 1 \in 0..n /\ i \in 1..Len(Lens(tt)) /\ i - 1 \in 0..Len(Lens(tt)) /\ i \in i..Len(Lens(tt))
            /\ i \in 0..Len(Lens(tt)) /\ n \in i..Len(Lens(tt)) /\ more[i] = tt[i]
        BY <2>1, <2>3
      <3>2. Lens(tt)[i] = Len(tt[i])
        BY <3>1 DEF Lens, n
      <3>3. Upto(Lens(tt), i) = Upto(Lens(tt), i - 1) + Len(tt[i])
        BY <2>3, <3>1, <3>2, UptoStep
      <3>4. Upto(Lens(tt), i) <= Upto(Lens(tt), n)
        BY <2>3, <3>1, UptoGrows
      <3>5. Upto(Lens(tt), n) = Total(Lens(tt))
        BY <2>3, UptoEnds
      <3>6. Upto(Lens(tt), i - 1) \in Nat
        BY <2>3, <3>1, UptoNat
      <3>7. Upto(Lens(tt), i - 1) + h \in 1..Len(FlattenSeq(tt))
        <4>1. h \in 1..Len(tt[i])
          BY <3>1
        <4>2. Len(tt[i]) \in Nat
          <5>1. tt[i] \in Seq(S)
            BY <2>1, ElementOfSeq DEF n
          <5>. QED
            BY <5>1, LenProperties
        <4>3. Upto(Lens(tt), i - 1) + Len(tt[i]) <= Len(FlattenSeq(tt))
          BY <2>4, <3>3, <3>4, <3>5
        <4>4. PICK a \in Nat : a = Upto(Lens(tt), i - 1)
          BY <3>6
        <4>5. PICK b \in Nat : b = Len(tt[i])
          BY <4>2
        <4>6. PICK c \in Nat : c = Len(FlattenSeq(tt))
          BY <2>6
        <4>7. a + b <= c /\ h \in 1..b
          BY <4>1, <4>3, <4>4, <4>5, <4>6
        <4>8. a + h \in 1..c
          BY <4>7
        <4>. QED
          BY <4>4, <4>6, <4>8
      <3>8. FlattenSeq(tt)[Upto(Lens(tt), i - 1) + h] = tt[i][h]
        BY <1>2, <3>1 DEF n
      <3>. QED
        BY <2>5, <2>6, <3>1, <3>7, <3>8
    <2>8. ASSUME NEW i, i = n + 1, NEW h \in 1..Len(more[i])
          PROVE  FlattenSeq(more)[Upto(Lens(more), i - 1) + h] = more[i][h]
      <3>1. Upto(Lens(more), i - 1) = Len(FlattenSeq(tt))
        <4>1. i - 1 = n /\ n \in 0..n
          <5>1. n \in Nat /\ i = n + 1
            BY <2>1, <2>8
          <5>. QED
            BY <5>1
        <4>2. Upto(Lens(tt), n) = Total(Lens(tt))
          BY <2>3, UptoEnds
        <4>. QED
          BY <2>4, <2>5, <4>1, <4>2
      <3>. QED
        BY <2>1, <2>6, <2>8, <3>1
    <2>9. ASSUME NEW i \in 1..Len(more), NEW h \in 1..Len(more[i])
          PROVE  FlattenSeq(more)[Upto(Lens(more), i - 1) + h] = more[i][h]
      <3>1. CASE i \in 1..n
        BY <2>7, <3>1
      <3>2. CASE i = n + 1
        BY <2>8, <3>2
      <3>. QED
        BY <2>1, <3>1, <3>2
    <2>. QED
      BY <2>1, <2>9 DEF more
  <1>. HIDE DEF T
  <1>3. \A tt \in Seq(Seq(S)) : tt \in T
    BY <1>1, <1>2, SeqInduction
  <1>. QED
    BY <1>3 DEF T

\* Every place of a sum belongs to one of its parts.
LEMMA UptoFinds ==
  ASSUME NEW lens \in Seq(Nat), NEW p \in 1..Total(lens)
  PROVE  \E k \in 1..Len(lens) : \E j \in 1..lens[k] : p = Upto(lens, k - 1) + j
PROOF
  <1>. DEFINE n == Len(lens)
              T == {k \in 1..n : p <= Upto(lens, k)}
  <1>1. n \in Nat /\ Upto(lens, 0) = 0 /\ Upto(lens, n) = Total(lens)
    BY LenProperties, UptoEnds
  <1>2. \A k \in 0..n : Upto(lens, k) \in Nat
    BY UptoNat
  <1>3. n \in T
    <2>1. Upto(lens, n) \in Nat /\ p <= Upto(lens, n)
      BY <1>1, <1>2
    <2>2. n # 0
      BY <1>1, <2>1
    <2>. QED
      BY <1>1, <2>1, <2>2
  <1>4. PICK k \in T : \A i \in T : k <= i
    <2>1. T \subseteq Nat /\ T # {}
      BY <1>3
    <2>. HIDE DEF T
    <2>. QED
      BY <2>1, LeastOne
  <1>5. k \in 1..n /\ p <= Upto(lens, k) /\ k - 1 \in 0..n
    BY <1>1, <1>4
  <1>6. Upto(lens, k - 1) < p
    <2>1. CASE k - 1 = 0
      BY <1>1, <2>1
    <2>2. CASE k - 1 # 0
      <3>1. k - 1 \notin T /\ k - 1 \in 1..n
        BY <1>1, <1>4, <1>5, <2>2
      <3>2. ~ (p <= Upto(lens, k - 1))
        BY <3>1
      <3>. QED
        BY <1>2, <1>5, <3>2
    <2>. QED
      BY <2>1, <2>2
  <1>7. lens[k] \in Nat /\ Upto(lens, k) = Upto(lens, k - 1) + lens[k]
    BY <1>5, ElementOfSeq, UptoStep
  <1>8. Upto(lens, k - 1) \in Nat
    BY <1>2, <1>5
  <1>9. PICK a \in Nat : a = Upto(lens, k - 1)
    BY <1>8
  <1>10. PICK b \in Nat : b = lens[k]
    BY <1>7
  <1>11. a < p /\ p <= a + b /\ p \in Int
    BY <1>5, <1>6, <1>7, <1>9, <1>10
  <1>12. p - a \in 1..b /\ p = a + (p - a)
    BY <1>11
  <1>. QED
    BY <1>5, <1>9, <1>10, <1>12

\* What is chosen of a sequence more is chosen at the end.
LEMMA OnlyJoins ==
  ASSUME NEW S, NEW ss \in Seq(Seq(S)), NEW e \in Seq(S), NEW K
  PROVE  /\ Only(FlattenSeq(Append(ss, e)), K) = Only(FlattenSeq(ss), K) \o Only(e, K)
         /\ Only(FlattenSeq(ss), K) \in Seq(S) /\ Only(e, K) \in Seq(S)
PROOF
  <1>1. PICK f \in Seq(S) : FlattenSeq(ss) = f /\ FlattenSeq(Append(ss, e)) = f \o e
    BY FlattenAppend
  <1>2. Only(f \o e, K) = Only(f, K) \o Only(e, K)
    BY OnlyConcat
  <1>3. Only(f, K) \in Seq(S) /\ Only(e, K) \in Seq(S)
    BY OnlyType
  <1>. QED
    BY <1>1, <1>2, <1>3

\* A sequence that is not empty is a shorter one and its last element.
LEMMA LastOff ==
  ASSUME NEW S, NEW s \in Seq(S), s # << >>
  PROVE  \E t \in Seq(S) : \E e \in S : s = Append(t, e)
PROOF
  <1>1. PICK k : k = Len(s)
    OBVIOUS
  <1>2. k \in 1..Len(s)
    BY <1>1, EmptySeq
  <1>3. /\ SubSeq(s, 1, k - 1) \in Seq(S) /\ s[k] \in S
        /\ SubSeq(s, 1, k) = Append(SubSeq(s, 1, k - 1), s[k])
    BY <1>2, LongerPrefix
  <1>4. SubSeq(s, 1, Len(s)) = s
    BY SubSeqFull
  <1>. QED
    BY <1>1, <1>3, <1>4

\* When each sequence has one element of K, those are chosen in their order.
LEMMA OnlyOfEach ==
  ASSUME NEW S, NEW ss \in Seq(Seq(S)), NEW K
  PROVE  \A m \in Seq(S) :
           Len(m) = Len(ss) /\ (\A k \in 1..Len(ss) : Only(ss[k], K) = <<m[k]>>) =>
             Only(FlattenSeq(ss), K) = m
PROOF
  <1>1. \A u \in Seq(S) : u # << >> => \E v \in Seq(S) : \E x \in S : u = Append(v, x)
    BY LastOff
  <1>. DEFINE Each(tt, u) == Len(u) = Len(tt) /\ \A k \in 1..Len(tt) : Only(tt[k], K) = <<u[k]>>
              T == {tt \in Seq(Seq(S)) : \A u \in Seq(S) : Each(tt, u) => Only(FlattenSeq(tt), K) = u}
  <1>2. << >> \in T
    <2>1. << >> \in Seq(Seq(S)) /\ Len(<< >>) = 0
      OBVIOUS
    <2>2. ASSUME NEW u \in Seq(S), Len(u) = 0 PROVE u = << >>
      BY <2>2, EmptySeq
    <2>. QED
      BY <2>1, <2>2, FlattenEmpty, OnlyEmpty
  <1>3. ASSUME NEW tt \in Seq(Seq(S)), NEW e \in Seq(S), tt \in T PROVE Append(tt, e) \in T
    <2>1. /\ Append(tt, e) \in Seq(Seq(S)) /\ Len(Append(tt, e)) = Len(tt) + 1 /\ Len(tt) \in Nat
          /\ \A k \in 1..Len(tt) : Append(tt, e)[k] = tt[k]
          /\ Append(tt, e)[Len(tt) + 1] = e
      BY AppendProperties, LenProperties
    <2>. SUFFICES ASSUME NEW u \in Seq(S), Each(Append(tt, e), u)
                  PROVE  Only(FlattenSeq(Append(tt, e)), K) = u
      BY <2>1
    <2>2. u \in Seq(S) /\ u # << >>
      BY <2>1
    <2>3. PICK v \in Seq(S) : \E x \in S : u = Append(v, x)
      BY <1>1, <2>2
    <2>4. PICK x \in S : u = Append(v, x)
      BY <2>3
    <2>5. Len(v) = Len(tt) /\ (\A k \in 1..Len(tt) : u[k] = v[k]) /\ u[Len(tt) + 1] = x
      <3>1. /\ Len(u) = Len(v) + 1 /\ Len(v) \in Nat
            /\ \A k \in 1..Len(v) : u[k] = v[k]
            /\ u[Len(v) + 1] = x
        BY <2>4, AppendProperties, LenProperties
      <3>2. Len(v) = Len(tt)
        BY <2>1, <3>1
      <3>. QED
        BY <3>1, <3>2
    <2>6. Each(tt, v)
      <3>. SUFFICES ASSUME NEW k \in 1..Len(tt) PROVE Only(tt[k], K) = <<v[k]>>
        BY <2>5
      <3>1. k \in 1..Len(Append(tt, e))
        BY <2>1
      <3>2. Only(Append(tt, e)[k], K) = <<u[k]>>
        BY <3>1
      <3>. QED
        BY <2>1, <2>5, <3>2
    <2>7. Only(FlattenSeq(tt), K) = v
      BY <1>3, <2>6
    <2>8. Only(e, K) = <<x>>
      <3>1. Len(tt) + 1 \in 1..Len(Append(tt, e))
        BY <2>1
      <3>2. Only(Append(tt, e)[Len(tt) + 1], K) = <<u[Len(tt) + 1]>>
        BY <3>1
      <3>. QED
        BY <2>1, <2>5, <3>2
    <2>9. /\ Only(FlattenSeq(Append(tt, e)), K) = Only(FlattenSeq(tt), K) \o Only(e, K)
          /\ Only(FlattenSeq(tt), K) \in Seq(S) /\ Only(e, K) \in Seq(S)
      BY OnlyJoins
    <2>10. Append(v, x) = v \o <<x>>
      BY AppendIsConcat
    <2>. QED
      BY <2>4, <2>7, <2>8, <2>9, <2>10
  <1>. HIDE DEF T
  <1>4. \A tt \in Seq(Seq(S)) : tt \in T
    BY <1>2, <1>3, SeqInduction
  <1>. QED
    BY <1>4 DEF T

\* When each sequence has some element of K, there are as many as sequences at least.
LEMMA OnlyOfEachSome ==
  ASSUME NEW S, NEW ss \in Seq(Seq(S)), NEW K,
         \A k \in 1..Len(ss) : Len(Only(ss[k], K)) >= 1
  PROVE  Len(Only(FlattenSeq(ss), K)) >= Len(ss)
PROOF
  <1>. DEFINE Each(tt) == \A k \in 1..Len(tt) : Len(Only(tt[k], K)) >= 1
              T == {tt \in Seq(Seq(S)) : Each(tt) => Len(Only(FlattenSeq(tt), K)) >= Len(tt)}
  <1>1. << >> \in T
    <2>1. << >> \in Seq(Seq(S)) /\ Len(<< >>) = 0
      OBVIOUS
    <2>. QED
      BY <2>1, FlattenEmpty, OnlyEmpty
  <1>2. ASSUME NEW tt \in Seq(Seq(S)), NEW e \in Seq(S), tt \in T PROVE Append(tt, e) \in T
    <2>1. /\ Append(tt, e) \in Seq(Seq(S)) /\ Len(Append(tt, e)) = Len(tt) + 1 /\ Len(tt) \in Nat
          /\ \A k \in 1..Len(tt) : Append(tt, e)[k] = tt[k]
          /\ Append(tt, e)[Len(tt) + 1] = e
      BY AppendProperties, LenProperties
    <2>. SUFFICES ASSUME Each(Append(tt, e))
                  PROVE  Len(Only(FlattenSeq(Append(tt, e)), K)) >= Len(Append(tt, e))
      BY <2>1
    <2>2. Each(tt)
      <3>. SUFFICES ASSUME NEW k \in 1..Len(tt) PROVE Len(Only(tt[k], K)) >= 1
        OBVIOUS
      <3>1. k \in 1..Len(Append(tt, e))
        BY <2>1
      <3>2. Len(Only(Append(tt, e)[k], K)) >= 1
        BY <3>1
      <3>. QED
        BY <2>1, <3>2
    <2>3. Len(Only(e, K)) >= 1
      <3>1. Len(tt) + 1 \in 1..Len(Append(tt, e))
        BY <2>1
      <3>2. Len(Only(Append(tt, e)[Len(tt) + 1], K)) >= 1
        BY <3>1
      <3>. QED
        BY <2>1, <3>2
    <2>4. /\ Only(FlattenSeq(Append(tt, e)), K) = Only(FlattenSeq(tt), K) \o Only(e, K)
          /\ Only(FlattenSeq(tt), K) \in Seq(S) /\ Only(e, K) \in Seq(S)
      BY OnlyJoins
    <2>5. /\ Len(Only(FlattenSeq(tt), K) \o Only(e, K)) = Len(Only(FlattenSeq(tt), K)) + Len(Only(e, K))
          /\ Len(Only(FlattenSeq(tt), K)) \in Nat /\ Len(Only(e, K)) \in Nat
      BY <2>4, ConcatProperties, LenProperties
    <2>6. Len(Only(FlattenSeq(tt), K)) >= Len(tt)
      BY <1>2, <2>2
    <2>. QED
      BY <2>1, <2>3, <2>4, <2>5, <2>6
  <1>. HIDE DEF T
  <1>3. \A tt \in Seq(Seq(S)) : tt \in T
    BY <1>1, <1>2, SeqInduction
  <1>. QED
    BY <1>3 DEF T

\* When no sequence has an element of K, none is chosen.
LEMMA OnlyOfNone ==
  ASSUME NEW S, NEW ss \in Seq(Seq(S)), NEW K, \A k \in 1..Len(ss) : Only(ss[k], K) = << >>
  PROVE  Only(FlattenSeq(ss), K) = << >>
PROOF
  <1>. DEFINE Each(tt) == \A k \in 1..Len(tt) : Only(tt[k], K) = << >>
              T == {tt \in Seq(Seq(S)) : Each(tt) => Only(FlattenSeq(tt), K) = << >>}
  <1>1. << >> \in T
    <2>1. << >> \in Seq(Seq(S))
      OBVIOUS
    <2>. QED
      BY <2>1, FlattenEmpty, OnlyEmpty
  <1>2. ASSUME NEW tt \in Seq(Seq(S)), NEW e \in Seq(S), tt \in T PROVE Append(tt, e) \in T
    <2>1. /\ Append(tt, e) \in Seq(Seq(S)) /\ Len(Append(tt, e)) = Len(tt) + 1 /\ Len(tt) \in Nat
          /\ \A k \in 1..Len(tt) : Append(tt, e)[k] = tt[k]
          /\ Append(tt, e)[Len(tt) + 1] = e
      BY AppendProperties, LenProperties
    <2>. SUFFICES ASSUME Each(Append(tt, e))
                  PROVE  Only(FlattenSeq(Append(tt, e)), K) = << >>
      BY <2>1
    <2>2. \A k \in 1..Len(tt) : k \in 1..Len(Append(tt, e))
      BY <2>1
    <2>3. Each(tt)
      BY <2>1, <2>2
    <2>4. Only(e, K) = << >>
      <3>1. Len(tt) + 1 \in 1..Len(Append(tt, e))
        BY <2>1
      <3>. QED
        BY <2>1, <3>1
    <2>5. /\ Only(FlattenSeq(Append(tt, e)), K) = Only(FlattenSeq(tt), K) \o Only(e, K)
          /\ Only(FlattenSeq(tt), K) \in Seq(S) /\ Only(e, K) \in Seq(S)
      BY OnlyJoins
    <2>6. Only(FlattenSeq(tt), K) = << >>
      BY <1>2, <2>3
    <2>7. Only(FlattenSeq(Append(tt, e)), K) = << >> \o << >>
      BY <2>4, <2>5, <2>6
    <2>8. << >> \o << >> = << >>
      BY ConcatEmptySeq, EmptySeq
    <2>. QED
      BY <2>7, <2>8
  <1>. HIDE DEF T
  <1>3. \A tt \in Seq(Seq(S)) : tt \in T
    BY <1>1, <1>2, SeqInduction
  <1>. QED
    BY <1>3 DEF T

\* As many are chosen as of any of the sequences, at least.
LEMMA OnlyOfCovers ==
  ASSUME NEW S, NEW ss \in Seq(Seq(S)), NEW K, NEW o \in 1..Len(ss)
  PROVE  Len(Only(FlattenSeq(ss), K)) >= Len(Only(ss[o], K))
PROOF
  <1>. DEFINE T == {tt \in Seq(Seq(S)) : o \in 1..Len(tt) =>
                      Len(Only(FlattenSeq(tt), K)) >= Len(Only(tt[o], K))}
  <1>1. << >> \in T
    <2>1. << >> \in Seq(Seq(S)) /\ Len(<< >>) = 0
      OBVIOUS
    <2>2. o \notin 1..Len(<< >>)
      BY <2>1
    <2>. QED
      BY <2>1, <2>2
  <1>2. ASSUME NEW tt \in Seq(Seq(S)), NEW e \in Seq(S), tt \in T PROVE Append(tt, e) \in T
    <2>1. /\ Append(tt, e) \in Seq(Seq(S)) /\ Len(Append(tt, e)) = Len(tt) + 1 /\ Len(tt) \in Nat
          /\ \A k \in 1..Len(tt) : Append(tt, e)[k] = tt[k]
          /\ Append(tt, e)[Len(tt) + 1] = e
      BY AppendProperties, LenProperties
    <2>2. /\ Only(FlattenSeq(Append(tt, e)), K) = Only(FlattenSeq(tt), K) \o Only(e, K)
          /\ Only(FlattenSeq(tt), K) \in Seq(S) /\ Only(e, K) \in Seq(S)
      BY OnlyJoins
    <2>3. PICK a \in Nat, b \in Nat, c \in Nat :
            /\ a = Len(Only(FlattenSeq(tt), K)) /\ b = Len(Only(e, K))
            /\ c = Len(Only(FlattenSeq(Append(tt, e)), K)) /\ c = a + b
      BY <2>2, ConcatProperties, LenProperties
    <2>4. c >= a /\ c >= b
      BY <2>3
    <2>. SUFFICES ASSUME o \in 1..Len(Append(tt, e))
                  PROVE  c >= Len(Only(Append(tt, e)[o], K))
      BY <2>1, <2>3
    <2>5. CASE o \in 1..Len(tt)
      <3>1. a >= Len(Only(tt[o], K))
        BY <1>2, <2>3, <2>5
      <3>2. Append(tt, e)[o] = tt[o]
        BY <2>1, <2>5
      <3>3. Len(Only(tt[o], K)) \in Nat
        <4>1. tt[o] \in Seq(S)
          BY <2>5, ElementOfSeq
        <4>2. Only(tt[o], K) \in Seq(S)
          BY <4>1, OnlyType
        <4>. QED
          BY <4>2, LenProperties
      <3>. QED
        BY <2>3, <2>4, <3>1, <3>2, <3>3
    <2>6. CASE o \notin 1..Len(tt)
      <3>1. o = Len(tt) + 1
        <4>1. PICK n \in Nat : n = Len(tt)
          BY <2>1
        <4>2. o \in 1..(n + 1) /\ o \notin 1..n
          BY <2>1, <2>6, <4>1
        <4>3. o = n + 1
          BY <4>2
        <4>. QED
          BY <4>1, <4>3
      <3>2. Append(tt, e)[o] = e
        BY <2>1, <3>1
      <3>. QED
        BY <2>3, <2>4, <3>2
    <2>. QED
      BY <2>5, <2>6
  <1>. HIDE DEF T
  <1>3. \A tt \in Seq(Seq(S)) : tt \in T
    BY <1>1, <1>2, SeqInduction
  <1>. QED
    BY <1>3 DEF T

-----------------------------------------------------------------------------
(* The greatest of a sequence                                              *)

\* Of numbers there is a last one that is greatest.
LEMMA LastGreatest ==
  ASSUME NEW w \in Seq(Nat), w # << >>
  PROVE  \E o \in 1..Len(w) : \A i \in 1..Len(w) : w[i] < w[o] \/ (w[i] = w[o] /\ i <= o)
PROOF
  <1>. DEFINE Peak(v, o) == \A i \in 1..Len(v) : v[i] < v[o] \/ (v[i] = v[o] /\ i <= o)
              T == {v \in Seq(Nat) : v # << >> => \E o \in 1..Len(v) : Peak(v, o)}
  <1>1. << >> \in T
    OBVIOUS
  <1>2. ASSUME NEW v \in Seq(Nat), NEW e \in Nat, v \in T PROVE Append(v, e) \in T
    <2>. DEFINE more == Append(v, e)
                n == Len(v) + 1
    <2>1. /\ more \in Seq(Nat) /\ Len(more) = n /\ Len(v) \in Nat
          /\ \A k \in 1..Len(v) : more[k] = v[k]
          /\ more[n] = e /\ n \in 1..n
      BY AppendProperties, LenProperties
    <2>2. \A k \in 1..Len(v) : v[k] \in Nat /\ k \in 1..n /\ k <= n
      BY <2>1, ElementOfSeq
    <2>3. \A k \in 1..n : k \in 1..Len(v) \/ k = n
      BY <2>1
    <2>. HIDE DEF more, n
    <2>4. CASE \A k \in 1..Len(v) : v[k] <= e
      <3>1. ASSUME NEW i \in 1..n PROVE more[i] < more[n] \/ (more[i] = more[n] /\ i <= n)
        <4>1. CASE i = n
          BY <2>1, <4>1 DEF n
        <4>2. CASE i \in 1..Len(v)
          <5>1. more[i] = v[i] /\ v[i] <= e /\ v[i] \in Nat /\ i <= n
            BY <2>1, <2>2, <2>4, <4>2
          <5>2. more[n] = e
            BY <2>1
          <5>. QED
            BY <5>1, <5>2
        <4>. QED
          BY <2>3, <4>1, <4>2
      <3>. QED
        BY <2>1, <3>1 DEF more
    <2>5. CASE \E k \in 1..Len(v) : ~ (v[k] <= e)
      <3>1. PICK k \in 1..Len(v) : ~ (v[k] <= e)
        BY <2>5
      <3>2. v # << >>
        BY <3>1
      <3>3. PICK o \in 1..Len(v) : Peak(v, o)
        BY <1>2, <3>2
      <3>4. ASSUME NEW i \in 1..n PROVE more[i] < more[o] \/ (more[i] = more[o] /\ i <= o)
        <4>1. CASE i = n
          <5>1. v[k] < v[o] \/ v[k] = v[o]
            BY <3>3
          <5>2. v[k] \in Nat /\ v[o] \in Nat /\ more[o] = v[o] /\ more[i] = e
            BY <2>1, <2>2, <4>1
          <5>3. PICK x \in Nat, y \in Nat : x = v[k] /\ y = v[o]
            BY <5>2
          <5>4. ~ (x <= e) /\ (x < y \/ x = y)
            BY <3>1, <5>1, <5>3
          <5>5. e < y
            BY <5>4
          <5>. QED
            BY <5>2, <5>3, <5>5
        <4>2. CASE i \in 1..Len(v)
          BY <2>1, <3>3, <4>2
        <4>. QED
          BY <2>3, <4>1, <4>2
      <3>. QED
        BY <2>1, <2>2, <3>4 DEF more
    <2>. QED
      BY <2>4, <2>5
  <1>. HIDE DEF T
  <1>3. \A v \in Seq(Nat) : v \in T
    BY <1>1, <1>2, SeqInduction
  <1>. QED
    BY <1>3 DEF T

-----------------------------------------------------------------------------
(* Tokens                                                                  *)

Ids == Kinds \cup {"cls", "sep", "slot", "letter"}
Parts == {"frame", "marker", "option", "question", "state", "no"}
Origin == Parts \X Int
Token == [id: Ids, of: Origin]

\* The tokens with an id, and the tokens of an origin.
Id(x) == {t \in Token : t.id = x}
Of(x) == {t \in Token : t.of = x}

\* How many tokens of a sequence are of an origin.
N(ids, of) == Len(Only(ids, Of(of)))

\* A text that is encoded keeps its tokens, each with the origin it was given.
LEMMA EncodeType ==
  ASSUME NEW X, X \subseteq Ids, NEW text \in Seq(X), NEW of \in Origin
  PROVE  /\ Encode(text, of) \in Seq(Token) /\ Len(Encode(text, of)) = Len(text)
         /\ Encode(text, of) \in Seq([id: X, of: {of}])
         /\ \A j \in 1..Len(text) : Encode(text, of)[j] = [id |-> text[j], of |-> of]
PROOF
  <1>1. Len(text) \in Nat /\ DOMAIN text = 1..Len(text) /\ \A j \in 1..Len(text) : text[j] \in X
    BY LenProperties, ElementOfSeq
  <1>2. Encode(text, of) = [j \in 1..Len(text) |-> [id |-> text[j], of |-> of]]
    BY <1>1 DEF Encode
  <1>3. \A j \in 1..Len(text) : [id |-> text[j], of |-> of] \in [id: X, of: {of}]
    BY <1>1
  <1>4. Encode(text, of) \in [1..Len(text) -> [id: X, of: {of}]]
    BY <1>2, <1>3
  <1>5. Encode(text, of) \in Seq([id: X, of: {of}]) /\ Len(Encode(text, of)) = Len(text)
    <2>1. PICK n \in Nat : n = Len(text)
      BY <1>1
    <2>2. Encode(text, of) \in [1..n -> [id: X, of: {of}]]
      BY <1>4, <2>1
    <2>3. Encode(text, of) \in Seq([id: X, of: {of}]) /\ Len(Encode(text, of)) = n
      BY <2>2, FunctionIsSeq
    <2>. QED
      BY <2>1, <2>3
  <1>6. [id: X, of: {of}] \subseteq Token
    BY DEF Token
  <1>7. Encode(text, of) \in Seq(Token)
    BY <1>5, <1>6, SeqMonotonic
  <1>. QED
    BY <1>2, <1>5, <1>7

\* All tokens of an encoded text are of the origin it was given.
LEMMA CountEncode ==
  ASSUME NEW X, X \subseteq Ids, NEW text \in Seq(X), NEW of \in Origin, NEW x
  PROVE  N(Encode(text, of), x) = IF x = of THEN Len(text) ELSE 0
PROOF
  <1>1. /\ Encode(text, of) \in Seq([id: X, of: {of}])
        /\ Len(Encode(text, of)) = Len(text)
    BY EncodeType
  <1>2. CASE x = of
    <2>1. [id: X, of: {of}] \subseteq Of(x)
      BY <1>2 DEF Of, Token
    <2>2. PICK K : K = Of(x) /\ [id: X, of: {of}] \subseteq K
      BY <2>1
    <2>3. PICK s \in Seq([id: X, of: {of}]) : s = Encode(text, of)
      BY <1>1
    <2>4. Only(s, K) = s
      <3>1. PICK S : S = [id: X, of: {of}]
        OBVIOUS
      <3>2. s \in Seq(S) /\ S \subseteq K
        BY <2>2, <2>3, <3>1
      <3>. QED
        BY <3>2, OnlyAll
    <2>. QED
      BY <1>1, <1>2, <2>2, <2>3, <2>4 DEF N
  <1>3. CASE x # of
    <2>1. [id: X, of: {of}] \cap Of(x) = {}
      BY <1>3 DEF Of, Token
    <2>2. PICK K : K = Of(x) /\ [id: X, of: {of}] \cap K = {}
      BY <2>1
    <2>3. PICK s \in Seq([id: X, of: {of}]) : s = Encode(text, of)
      BY <1>1
    <2>4. Only(s, K) = << >>
      BY <2>2, OnlyNone
    <2>5. Len(<< >>) = 0
      OBVIOUS
    <2>. QED
      BY <1>3, <2>2, <2>3, <2>4, <2>5 DEF N
  <1>. QED
    BY <1>2, <1>3

\* Counts add up.
LEMMA CountConcat ==
  ASSUME NEW s \in Seq(Token), NEW t \in Seq(Token), NEW x
  PROVE  /\ N(s, x) \in Nat /\ N(t, x) \in Nat
         /\ s \o t \in Seq(Token) /\ N(s \o t, x) = N(s, x) + N(t, x)
PROOF
  <1>1. Only(s \o t, Of(x)) = Only(s, Of(x)) \o Only(t, Of(x))
    BY OnlyConcat
  <1>2. Only(s, Of(x)) \in Seq(Token) /\ Only(t, Of(x)) \in Seq(Token)
    BY OnlyType
  <1>3. /\ Len(Only(s, Of(x)) \o Only(t, Of(x))) = Len(Only(s, Of(x))) + Len(Only(t, Of(x)))
        /\ Len(Only(s, Of(x))) \in Nat /\ Len(Only(t, Of(x))) \in Nat
    BY <1>2, ConcatProperties, LenProperties
  <1>4. s \o t \in Seq(Token)
    BY ConcatProperties
  <1>. QED
    BY <1>1, <1>3, <1>4 DEF N

\* A count is of places.
LEMMA CountPlaces ==
  ASSUME NEW s \in Seq(Token), NEW x
  PROVE  Cardinality({p \in DOMAIN s : s[p].of = x}) = N(s, x)
PROOF
  <1>1. Len(s) \in Nat /\ DOMAIN s = 1..Len(s) /\ \A p \in 1..Len(s) : s[p] \in Token
    BY LenProperties, ElementOfSeq
  <1>2. {p \in DOMAIN s : s[p].of = x} = {p \in 1..Len(s) : s[p] \in Of(x)}
    BY <1>1 DEF Of
  <1>3. Cardinality({p \in 1..Len(s) : s[p] \in Of(x)}) = Len(Only(s, Of(x)))
    BY OnlyCounts
  <1>. QED
    BY <1>2, <1>3 DEF N

\* A frame is of the frame.
LEMMA FrameType ==
  ASSUME NEW ids \in Seq(Ids), NEW x, x # <<"frame", 0>>
  PROVE  Frame(ids) \in Seq(Token) /\ Len(Frame(ids)) = Len(ids) /\ N(Frame(ids), x) = 0
PROOF
  <1>1. Ids \subseteq Ids
    OBVIOUS
  <1>2. PICK of \in Origin : of = <<"frame", 0>>
    <2>1. <<"frame", 0>> \in Origin
      BY DEF Origin, Parts
    <2>. QED
      BY <2>1
  <1>3. /\ Encode(ids, of) \in Seq(Token) /\ Len(Encode(ids, of)) = Len(ids)
        /\ Encode(ids, of) \in Seq([id: Ids, of: {of}])
        /\ \A j \in 1..Len(ids) : Encode(ids, of)[j] = [id |-> ids[j], of |-> of]
    BY <1>1, EncodeType, Zenon
  <1>4. N(Encode(ids, of), x) = IF x = of THEN Len(ids) ELSE 0
    BY <1>1, CountEncode
  <1>. QED
    BY <1>2, <1>3, <1>4 DEF Frame

\* A marker is one token.
LEMMA MarkerType ==
  ASSUME NEW id \in Ids, NEW o \in Int, NEW x
  PROVE  /\ Marker(id, o) \in Seq(Token) /\ Len(Marker(id, o)) = 1
         /\ Marker(id, o)[1] = [id |-> id, of |-> <<"marker", o>>]
         /\ Marker(id, o) = Encode(<<id>>, <<"marker", o>>)
         /\ N(Marker(id, o), x) = IF x = <<"marker", o>> THEN 1 ELSE 0
PROOF
  <1>1. Ids \subseteq Ids
    OBVIOUS
  <1>2. PICK of \in Origin : of = <<"marker", o>>
    <2>1. <<"marker", o>> \in Origin
      BY DEF Origin, Parts
    <2>. QED
      BY <2>1
  <1>a. PICK text \in Seq(Ids) : text = <<id>> /\ Len(text) = 1
    <2>2. <<id>> \in Seq(Ids) /\ Len(<<id>>) = 1
      OBVIOUS
    <2>. QED
      BY <2>2
  <1>3. /\ Encode(text, of) \in Seq(Token) /\ Len(Encode(text, of)) = Len(text)
        /\ Encode(text, of) \in Seq([id: Ids, of: {of}])
        /\ \A j \in 1..Len(text) : Encode(text, of)[j] = [id |-> text[j], of |-> of]
    BY <1>1, EncodeType, Zenon
  <1>4. N(Encode(text, of), x) = IF x = of THEN Len(text) ELSE 0
    BY <1>1, CountEncode
  <1>5. Marker(id, o) = Encode(text, of)
    <2>1. Encode(text, of) = [j \in 1..1 |-> [id |-> <<id>>[j], of |-> <<"marker", o>>]]
      BY <1>2, <1>a DEF Encode
    <2>2. Marker(id, o) = <<[id |-> id, of |-> <<"marker", o>>]>>
      BY DEF Marker
    <2>. QED
      BY <2>1, <2>2
  <1>6. Marker(id, o)[1] = [id |-> id, of |-> <<"marker", o>>]
    BY DEF Marker
  <1>. QED
    BY <1>2, <1>a, <1>3, <1>4, <1>5, <1>6

-----------------------------------------------------------------------------
(* Prefixes                                                                *)

\* Take keeps the first n elements, or all.
LEMMA TakeType ==
  ASSUME NEW S, NEW s \in Seq(S), NEW n \in Nat
  PROVE  /\ Take(s, n) \in Seq(S) /\ Len(Take(s, n)) = Least(n, Len(s))
         /\ \A j \in 1..Least(n, Len(s)) : Take(s, n)[j] = s[j]
         /\ Len(s) <= n => Take(s, n) = s
PROOF
  <1>1. Len(s) \in Nat /\ \A j \in 1..Len(s) : s[j] \in S
    BY LenProperties, ElementOfSeq
  <1>2. PICK m \in Nat : m = Least(n, Len(s)) /\ m <= Len(s) /\ (Len(s) <= n => m = Len(s))
    BY <1>1 DEF Least
  <1>3. \A j \in 1..m : s[j] \in S
    BY <1>1, <1>2
  <1>4. /\ SubSeq(s, 1, m) \in Seq(S)
        /\ Len(SubSeq(s, 1, m)) = IF 1 <= m THEN m - 1 + 1 ELSE 0
        /\ \A j \in 1..(m - 1 + 1) : SubSeq(s, 1, m)[j] = s[1 + j - 1]
    BY <1>3, SubSeqProperties
  <1>5. Len(SubSeq(s, 1, m)) = m /\ \A j \in 1..m : SubSeq(s, 1, m)[j] = s[j]
    BY <1>4
  <1>6. SubSeq(s, 1, Len(s)) = s
    BY SubSeqFull
  <1>. QED
    BY <1>2, <1>4, <1>5, <1>6 DEF Take

\* The beginning of an encoded text is the beginning of the text, encoded.
LEMMA TakeEncode ==
  ASSUME NEW X, X \subseteq Ids, NEW text \in Seq(X), NEW of \in Origin, NEW n \in Nat
  PROVE  Take(Encode(text, of), n) = Encode(Take(text, n), of)
PROOF
  <1>1. /\ Encode(text, of) \in Seq(Token) /\ Len(Encode(text, of)) = Len(text)
        /\ \A j \in 1..Len(text) : Encode(text, of)[j] = [id |-> text[j], of |-> of]
    BY EncodeType, Zenon
  <1>2. /\ Take(text, n) \in Seq(X) /\ Len(Take(text, n)) = Least(n, Len(text))
        /\ \A j \in 1..Least(n, Len(text)) : Take(text, n)[j] = text[j]
    BY TakeType
  <1>3. /\ Take(Encode(text, of), n) \in Seq(Token)
        /\ Len(Take(Encode(text, of), n)) = Least(n, Len(text))
        /\ \A j \in 1..Least(n, Len(text)) : Take(Encode(text, of), n)[j] = Encode(text, of)[j]
    <2>1. PICK s \in Seq(Token) : s = Encode(text, of)
      BY <1>1
    <2>2. /\ Take(s, n) \in Seq(Token) /\ Len(Take(s, n)) = Least(n, Len(s))
          /\ \A j \in 1..Least(n, Len(s)) : Take(s, n)[j] = s[j]
      BY TakeType
    <2>. QED
      BY <1>1, <2>1, <2>2
  <1>4. /\ Encode(Take(text, n), of) \in Seq(Token)
        /\ Len(Encode(Take(text, n), of)) = Least(n, Len(text))
        /\ \A j \in 1..Least(n, Len(text)) :
             Encode(Take(text, n), of)[j] = [id |-> Take(text, n)[j], of |-> of]
    <2>1. PICK t \in Seq(X) : t = Take(text, n)
      BY <1>2
    <2>2. /\ Encode(t, of) \in Seq(Token) /\ Len(Encode(t, of)) = Len(t)
          /\ Encode(t, of) \in Seq([id: X, of: {of}])
          /\ \A j \in 1..Len(t) : Encode(t, of)[j] = [id |-> t[j], of |-> of]
      BY EncodeType, Zenon
    <2>. QED
      BY <1>2, <2>1, <2>2
  <1>5. Least(n, Len(text)) \in Nat /\ Least(n, Len(text)) <= Len(text)
    BY LenProperties DEF Least
  <1>6. \A j \in 1..Least(n, Len(text)) : Take(Encode(text, of), n)[j] = Encode(Take(text, n), of)[j]
    <2>1. \A j \in 1..Least(n, Len(text)) : j \in 1..Len(text)
      BY <1>5, LenProperties
    <2>. QED
      BY <1>1, <1>2, <1>3, <1>4, <2>1
  <1>. QED
    BY <1>3, <1>4, <1>6, SeqEqual

\* What is kept of a concatenation that is too long is the first part and the
\* beginning of the second.
LEMMA TakeConcat ==
  ASSUME NEW S, NEW s \in Seq(S), NEW t \in Seq(S), NEW n \in Nat, Len(s) <= n
  PROVE  n - Len(s) \in Nat /\ Take(s \o t, n) = s \o Take(t, n - Len(s))
PROOF
  <1>1. /\ Len(s) \in Nat /\ Len(t) \in Nat /\ s \o t \in Seq(S)
        /\ Len(s \o t) = Len(s) + Len(t)
        /\ \A i \in 1..(Len(s) + Len(t)) : (s \o t)[i] = IF i <= Len(s) THEN s[i] ELSE t[i - Len(s)]
    BY ConcatProperties, LenProperties
  <1>2. PICK m \in Nat : m = n - Len(s)
    <2>1. PICK l \in Nat : l = Len(s) /\ l <= n
      BY <1>1
    <2>2. n - l \in Nat
      BY <2>1
    <2>. QED
      BY <2>1, <2>2
  <1>3. PICK k \in Nat : k = Least(m, Len(t)) /\ k <= Len(t)
    BY <1>1 DEF Least
  <1>4. Least(n, Len(s \o t)) = Len(s) + k
    BY <1>1, <1>2, <1>3 DEF Least
  <1>5. /\ Take(s \o t, n) \in Seq(S) /\ Len(Take(s \o t, n)) = Len(s) + k
        /\ \A j \in 1..(Len(s) + k) : Take(s \o t, n)[j] = (s \o t)[j]
    <2>1. PICK u \in Seq(S) : u = s \o t
      BY <1>1
    <2>2. /\ Take(u, n) \in Seq(S) /\ Len(Take(u, n)) = Least(n, Len(u))
          /\ \A j \in 1..Least(n, Len(u)) : Take(u, n)[j] = u[j]
      BY TakeType
    <2>. QED
      BY <1>4, <2>1, <2>2
  <1>6. /\ Take(t, m) \in Seq(S) /\ Len(Take(t, m)) = k
        /\ \A j \in 1..k : Take(t, m)[j] = t[j]
    BY <1>3, TakeType
  <1>7. /\ s \o Take(t, m) \in Seq(S) /\ Len(s \o Take(t, m)) = Len(s) + k
        /\ \A i \in 1..(Len(s) + k) :
             (s \o Take(t, m))[i] = IF i <= Len(s) THEN s[i] ELSE Take(t, m)[i - Len(s)]
    <2>1. PICK u \in Seq(S) : u = Take(t, m) /\ Len(u) = k
      BY <1>6
    <2>2. /\ s \o u \in Seq(S) /\ Len(s \o u) = Len(s) + Len(u)
          /\ \A i \in 1..(Len(s) + Len(u)) : (s \o u)[i] = IF i <= Len(s) THEN s[i] ELSE u[i - Len(s)]
      BY ConcatProperties
    <2>. QED
      BY <2>1, <2>2
  <1>8. ASSUME NEW j \in 1..(Len(s) + k) PROVE Take(s \o t, n)[j] = (s \o Take(t, m))[j]
    <2>1. j \in 1..(Len(s) + Len(t))
      BY <1>1, <1>3
    <2>2. CASE j <= Len(s)
      BY <1>1, <1>5, <1>7, <2>1, <2>2
    <2>3. CASE ~ (j <= Len(s))
      <3>1. j - Len(s) \in 1..k
        BY <1>1, <2>3
      <3>. QED
        BY <1>1, <1>5, <1>6, <1>7, <2>1, <2>3, <3>1
    <2>. QED
      BY <2>2, <2>3
  <1>9. Take(s \o t, n) = s \o Take(t, m)
    BY <1>5, <1>7, <1>8, SeqEqual
  <1>. QED
    BY <1>2, <1>9

\* A text without a kind is a text of the other kinds.
LEMMA TextWithout ==
  ASSUME NEW X, NEW text \in Seq(X), NEW x, \A j \in 1..Len(text) : text[j] # x
  PROVE  text \in Seq(X \ {x})
PROOF
  <1>1. Len(text) \in Nat /\ \A j \in 1..Len(text) : text[j] \in X
    BY LenProperties, ElementOfSeq
  <1>2. PICK n \in Nat : n = Len(text)
    BY <1>1
  <1>3. text \in [1..n -> X \ {x}]
    BY <1>1, <1>2
  <1>. QED
    BY <1>2, <1>3, FunctionIsSeq

\* No token of an encoded text has an id that is none of the text's kinds.
LEMMA NoneEncoded ==
  ASSUME NEW X, X \subseteq Ids, NEW text \in Seq(X), NEW of \in Origin, NEW x, x \notin X
  PROVE  Only(Encode(text, of), Id(x)) = << >>
PROOF
  <1>1. Encode(text, of) \in Seq([id: X, of: {of}])
    <2>1. /\ Encode(text, of) \in Seq(Token) /\ Len(Encode(text, of)) = Len(text)
          /\ Encode(text, of) \in Seq([id: X, of: {of}])
          /\ \A j \in 1..Len(text) : Encode(text, of)[j] = [id |-> text[j], of |-> of]
      BY EncodeType, Zenon
    <2>. QED
      BY <2>1
  <1>2. PICK S : S = [id: X, of: {of}]
    OBVIOUS
  <1>a. [id: X, of: {of}] \cap Id(x) = {}
    BY DEF Id, Token
  <1>3. PICK K : K = Id(x) /\ S \cap K = {}
    BY <1>a, <1>2
  <1>4. PICK s \in Seq(S) : s = Encode(text, of)
    BY <1>1, <1>2
  <1>5. Only(s, K) = << >>
    BY <1>3, OnlyNone
  <1>. QED
    BY <1>3, <1>4, <1>5

\* A marker is the one token it is.
LEMMA MarkerFound ==
  ASSUME NEW id \in Ids, NEW o \in Int, NEW x
  PROVE  Only(Marker(id, o), Id(x)) = IF x = id THEN Marker(id, o) ELSE << >>
PROOF
  <1>1. PICK t \in Token : t = [id |-> id, of |-> <<"marker", o>>]
    <2>1. [id |-> id, of |-> <<"marker", o>>] \in Token
      BY DEF Token, Origin, Parts
    <2>. QED
      BY <2>1
  <1>2. Marker(id, o) = Append(<< >>, t) /\ << >> \in Seq(Token)
    BY <1>1 DEF Marker
  <1>3. Only(<< >>, Id(x)) = << >>
    BY OnlyEmpty
  <1>4. CASE x = id
    <2>1. t \in Id(x)
      BY <1>1, <1>4 DEF Id
    <2>2. PICK e \in Seq(Token) : e = << >>
      BY <1>2
    <2>3. Only(Append(e, t), Id(x)) = Append(Only(e, Id(x)), t)
      BY <2>1, OnlyTakes
    <2>. QED
      BY <1>2, <1>3, <1>4, <2>2, <2>3
  <1>5. CASE x # id
    <2>1. t \notin Id(x)
      BY <1>1, <1>5 DEF Id
    <2>2. PICK e \in Seq(Token) : e = << >>
      BY <1>2
    <2>3. Only(Append(e, t), Id(x)) = Only(e, Id(x))
      BY <2>1, OnlyDrops
    <2>. QED
      BY <1>2, <1>3, <1>5, <2>2, <2>3
  <1>. QED
    BY <1>4, <1>5

\* Of a concatenation the same elements are kept as of its parts.
LEMMA OnlyJoined ==
  \A s, t \in Seq(Token) : \A K : Only(s \o t, K) = Only(s, K) \o Only(t, K)
PROOF
  <1>. SUFFICES ASSUME NEW s \in Seq(Token), NEW t \in Seq(Token), NEW K
       PROVE  Only(s \o t, K) = Only(s, K) \o Only(t, K)
    OBVIOUS
  <1>. QED
    BY OnlyConcat

\* A concatenation of two.
LEMMA Concat2 ==
  ASSUME NEW a \in Seq(Token), NEW b \in Seq(Token)
  PROVE  /\ a \o b \in Seq(Token) /\ Len(a \o b) = Len(a) + Len(b)
         /\ \A x : N(a, x) \in Nat /\ N(b, x) \in Nat /\ N(a \o b, x) = N(a, x) + N(b, x)
         /\ \A K : Only(a \o b, K) = Only(a, K) \o Only(b, K)
PROOF
  <1>1. a \o b \in Seq(Token) /\ Len(a \o b) = Len(a) + Len(b)
    BY ConcatProperties
  <1>2. ASSUME NEW x
        PROVE  /\ N(a, x) \in Nat /\ N(b, x) \in Nat
               /\ a \o b \in Seq(Token) /\ N(a \o b, x) = N(a, x) + N(b, x)
    BY CountConcat
  <1>3. ASSUME NEW K PROVE Only(a \o b, K) = Only(a, K) \o Only(b, K)
    BY OnlyJoined
  <1>. QED
    BY <1>1, <1>2, <1>3

\* A concatenation of three, as rows are made of.
LEMMA Concat3 ==
  ASSUME NEW a \in Seq(Token), NEW b \in Seq(Token), NEW c \in Seq(Token)
  PROVE  /\ a \o b \o c \in Seq(Token) /\ Len(a \o b \o c) = Len(a) + Len(b) + Len(c)
         /\ \A K : Only(a \o b \o c, K) = Only(a, K) \o Only(b, K) \o Only(c, K)
PROOF
  <1>1. PICK ab \in Seq(Token) : ab = a \o b /\ Len(ab) = Len(a) + Len(b)
    BY ConcatProperties
  <1>2. ab \o c \in Seq(Token) /\ Len(ab \o c) = Len(ab) + Len(c)
    BY ConcatProperties
  <1>3. ASSUME NEW K PROVE Only(a \o b, K) = Only(a, K) \o Only(b, K)
    BY OnlyJoined, SMTT(30)
  <1>4. ASSUME NEW K PROVE Only(ab \o c, K) = Only(ab, K) \o Only(c, K)
    BY OnlyJoined, SMTT(30)
  <1>. QED
    BY <1>1, <1>2, <1>3, <1>4

\* Counts over a concatenation of three.
LEMMA Count3 ==
  ASSUME NEW a \in Seq(Token), NEW b \in Seq(Token), NEW c \in Seq(Token), NEW x
  PROVE  /\ N(a, x) \in Nat /\ N(b, x) \in Nat /\ N(c, x) \in Nat
         /\ N(a \o b \o c, x) = N(a, x) + N(b, x) + N(c, x)
PROOF
  <1>1. N(a, x) \in Nat /\ N(b, x) \in Nat /\ a \o b \in Seq(Token) /\ N(a \o b, x) = N(a, x) + N(b, x)
    BY CountConcat
  <1>2. PICK ab \in Seq(Token) : ab = a \o b
    BY <1>1
  <1>3. N(ab, x) \in Nat /\ N(c, x) \in Nat /\ ab \o c \in Seq(Token) /\ N(ab \o c, x) = N(ab, x) + N(c, x)
    BY CountConcat
  <1>. QED
    BY <1>1, <1>2, <1>3

-----------------------------------------------------------------------------
(* Questions                                                               *)

\* A question as the bindings hand it to a decider.
Question ==
  [kind: {"choice", "score", "noul"}, instructions: Text, options: Seq(Option),
   option_order: SUBSET Seq(Nat), true_criterion: Text, false_criterion: Text]

\* The bindings make a question of a tuple, and an order only of a choice's.
LEMMA ParseType ==
  ASSUME NEW t \in Tuples, NEW q \in parse(t)
  PROVE  q \in Question /\ (q.kind # "choice" => q.option_order = {})
PROOF
  <1>1. << >> \in Text
    BY DEF Text
  <1>2. PICK c : c = IF t.false_criterion = {} THEN << >> ELSE CHOOSE f \in t.false_criterion : TRUE
    OBVIOUS
  <1>3. c \in Text
    BY <1>1, <1>2 DEF Tuples
  <1>4. PICK order : order = {o \in t.order : t.kind = "choice" /\ ToSet(o) \subseteq Nat}
    OBVIOUS
  <1>5. order \subseteq Seq(Nat)
    <2>1. ASSUME NEW o \in order PROVE o \in Seq(Nat)
      <3>1. o \in Seq(Int) /\ ToSet(o) \subseteq Nat
        BY <1>4 DEF Tuples
      <3>2. Len(o) \in Nat /\ o \in [1..Len(o) -> Int]
        BY <3>1, LenProperties
      <3>3. o \in [1..Len(o) -> Nat]
        BY <3>1, <3>2 DEF ToSet
      <3>4. PICK n \in Nat : n = Len(o)
        BY <3>2
      <3>. QED
        BY <3>3, <3>4, FunctionIsSeq
    <2>. QED
      BY <2>1
  <1>6. t.kind \in {"choice", "score", "noul"} /\
        q = [kind |-> t.kind, instructions |-> t.instructions, options |-> t.options,
             option_order |-> order, true_criterion |-> t.true_criterion, false_criterion |-> c]
    BY <1>2, <1>4 DEF parse
  <1>7. t.instructions \in Text /\ t.options \in Seq(Option) /\ t.true_criterion \in Text
    BY DEF Tuples
  <1>8. q.kind # "choice" => q.option_order = {}
    BY <1>4, <1>6
  <1>. QED
    BY <1>3, <1>5, <1>6, <1>7, <1>8 DEF Question

-----------------------------------------------------------------------------
(* The rows of GLiClass                                                    *)

Row == [ids: Seq(Token), markers: Seq(Nat)]

\* An option as it is spliced into the text, and the instructions behind them.
Splice(q, o) == Marker("label", o) \o Encode(q.options[o].text, <<"option", o>>)
Spliced(q) == [o \in DOMAIN q.options |-> Splice(q, o)]
Asked(q) == Encode(q.instructions, <<"question", 0>>)

\* What a question's options are.
LEMMA OptionsType ==
  ASSUME NEW q \in Question
  PROVE  /\ Len(q.options) \in Nat /\ DOMAIN q.options = 1..Len(q.options)
         /\ \A o \in 1..Len(q.options) : /\ q.options[o] \in Option
                                         /\ q.options[o].text \in Seq(Kinds)
                                         /\ q.options[o].description \in Seq(Kinds)
PROOF
  <1>1. q.options \in Seq(Option)
    BY DEF Question
  <1>2. Len(q.options) \in Nat /\ DOMAIN q.options = 1..Len(q.options)
    BY <1>1, LenProperties
  <1>3. \A o \in 1..Len(q.options) : q.options[o] \in Option
    BY <1>1, ElementOfSeq
  <1>. QED
    BY <1>2, <1>3 DEF Option, Text

\* Kinds are ids, and the origins of a question's tokens are origins.
LEMMA KindsAreIds == Kinds \subseteq Ids
  BY DEF Ids

\* The origins of what a question, its state and its options are made of are origins.
LEMMA Origins ==
  /\ <<"question", 0>> \in Origin /\ <<"state", 0>> \in Origin /\ <<"frame", 0>> \in Origin
  /\ \A o \in Int : <<"option", o>> \in Origin /\ <<"marker", o>> \in Origin /\ <<"no", o>> \in Origin
PROOF
  <1>1. <<"question", 0>> \in Origin /\ <<"state", 0>> \in Origin /\ <<"frame", 0>> \in Origin
    BY DEF Origin, Parts
  <1>2. \A o \in Int : <<"option", o>> \in Origin /\ <<"marker", o>> \in Origin /\ <<"no", o>> \in Origin
    BY DEF Origin, Parts
  <1>. QED
    BY <1>1, <1>2

\* A text, encoded.
LEMMA EncodedIs ==
  ASSUME NEW text \in Seq(Kinds), NEW of \in Origin, NEW x
  PROVE  /\ Encode(text, of) \in Seq(Token) /\ Len(Encode(text, of)) = Len(text)
         /\ N(Encode(text, of), x) = IF x = of THEN Len(text) ELSE 0
PROOF
  <1>1. Kinds \subseteq Ids
    BY KindsAreIds
  <1>2. /\ Encode(text, of) \in Seq(Token) /\ Len(Encode(text, of)) = Len(text)
        /\ Encode(text, of) \in Seq([id: Kinds, of: {of}])
        /\ \A j \in 1..Len(text) : Encode(text, of)[j] = [id |-> text[j], of |-> of]
    BY <1>1, EncodeType, Zenon
  <1>3. N(Encode(text, of), x) = IF x = of THEN Len(text) ELSE 0
    BY <1>1, CountEncode
  <1>. QED
    BY <1>2, <1>3

\* A spliced option has one token more than its text.
LEMMA SpliceType ==
  ASSUME NEW q \in Question, NEW o \in 1..Len(q.options)
  PROVE  /\ Splice(q, o) \in Seq(Token)
         /\ N(Splice(q, o), <<"question", 0>>) = 0 /\ N(Splice(q, o), <<"state", 0>>) = 0
         /\ N(Splice(q, o), <<"option", o>>) = Len(q.options[o].text)
PROOF
  <1>1. o \in Int
    BY OptionsType
  <1>2. PICK text \in Seq(Kinds) : text = q.options[o].text
    BY OptionsType
  <1>3. PICK of \in Origin : of = <<"option", o>>
    BY <1>1, Origins
  <1>4. /\ Encode(text, of) \in Seq(Token) /\ Len(Encode(text, of)) = Len(text)
        /\ \A x : N(Encode(text, of), x) = IF x = of THEN Len(text) ELSE 0
    BY EncodedIs, Zenon
  <1>5. /\ Marker("label", o) \in Seq(Token)
        /\ \A x : N(Marker("label", o), x) = IF x = <<"marker", o>> THEN 1 ELSE 0
    <2>1. PICK id \in Ids : id = "label"
      BY DEF Ids, Kinds
    <2>2. ASSUME NEW x
          PROVE  /\ Marker(id, o) \in Seq(Token) /\ Len(Marker(id, o)) = 1
                 /\ Marker(id, o)[1] = [id |-> id, of |-> <<"marker", o>>]
                 /\ Marker(id, o) = Encode(<<id>>, <<"marker", o>>)
                 /\ N(Marker(id, o), x) = IF x = <<"marker", o>> THEN 1 ELSE 0
      BY <1>1, MarkerType
    <2>. QED
      BY <2>1, <2>2
  <1>6. PICK a \in Seq(Token), b \in Seq(Token) : a = Marker("label", o) /\ b = Encode(text, of)
    BY <1>4, <1>5
  <1>7. ASSUME NEW x PROVE /\ N(a, x) \in Nat /\ N(b, x) \in Nat
                           /\ a \o b \in Seq(Token) /\ N(a \o b, x) = N(a, x) + N(b, x)
    BY CountConcat
  <1>8. Splice(q, o) = a \o b
    BY <1>2, <1>3, <1>6 DEF Splice
  <1>9. N(Splice(q, o), <<"question", 0>>) = 0 /\ N(Splice(q, o), <<"state", 0>>) = 0
    <2>1. /\ <<"question", 0>> # of /\ <<"question", 0>> # <<"marker", o>>
          /\ <<"state", 0>> # of /\ <<"state", 0>> # <<"marker", o>>
      BY <1>3
    <2>2. /\ N(a, <<"question", 0>>) = 0 /\ N(b, <<"question", 0>>) = 0
          /\ N(a, <<"state", 0>>) = 0 /\ N(b, <<"state", 0>>) = 0
      BY <1>4, <1>5, <1>6, <2>1
    <2>. QED
      BY <1>7, <1>8, <2>2
  <1>10. N(Splice(q, o), <<"option", o>>) = Len(q.options[o].text)
    <2>1. <<"option", o>> # <<"marker", o>> /\ Len(text) \in Nat
      BY LenProperties
    <2>2. N(a, of) = 0 /\ N(b, of) = Len(text)
      BY <1>3, <1>4, <1>5, <1>6, <2>1
    <2>. QED
      BY <1>2, <1>3, <1>7, <1>8, <2>1, <2>2
  <1>11. Splice(q, o) \in Seq(Token)
    BY <1>7, <1>8
  <1>. QED
    BY <1>9, <1>10, <1>11

\* A spliced option has a label token, and one only when its text has none.
LEMMA SpliceFound ==
  ASSUME NEW q \in Question, NEW o \in 1..Len(q.options)
  PROVE  /\ Len(Only(Splice(q, o), Id("label"))) >= 1
         /\ "label" \notin ToSet(q.options[o].text) =>
              Only(Splice(q, o), Id("label")) = Marker("label", o)
PROOF
  <1>1. o \in Int
    BY OptionsType
  <1>2. PICK text \in Seq(Kinds) : text = q.options[o].text
    BY OptionsType
  <1>3. PICK of \in Origin : of = <<"option", o>>
    BY <1>1, Origins
  <1>4. Encode(text, of) \in Seq(Token)
    BY EncodedIs, Zenon
  <1>5. /\ Marker("label", o) \in Seq(Token) /\ Len(Marker("label", o)) = 1
        /\ Only(Marker("label", o), Id("label")) = Marker("label", o)
    <2>1. PICK id \in Ids : id = "label"
      BY DEF Ids, Kinds
    <2>2. \A x : /\ Marker(id, o) \in Seq(Token) /\ Len(Marker(id, o)) = 1
                 /\ Marker(id, o)[1] = [id |-> id, of |-> <<"marker", o>>]
                 /\ Marker(id, o) = Encode(<<id>>, <<"marker", o>>)
                 /\ N(Marker(id, o), x) = IF x = <<"marker", o>> THEN 1 ELSE 0
      BY <1>1, MarkerType
    <2>3. \A x : Only(Marker(id, o), Id(x)) = IF x = id THEN Marker(id, o) ELSE << >>
      BY <1>1, MarkerFound
    <2>. QED
      BY <2>1, <2>2, <2>3
  <1>6. PICK a \in Seq(Token), b \in Seq(Token) : a = Marker("label", o) /\ b = Encode(text, of)
    BY <1>4, <1>5
  <1>7. PICK K : K = Id("label")
    OBVIOUS
  <1>8. Only(a \o b, K) = Only(a, K) \o Only(b, K) /\ Only(b, K) \in Seq(Token)
    <2>1. Only(a \o b, K) = Only(a, K) \o Only(b, K)
      BY OnlyConcat
    <2>2. Only(b, K) \in Seq(Token) /\ Only(b, K) \in Seq(Token \cap K)
      BY OnlyType
    <2>. QED
      BY <2>1, <2>2
  <1>9. PICK c \in Seq(Token) : c = Only(b, K)
    BY <1>8
  <1>10. Splice(q, o) = a \o b /\ Only(Splice(q, o), K) = a \o c
    BY <1>2, <1>3, <1>5, <1>6, <1>7, <1>8, <1>9 DEF Splice
  <1>11. Len(a \o c) >= 1
    <2>1. Len(a) = 1 /\ Len(c) \in Nat
      BY <1>5, <1>6, LenProperties
    <2>2. Len(a \o c) = Len(a) + Len(c)
      BY ConcatProperties
    <2>. QED
      BY <2>1, <2>2
  <1>12. ASSUME "label" \notin ToSet(text) PROVE a \o c = a
    <2>1. \A j \in 1..Len(text) : text[j] # "label"
      BY <1>12, LenProperties DEF ToSet
    <2>2. PICK x : x = "label"
      OBVIOUS
    <2>3. PICK X : X = Kinds \ {x}
      OBVIOUS
    <2>4. text \in Seq(Kinds \ {x})
      BY <2>1, <2>2, TextWithout
    <2>5. X \subseteq Ids /\ text \in Seq(X) /\ x \notin X
      BY <2>3, <2>4, KindsAreIds
    <2>6. Only(Encode(text, of), Id(x)) = << >>
      BY <2>5, NoneEncoded
    <2>7. c = << >>
      BY <1>6, <1>7, <1>9, <2>2, <2>6
    <2>. QED
      BY <2>7, ConcatEmptySeq
  <1>. QED
    BY <1>2, <1>6, <1>7, <1>10, <1>11, <1>12

\* The spliced options are a sequence of sequences of tokens, one per option.
LEMMA SplicedType ==
  ASSUME NEW q \in Question
  PROVE  /\ Spliced(q) \in Seq(Seq(Token)) /\ Len(Spliced(q)) = Len(q.options)
         /\ \A o \in 1..Len(q.options) : Spliced(q)[o] = Splice(q, o)
PROOF
  <1>1. PICK n \in Nat : n = Len(q.options) /\ DOMAIN q.options = 1..n
    BY OptionsType
  <1>2. \A o \in 1..n : Splice(q, o) \in Seq(Token)
    BY <1>1, SpliceType
  <1>3. Spliced(q) = [o \in 1..n |-> Splice(q, o)]
    BY <1>1 DEF Spliced
  <1>4. Spliced(q) \in [1..n -> Seq(Token)]
    BY <1>2, <1>3
  <1>5. Spliced(q) \in Seq(Seq(Token)) /\ Len(Spliced(q)) = n
    BY <1>4, FunctionIsSeq
  <1>. QED
    BY <1>1, <1>3, <1>5

\* The special tokens of a row.
LEMMA Specials ==
  /\ CLS \in Seq(Token) /\ Len(CLS) = 1 /\ SEP \in Seq(Token) /\ Len(SEP) = 1
  /\ \A x : x # <<"frame", 0>> => N(CLS, x) = 0 /\ N(SEP, x) = 0
  /\ \A x \in Kinds : Only(CLS, Id(x)) = << >> /\ Only(SEP, Id(x)) = << >>
PROOF
  <1>1. ASSUME NEW id \in {"cls", "sep"}
        PROVE  /\ Frame(<<id>>) \in Seq(Token) /\ Len(Frame(<<id>>)) = 1
               /\ \A x : x # <<"frame", 0>> => N(Frame(<<id>>), x) = 0
               /\ \A x \in Kinds : Only(Frame(<<id>>), Id(x)) = << >>
    <2>1. PICK ids \in Seq({id}) : ids = <<id>> /\ Len(ids) = 1
      <3>1. <<id>> \in Seq({id}) /\ Len(<<id>>) = 1
        OBVIOUS
      <3>. QED
        BY <3>1
    <2>2. ids \in Seq(Ids)
      BY <2>1 DEF Ids
    <2>3. \A x : x # <<"frame", 0>> =>
            Frame(ids) \in Seq(Token) /\ Len(Frame(ids)) = Len(ids) /\ N(Frame(ids), x) = 0
      BY <2>2, FrameType
    <2>4. Frame(ids) \in Seq(Token) /\ Len(Frame(ids)) = 1
      <3>1. <<"state", 0>> # <<"frame", 0>>
        OBVIOUS
      <3>. QED
        BY <2>1, <2>3, <3>1
    <2>5. PICK of \in Origin : of = <<"frame", 0>>
      BY Origins
    <2>6. ASSUME NEW x \in Kinds PROVE Only(Frame(ids), Id(x)) = << >>
      <3>1. PICK X : X = {id}
        OBVIOUS
      <3>2. X \subseteq Ids /\ ids \in Seq(X)
        BY <2>1, <3>1 DEF Ids
      <3>3. x \notin X
        BY <3>1 DEF Kinds
      <3>4. Only(Encode(ids, of), Id(x)) = << >>
        BY <3>2, <3>3, NoneEncoded
      <3>. QED
        BY <2>5, <3>4 DEF Frame
    <2>. QED
      BY <2>1, <2>3, <2>4, <2>6
  <1>2. /\ Frame(<<"cls">>) \in Seq(Token) /\ Len(Frame(<<"cls">>)) = 1
        /\ \A x : x # <<"frame", 0>> => N(Frame(<<"cls">>), x) = 0
        /\ \A x \in Kinds : Only(Frame(<<"cls">>), Id(x)) = << >>
    BY <1>1
  <1>3. /\ Frame(<<"sep">>) \in Seq(Token) /\ Len(Frame(<<"sep">>)) = 1
        /\ \A x : x # <<"frame", 0>> => N(Frame(<<"sep">>), x) = 0
        /\ \A x \in Kinds : Only(Frame(<<"sep">>), Id(x)) = << >>
    BY <1>1
  <1>. QED
    BY <1>2, <1>3 DEF CLS, SEP

\* The text the options and the instructions make: nothing is cut from it.
LEMMA LabelText ==
  ASSUME NEW q \in Question
  PROVE  /\ label_text(q) \in Seq(Token) /\ Len(label_text(q)) \in Nat
         /\ N(label_text(q), <<"question", 0>>) = Len(q.instructions)
         /\ N(label_text(q), <<"state", 0>>) = 0
         /\ \A o \in 1..Len(q.options) :
              N(label_text(q), <<"option", o>>) >= Len(q.options[o].text)
PROOF
  <1>1. PICK flat \in Seq(Token) : flat = FlattenSeq(Spliced(q))
    BY SplicedType, FlattenLength
  <1>2. PICK sep \in Seq(Token) : sep = SEP
    BY Specials
  <1>3. PICK of \in Origin : of = <<"question", 0>>
    BY Origins
  <1>4. PICK text \in Seq(Kinds) : text = q.instructions /\ Len(text) \in Nat
    BY LenProperties DEF Question, Text
  <1>5. /\ Encode(text, of) \in Seq(Token) /\ Len(Encode(text, of)) = Len(text)
        /\ \A x : N(Encode(text, of), x) = IF x = of THEN Len(text) ELSE 0
    BY EncodedIs, Zenon
  <1>6. PICK asked \in Seq(Token) : asked = Encode(text, of)
    BY <1>5
  <1>7. label_text(q) = flat \o sep \o asked
    BY <1>1, <1>2, <1>3, <1>4, <1>6 DEF label_text, Spliced, Splice
  <1>8. /\ flat \o sep \o asked \in Seq(Token)
        /\ Len(flat \o sep \o asked) = Len(flat) + Len(sep) + Len(asked)
        /\ \A K : Only(flat \o sep \o asked, K) = Only(flat, K) \o Only(sep, K) \o Only(asked, K)
    BY Concat3, Zenon
  <1>9. \A x : /\ N(flat, x) \in Nat /\ N(sep, x) \in Nat /\ N(asked, x) \in Nat
               /\ N(flat \o sep \o asked, x) = N(flat, x) + N(sep, x) + N(asked, x)
    BY Count3
  <1>10. PICK ss \in Seq(Seq(Token)) :
           /\ ss = Spliced(q) /\ Len(ss) = Len(q.options)
           /\ \A o \in 1..Len(q.options) : ss[o] = Splice(q, o)
    BY SplicedType
  <1>11. ASSUME NEW x \in {<<"question", 0>>, <<"state", 0>>} PROVE N(flat, x) = 0 /\ N(sep, x) = 0
    <2>1. PICK K : K = Of(x)
      OBVIOUS
    <2>2. \A o \in 1..Len(ss) : Only(ss[o], K) = << >>
      <3>1. SUFFICES ASSUME NEW o \in 1..Len(ss) PROVE Only(ss[o], K) = << >>
        OBVIOUS
      <3>a. PICK k \in 1..Len(q.options) : k = o
        BY <1>10
      <3>b. /\ Splice(q, k) \in Seq(Token)
            /\ N(Splice(q, k), <<"question", 0>>) = 0 /\ N(Splice(q, k), <<"state", 0>>) = 0
            /\ N(Splice(q, k), <<"option", k>>) = Len(q.options[k].text)
        BY SpliceType
      <3>c. N(Splice(q, k), x) = 0
        BY <3>b
      <3>2. PICK s \in Seq(Token) : s = ss[o] /\ N(s, x) = 0
        BY <1>10, <3>a, <3>b, <3>c
      <3>3. Only(s, K) \in Seq(Token) /\ Only(s, K) \in Seq(Token \cap K)
        BY OnlyType
      <3>4. Len(Only(s, K)) = 0
        BY <2>1, <3>2 DEF N
      <3>. QED
        BY <3>2, <3>3, <3>4, EmptySeq
    <2>3. Only(FlattenSeq(ss), K) = << >>
      BY <2>2, OnlyOfNone
    <2>4. x # <<"frame", 0>> /\ Len(<< >>) = 0
      OBVIOUS
    <2>. QED
      BY <1>1, <1>2, <1>10, <2>1, <2>3, <2>4, Specials DEF N
  <1>12. ASSUME NEW o \in 1..Len(q.options)
         PROVE  N(label_text(q), <<"option", o>>) >= Len(q.options[o].text)
    <2>1. PICK x : x = <<"option", o>>
      OBVIOUS
    <2>2. PICK K : K = Of(x)
      OBVIOUS
    <2>3. PICK k \in 1..Len(ss) : k = o
      BY <1>10
    <2>4. Len(Only(FlattenSeq(ss), K)) >= Len(Only(ss[k], K))
      BY OnlyOfCovers
    <2>5. N(flat, x) >= Len(q.options[o].text) /\ Len(q.options[o].text) \in Nat
      <3>1. N(Splice(q, o), <<"option", o>>) = Len(q.options[o].text)
        BY SpliceType
      <3>2. Len(q.options[o].text) \in Nat
        BY OptionsType, LenProperties
      <3>. QED
        BY <1>1, <1>10, <2>1, <2>2, <2>3, <2>4, <3>1, <3>2 DEF N
    <2>6. /\ N(flat, x) \in Nat /\ N(sep, x) \in Nat /\ N(asked, x) \in Nat
          /\ N(label_text(q), x) = N(flat, x) + N(sep, x) + N(asked, x)
      BY <1>7, <1>9
    <2>7. PICK l \in Nat : l = Len(q.options[o].text) /\ N(flat, x) >= l
      BY <2>5
    <2>8. N(label_text(q), x) >= l
      <3>1. PICK a \in Nat, b \in Nat, c \in Nat : a = N(flat, x) /\ N(label_text(q), x) = a + b + c
        BY <2>6
      <3>2. a >= l
        BY <2>7, <3>1
      <3>3. a + b + c >= l
        BY <3>2
      <3>. QED
        BY <3>1, <3>3
    <2>. QED
      BY <2>1, <2>7, <2>8
  <1>13. N(label_text(q), <<"question", 0>>) = Len(q.instructions)
    BY <1>3, <1>4, <1>5, <1>6, <1>7, <1>9, <1>11
  <1>14. N(label_text(q), <<"state", 0>>) = 0
    <2>1. <<"state", 0>> # of
      BY <1>3
    <2>. QED
      BY <1>5, <1>6, <1>7, <1>9, <1>11, <2>1
  <1>15. label_text(q) \in Seq(Token) /\ Len(label_text(q)) \in Nat
    BY <1>7, <1>8, LenProperties
  <1>. QED
    BY <1>12, <1>13, <1>14, <1>15

\* A label token stands before every option, and when the options hold none of
\* their own, the first of them are those tokens, in the options' order.
LEMMA LabelFound ==
  ASSUME NEW q \in Question
  PROVE  /\ Only(label_text(q), Id("label")) \in Seq(Token)
         /\ Len(Only(label_text(q), Id("label"))) >= Len(q.options)
         /\ (\A o \in 1..Len(q.options) : "label" \notin ToSet(q.options[o].text)) =>
              \A o \in 1..Len(q.options) :
                Only(label_text(q), Id("label"))[o].of = <<"marker", o>>
PROOF
  <1>1. PICK flat \in Seq(Token) : flat = FlattenSeq(Spliced(q))
    BY SplicedType, FlattenLength
  <1>2. PICK sep \in Seq(Token) : sep = SEP
    BY Specials
  <1>3. PICK of \in Origin : of = <<"question", 0>>
    BY Origins
  <1>4. PICK text \in Seq(Kinds) : text = q.instructions
    BY DEF Question, Text
  <1>5. Encode(text, of) \in Seq(Token)
    BY EncodedIs, Zenon
  <1>6. PICK asked \in Seq(Token) : asked = Encode(text, of)
    BY <1>5
  <1>7. label_text(q) = flat \o sep \o asked
    BY <1>1, <1>2, <1>3, <1>4, <1>6 DEF label_text, Spliced, Splice
  <1>8. /\ flat \o sep \o asked \in Seq(Token)
        /\ Len(flat \o sep \o asked) = Len(flat) + Len(sep) + Len(asked)
        /\ \A K : Only(flat \o sep \o asked, K) = Only(flat, K) \o Only(sep, K) \o Only(asked, K)
    BY Concat3, Zenon
  <1>9. PICK K : K = Id("label")
    OBVIOUS
  <1>10. PICK ss \in Seq(Seq(Token)) :
           /\ ss = Spliced(q) /\ Len(ss) = Len(q.options)
           /\ \A o \in 1..Len(q.options) : ss[o] = Splice(q, o)
    BY SplicedType
  <1>11. \A m \in Seq(Token) :
           Len(m) = Len(ss) /\ (\A k \in 1..Len(ss) : Only(ss[k], K) = <<m[k]>>) =>
             Only(FlattenSeq(ss), K) = m
    BY OnlyOfEach, Zenon
  <1>12. /\ Only(flat, K) \in Seq(Token) /\ Only(sep, K) \in Seq(Token)
         /\ Only(asked, K) \in Seq(Token)
    <2>1. \A s \in Seq(Token) : Only(s, K) \in Seq(Token) /\ Only(s, K) \in Seq(Token \cap K)
      BY OnlyType
    <2>. QED
      BY <2>1
  <1>13. PICK a \in Seq(Token), b \in Seq(Token), c \in Seq(Token) :
           a = Only(flat, K) /\ b = Only(sep, K) /\ c = Only(asked, K)
    BY <1>12
  <1>14. PICK n \in Nat : n = Len(q.options)
    BY OptionsType
  <1>15. Len(a) >= n
    <2>1. \A k \in 1..Len(ss) : Len(Only(ss[k], K)) >= 1
      <3>1. SUFFICES ASSUME NEW k \in 1..Len(ss) PROVE Len(Only(ss[k], K)) >= 1
        OBVIOUS
      <3>2. PICK o \in 1..Len(q.options) : o = k
        BY <1>10
      <3>3. /\ Len(Only(Splice(q, o), Id("label"))) >= 1
            /\ "label" \notin ToSet(q.options[o].text) =>
                 Only(Splice(q, o), Id("label")) = Marker("label", o)
        BY SpliceFound
      <3>. QED
        BY <1>9, <1>10, <3>2, <3>3
    <2>2. Len(Only(FlattenSeq(ss), K)) >= Len(ss)
      BY <2>1, OnlyOfEachSome
    <2>. QED
      BY <1>1, <1>10, <1>13, <1>14, <2>2
  <1>16. b = << >>
    <2>1. PICK x \in Kinds : x = "label"
      BY DEF Kinds
    <2>2. Only(SEP, Id(x)) = << >>
      BY Specials
    <2>. QED
      BY <1>2, <1>9, <1>13, <2>1, <2>2
  <1>17. a \o b = a
    BY <1>16, ConcatEmptySeq
  <1>18. Only(label_text(q), K) = a \o c
    BY <1>7, <1>8, <1>13, <1>17
  <1>19. /\ a \o c \in Seq(Token) /\ Len(a \o c) = Len(a) + Len(c) /\ Len(a) \in Nat /\ Len(c) \in Nat
         /\ \A i \in 1..(Len(a) + Len(c)) : (a \o c)[i] = IF i <= Len(a) THEN a[i] ELSE c[i - Len(a)]
    BY ConcatProperties, LenProperties
  <1>20. ASSUME \A o \in 1..n : "label" \notin ToSet(q.options[o].text), NEW o \in 1..n
         PROVE  (a \o c)[o].of = <<"marker", o>>
    <2>1. PICK t : t = [k \in 1..n |-> [id |-> "label", of |-> <<"marker", k>>]]
      OBVIOUS
    <2>2. \A k \in 1..n : [id |-> "label", of |-> <<"marker", k>>] \in Token
      <3>1. SUFFICES ASSUME NEW k \in 1..n PROVE [id |-> "label", of |-> <<"marker", k>>] \in Token
        OBVIOUS
      <3>2. <<"marker", k>> \in Origin
        <4>1. k \in Int
          BY <1>14
        <4>. QED
          BY <4>1, Origins
      <3>3. "label" \in Ids
        BY DEF Ids, Kinds
      <3>. QED
        BY <3>2, <3>3 DEF Token
    <2>3. t \in [1..n -> Token]
      BY <2>1, <2>2
    <2>4. t \in Seq(Token) /\ Len(t) = n
      BY <2>3, FunctionIsSeq
    <2>5. \A k \in 1..Len(ss) : Only(ss[k], K) = <<t[k]>>
      <3>1. SUFFICES ASSUME NEW k \in 1..Len(ss) PROVE Only(ss[k], K) = <<t[k]>>
        OBVIOUS
      <3>2. PICK j \in 1..Len(q.options) : j = k
        BY <1>10
      <3>3. /\ Len(Only(Splice(q, j), Id("label"))) >= 1
            /\ "label" \notin ToSet(q.options[j].text) =>
                 Only(Splice(q, j), Id("label")) = Marker("label", j)
        BY SpliceFound
      <3>4. Only(ss[k], K) = Marker("label", k)
        BY <1>9, <1>10, <1>14, <1>20, <3>2, <3>3
      <3>. QED
        BY <1>10, <1>14, <2>1, <3>4 DEF Marker
    <2>6. Only(FlattenSeq(ss), K) = t
      <3>1. Len(t) = Len(ss)
        BY <1>10, <1>14, <2>4
      <3>2. PICK m \in Seq(Token) : m = t
        BY <2>4
      <3>3. Len(m) = Len(ss) /\ \A k \in 1..Len(ss) : Only(ss[k], K) = <<m[k]>>
        BY <2>5, <3>1, <3>2
      <3>4. Only(FlattenSeq(ss), K) = m
        BY <1>11, <3>3
      <3>. QED
        BY <3>2, <3>4
    <2>7. a = t
      BY <1>1, <1>10, <1>13, <2>6
    <2>8. (a \o c)[o] = t[o]
      BY <1>19, <2>4, <2>7
    <2>. QED
      BY <2>1, <2>8
  <1>21. PICK all \in Seq(Token) : all = a \o c /\ Len(all) >= n
    <2>1. Len(a \o c) >= n
      BY <1>15, <1>19
    <2>. QED
      BY <1>19, <2>1
  <1>22. Only(label_text(q), Id("label")) = all
    BY <1>9, <1>18, <1>21
  <1>23. ASSUME \A o \in 1..n : "label" \notin ToSet(q.options[o].text)
         PROVE  \A o \in 1..n : all[o].of = <<"marker", o>>
    BY <1>20, <1>21, <1>23
  <1>. QED
    BY <1>14, <1>21, <1>22, <1>23

\* A row of GLiClass, when there is room for it.
LEMMA GliclassRowIs ==
  ASSUME NEW q \in Question, NEW state \in Text, NEW max_len \in Nat, NEW first \in BOOLEAN,
         GliclassRow(q, state, max_len, first) # << >>
  PROVE  \E kept \in Seq(Token) :
           /\ GliclassRow(q, state, max_len, first) =
                <<[ids |-> CLS \o (IF first THEN label_text(q) \o kept ELSE kept \o label_text(q)) \o SEP,
                   markers |-> << >>]>>
           /\ Len(label_text(q)) + 2 < max_len
           /\ Len(kept) = Least(max_len - (Len(label_text(q)) + 2), Len(state))
           /\ N(kept, <<"state", 0>>) = Len(kept)
           /\ \A x : x # <<"state", 0>> => N(kept, x) = 0
           /\ "label" \notin ToSet(state) => Only(kept, Id("label")) = << >>
PROOF
  <1>1. PICK l \in Nat : l = Len(label_text(q))
    BY LabelText
  <1>2. PICK s \in Nat : s = Len(state)
    BY LenProperties DEF Text
  <1>3. PICK keep : keep = truncate_state_to(s, l, max_len)
    OBVIOUS
  <1>4. keep # {}
    BY <1>1, <1>2, <1>3 DEF GliclassRow
  <1>5. l + 2 < max_len /\ keep = {Least(max_len - (l + 2), s)}
    BY <1>3, <1>4 DEF truncate_state_to
  <1>6. PICK n \in Nat : n = Least(max_len - (l + 2), s) /\ n <= s
    <2>1. PICK m \in Nat : m = max_len - (l + 2)
      BY <1>5
    <2>2. Least(m, s) \in Nat /\ Least(m, s) <= s
      BY DEF Least
    <2>. QED
      BY <2>1, <2>2
  <1>7. (CHOOSE k \in keep : TRUE) = n
    BY <1>5, <1>6
  <1>8. PICK of \in Origin : of = <<"state", 0>>
    BY Origins
  <1>9. PICK text \in Seq(Kinds) : text = state
    BY DEF Text
  <1>10. Take(text, n) \in Seq(Kinds) /\ Len(Take(text, n)) = n
         /\ \A j \in 1..n : Take(text, n)[j] = text[j]
    <2>1. /\ Take(text, n) \in Seq(Kinds) /\ Len(Take(text, n)) = Least(n, Len(text))
          /\ \A j \in 1..Least(n, Len(text)) : Take(text, n)[j] = text[j]
          /\ Len(text) <= n => Take(text, n) = text
      BY TakeType
    <2>2. Least(n, Len(text)) = n
      BY <1>2, <1>6, <1>9 DEF Least
    <2>. QED
      BY <2>1, <2>2
  <1>11. PICK part \in Seq(Kinds) : part = Take(text, n) /\ Len(part) = n /\ \A j \in 1..n : part[j] = text[j]
    BY <1>10
  <1>12. /\ Encode(part, of) \in Seq(Token) /\ Len(Encode(part, of)) = Len(part)
         /\ \A x : N(Encode(part, of), x) = IF x = of THEN Len(part) ELSE 0
    BY EncodedIs, Zenon
  <1>13. Take(Encode(text, of), n) = Encode(part, of)
    <2>1. PICK X : X = Kinds
      OBVIOUS
    <2>2. X \subseteq Ids /\ text \in Seq(X)
      BY <2>1, KindsAreIds
    <2>3. Take(Encode(text, of), n) = Encode(Take(text, n), of)
      BY <2>2, TakeEncode
    <2>. QED
      BY <1>11, <2>3
  <1>14. PICK kept \in Seq(Token) : kept = Encode(part, of)
    BY <1>12
  <1>15. ASSUME "label" \notin ToSet(state) PROVE Only(kept, Id("label")) = << >>
    <2>1. \A j \in 1..Len(part) : part[j] # "label"
      <3>1. \A j \in 1..n : j \in 1..Len(text)
        BY <1>2, <1>6, <1>9
      <3>2. \A j \in 1..Len(text) : text[j] # "label"
        BY <1>9, <1>15, LenProperties DEF ToSet
      <3>. QED
        BY <1>11, <3>1, <3>2
    <2>2. PICK x : x = "label"
      OBVIOUS
    <2>3. PICK X : X = Kinds \ {x}
      OBVIOUS
    <2>4. part \in Seq(Kinds \ {x})
      BY <2>1, <2>2, TextWithout
    <2>5. X \subseteq Ids /\ part \in Seq(X) /\ x \notin X
      BY <2>3, <2>4, KindsAreIds
    <2>6. Only(Encode(part, of), Id(x)) = << >>
      BY <2>5, NoneEncoded
    <2>. QED
      BY <1>14, <2>2, <2>6
  <1>16. GliclassRow(q, state, max_len, first) =
           <<[ids |-> CLS \o (IF first THEN label_text(q) \o kept ELSE kept \o label_text(q)) \o SEP,
              markers |-> << >>]>>
    BY <1>1, <1>2, <1>3, <1>4, <1>7, <1>8, <1>9, <1>11, <1>13, <1>14 DEF GliclassRow
  <1>. QED
    BY <1>1, <1>2, <1>5, <1>6, <1>8, <1>11, <1>12, <1>14, <1>15, <1>16

\* A question of GLiClass whose options leave no room for the state has no row.
LEMMA GliclassFails ==
  ASSUME NEW q \in Question, NEW state \in Text, NEW max_len \in Nat, NEW first \in BOOLEAN,
         GliclassRow(q, state, max_len, first) = << >>
  PROVE  Len(label_text(q)) + 2 >= max_len
PROOF
  <1>1. PICK l \in Nat : l = Len(label_text(q))
    BY LabelText
  <1>2. PICK keep : keep = truncate_state_to(Len(state), l, max_len)
    OBVIOUS
  <1>3. keep = {}
    <2>1. SUFFICES ASSUME keep # {} PROVE FALSE
      OBVIOUS
    <2>2. \E row : GliclassRow(q, state, max_len, first) = <<row>>
      BY <1>1, <1>2, <2>1 DEF GliclassRow
    <2>3. \A row : <<row>> # << >>
      OBVIOUS
    <2>. QED
      BY <2>2, <2>3
  <1>4. ~ (l + 2 < max_len)
    BY <1>2, <1>3 DEF truncate_state_to
  <1>. QED
    BY <1>1, <1>4

\* A text between a CLS and a SEP.
LEMMA Framed ==
  ASSUME NEW mid \in Seq(Token)
  PROVE  \E ids \in Seq(Token) :
           /\ ids = CLS \o mid \o SEP /\ Len(ids) = Len(mid) + 2 /\ ids[Len(ids)] = SEP[1]
           /\ \A x : x # <<"frame", 0>> => N(ids, x) = N(mid, x)
           /\ \A x \in Kinds : Only(ids, Id(x)) = Only(mid, Id(x))
PROOF
  <1>1. PICK cls \in Seq(Token), sep \in Seq(Token) :
          cls = CLS /\ sep = SEP /\ Len(cls) = 1 /\ Len(sep) = 1
    BY Specials
  <1>2. /\ cls \o mid \o sep \in Seq(Token)
        /\ Len(cls \o mid \o sep) = Len(cls) + Len(mid) + Len(sep)
        /\ \A K : Only(cls \o mid \o sep, K) = Only(cls, K) \o Only(mid, K) \o Only(sep, K)
    BY Concat3, Zenon
  <1>3. \A x : /\ N(cls, x) \in Nat /\ N(mid, x) \in Nat /\ N(sep, x) \in Nat
               /\ N(cls \o mid \o sep, x) = N(cls, x) + N(mid, x) + N(sep, x)
    BY Count3
  <1>4. PICK ids \in Seq(Token) : ids = cls \o mid \o sep
    BY <1>2
  <1>5. PICK m \in Nat : m = Len(mid)
    BY LenProperties
  <1>6. Len(ids) = m + 2
    BY <1>1, <1>2, <1>4, <1>5
  <1>7. ids[m + 2] = SEP[1]
    <2>a. cls \o mid \in Seq(Token) /\ Len(cls \o mid) = Len(cls) + Len(mid)
      BY ConcatProperties
    <2>b. Len(cls \o mid) = m + 1
      BY <1>1, <1>5, <2>a
    <2>1. PICK front \in Seq(Token) : front = cls \o mid /\ Len(front) = m + 1
      BY <2>a, <2>b
    <2>2. \A i \in 1..(Len(front) + Len(sep)) :
            (front \o sep)[i] = IF i <= Len(front) THEN front[i] ELSE sep[i - Len(front)]
      BY ConcatProperties
    <2>3. PICK i \in Nat : i = m + 2 /\ i \in 1..(Len(front) + Len(sep)) /\ ~ (i <= Len(front)) /\ i - Len(front) = 1
      BY <1>1, <2>1
    <2>4. (front \o sep)[i] = sep[1]
      BY <2>2, <2>3
    <2>. QED
      BY <1>1, <1>4, <2>1, <2>3, <2>4
  <1>8. ASSUME NEW x, x # <<"frame", 0>> PROVE N(ids, x) = N(mid, x)
    <2>1. N(cls, x) = 0 /\ N(sep, x) = 0
      BY <1>1, <1>8, Specials
    <2>. QED
      BY <1>3, <1>4, <2>1
  <1>9. ASSUME NEW x \in Kinds PROVE Only(ids, Id(x)) = Only(mid, Id(x))
    <2>1. PICK K : K = Id(x)
      OBVIOUS
    <2>2. Only(cls, K) = << >> /\ Only(sep, K) = << >>
      BY <1>1, <2>1, Specials
    <2>3. PICK m2 \in Seq(Token) : m2 = Only(mid, K)
      <3>1. Only(mid, K) \in Seq(Token) /\ Only(mid, K) \in Seq(Token \cap K)
        BY OnlyType
      <3>. QED
        BY <3>1
    <2>4. << >> \o m2 = m2 /\ m2 \o << >> = m2
      BY ConcatEmptySeq
    <2>. QED
      BY <1>2, <1>4, <2>1, <2>2, <2>3, <2>4
  <1>. QED
    BY <1>1, <1>4, <1>5, <1>6, <1>7, <1>8, <1>9

\* A row of GLiClass fits the window, and fills it when some of the state is cut;
\* it is closed by a SEP, and it holds the question whole.
LEMMA GliclassRows ==
  ASSUME NEW q \in Question, NEW state \in Text, NEW max_len \in Nat, NEW first \in BOOLEAN,
         GliclassRow(q, state, max_len, first) # << >>
  PROVE  \E row \in Row :
           /\ GliclassRow(q, state, max_len, first) = <<row>>
           /\ Len(row.ids) <= max_len
           /\ N(row.ids, <<"state", 0>>) < Len(state) => Len(row.ids) = max_len
           /\ row.ids[Len(row.ids)] = SEP[1]
           /\ N(row.ids, <<"question", 0>>) = Len(q.instructions)
           /\ \A o \in 1..Len(q.options) :
                N(row.ids, <<"option", o>>) >= Len(q.options[o].text)
           /\ Only(row.ids, Id("label")) \in Seq(Token)
           /\ Len(Only(row.ids, Id("label"))) >= Len(q.options)
           /\ /\ \A o \in 1..Len(q.options) : "label" \notin ToSet(q.options[o].text)
              /\ first \/ "label" \notin ToSet(state)
              => \A o \in 1..Len(q.options) :
                   Only(row.ids, Id("label"))[o].of = <<"marker", o>>
PROOF
  <1>1. PICK labels \in Seq(Token) : labels = label_text(q)
    BY LabelText
  <1>2. PICK kept \in Seq(Token) :
           /\ GliclassRow(q, state, max_len, first) =
                <<[ids |-> CLS \o (IF first THEN label_text(q) \o kept ELSE kept \o label_text(q)) \o SEP,
                   markers |-> << >>]>>
           /\ Len(label_text(q)) + 2 < max_len
           /\ Len(kept) = Least(max_len - (Len(label_text(q)) + 2), Len(state))
           /\ N(kept, <<"state", 0>>) = Len(kept)
           /\ \A x : x # <<"state", 0>> => N(kept, x) = 0
           /\ "label" \notin ToSet(state) => Only(kept, Id("label")) = << >>
    BY GliclassRowIs
  <1>3. PICK mid \in Seq(Token) :
           /\ mid = IF first THEN labels \o kept ELSE kept \o labels
           /\ Len(mid) = Len(labels) + Len(kept)
           /\ \A x : N(mid, x) = N(labels, x) + N(kept, x)
           /\ \A K : \/ first /\ Only(mid, K) = Only(labels, K) \o Only(kept, K)
                     \/ ~ first /\ Only(mid, K) = Only(kept, K) \o Only(labels, K)
    <2>1. \A a, b \in Seq(Token) :
            /\ a \o b \in Seq(Token) /\ Len(a \o b) = Len(a) + Len(b)
            /\ \A x : N(a, x) \in Nat /\ N(b, x) \in Nat /\ N(a \o b, x) = N(a, x) + N(b, x)
            /\ \A K : Only(a \o b, K) = Only(a, K) \o Only(b, K)
      BY Concat2, Zenon
    <2>2. Len(labels) \in Nat /\ Len(kept) \in Nat
      BY LenProperties
    <2>3. CASE first
      <3>1. PICK mid \in Seq(Token) : mid = labels \o kept
        BY <2>1
      <3>2. Len(mid) = Len(labels) + Len(kept) /\ \A x : N(mid, x) = N(labels, x) + N(kept, x)
        BY <2>1, <3>1
      <3>3. mid = IF first THEN labels \o kept ELSE kept \o labels
        BY <2>3, <3>1
      <3>4. \A K : Only(mid, K) = Only(labels, K) \o Only(kept, K)
        BY <2>1, <3>1
      <3>. QED
        BY <2>3, <3>2, <3>3, <3>4
    <2>4. CASE ~ first
      <3>1. PICK mid \in Seq(Token) : mid = kept \o labels
        BY <2>1
      <3>2. Len(mid) = Len(labels) + Len(kept)
        BY <2>1, <2>2, <3>1
      <3>3. \A x : N(mid, x) = N(labels, x) + N(kept, x)
        BY <2>1, <3>1
      <3>4. mid = IF first THEN labels \o kept ELSE kept \o labels
        BY <2>4, <3>1
      <3>5. \A K : Only(mid, K) = Only(kept, K) \o Only(labels, K)
        BY <2>1, <3>1
      <3>. QED
        BY <2>4, <3>2, <3>3, <3>4, <3>5
    <2>. QED
      BY <2>3, <2>4
  <1>4. PICK ids \in Seq(Token) :
           /\ ids = CLS \o mid \o SEP /\ Len(ids) = Len(mid) + 2 /\ ids[Len(ids)] = SEP[1]
           /\ \A x : x # <<"frame", 0>> => N(ids, x) = N(mid, x)
           /\ \A x \in Kinds : Only(ids, Id(x)) = Only(mid, Id(x))
    BY Framed
  <1>5. PICK row \in Row : row = [ids |-> ids, markers |-> << >>]
    <2>1. [ids |-> ids, markers |-> << >>] \in Row
      BY DEF Row
    <2>. QED
      BY <2>1
  <1>6. GliclassRow(q, state, max_len, first) = <<row>>
    BY <1>1, <1>2, <1>3, <1>4, <1>5
  <1>7. PICK l \in Nat, k \in Nat, s \in Nat :
           l = Len(labels) /\ k = Len(kept) /\ s = Len(state)
    BY LenProperties DEF Text
  <1>8. Len(ids) = l + k + 2 /\ l + 2 < max_len
    BY <1>1, <1>2, <1>3, <1>4, <1>7
  <1>9. Len(ids) <= max_len /\ (k < s => Len(ids) = max_len)
    <2>1. k = Least(max_len - (l + 2), s)
      BY <1>1, <1>2, <1>7
    <2>. QED
      BY <1>8, <2>1 DEF Least
  <1>10. \A x : x # <<"frame", 0>> => N(ids, x) = N(labels, x) + N(kept, x)
    BY <1>3, <1>4
  <1>11. N(ids, <<"state", 0>>) = k
    <2>1. N(ids, <<"state", 0>>) = N(labels, <<"state", 0>>) + N(kept, <<"state", 0>>)
      BY <1>10
    <2>2. N(labels, <<"state", 0>>) = 0
      BY <1>1, LabelText
    <2>. QED
      BY <1>2, <1>7, <2>1, <2>2
  <1>12. N(ids, <<"question", 0>>) = Len(q.instructions)
    <2>1. N(ids, <<"question", 0>>) = N(labels, <<"question", 0>>) + N(kept, <<"question", 0>>)
      BY <1>10
    <2>2. N(kept, <<"question", 0>>) = 0
      BY <1>2
    <2>3. N(labels, <<"question", 0>>) = Len(q.instructions) /\ Len(q.instructions) \in Nat
      BY <1>1, LabelText, LenProperties DEF Question, Text
    <2>. QED
      BY <2>1, <2>2, <2>3
  <1>13. \A o \in 1..Len(q.options) : N(ids, <<"option", o>>) >= Len(q.options[o].text)
    <2>1. SUFFICES ASSUME NEW o \in 1..Len(q.options)
                   PROVE  N(ids, <<"option", o>>) >= Len(q.options[o].text)
      OBVIOUS
    <2>2. N(ids, <<"option", o>>) = N(labels, <<"option", o>>) + N(kept, <<"option", o>>)
      BY <1>10
    <2>3. N(kept, <<"option", o>>) = 0
      BY <1>2
    <2>4. N(labels, <<"option", o>>) >= Len(q.options[o].text)
      BY <1>1, LabelText
    <2>5. PICK a \in Nat : a = N(labels, <<"option", o>>)
      BY CountConcat
    <2>. QED
      BY <2>2, <2>3, <2>4, <2>5
  <1>14. ids[Len(ids)] = SEP[1]
    BY <1>4
  <1>15. Only(ids, Id("label")) = Only(mid, Id("label"))
    BY <1>4 DEF Kinds
  <1>16. PICK a \in Seq(Token), b \in Seq(Token) :
           a = Only(labels, Id("label")) /\ b = Only(kept, Id("label"))
    <2>1. PICK K : K = Id("label")
      OBVIOUS
    <2>2. \A s1 \in Seq(Token) : Only(s1, K) \in Seq(Token) /\ Only(s1, K) \in Seq(Token \cap K)
      BY OnlyType
    <2>. QED
      BY <2>1, <2>2
  <1>17. /\ Len(a) >= Len(q.options)
         /\ (\A o \in 1..Len(q.options) : "label" \notin ToSet(q.options[o].text)) =>
              \A o \in 1..Len(q.options) : a[o].of = <<"marker", o>>
    BY <1>1, <1>16, LabelFound
  <1>18. PICK n \in Nat : n = Len(q.options)
    BY OptionsType
  <1>19. \/ first /\ Only(ids, Id("label")) = a \o b
         \/ ~ first /\ Only(ids, Id("label")) = b \o a
    BY <1>3, <1>15, <1>16
  <1>20. ASSUME NEW c \in Seq(Token)
         PROVE  /\ a \o c \in Seq(Token) /\ Len(a \o c) >= n
                /\ c \o a \in Seq(Token) /\ Len(c \o a) >= n
                /\ \A o \in 1..n : (a \o c)[o] = a[o]
    <2>1. /\ a \o c \in Seq(Token) /\ Len(a \o c) = Len(a) + Len(c)
          /\ \A i \in 1..(Len(a) + Len(c)) : (a \o c)[i] = IF i <= Len(a) THEN a[i] ELSE c[i - Len(a)]
      BY ConcatProperties
    <2>2. c \o a \in Seq(Token) /\ Len(c \o a) = Len(c) + Len(a)
      BY ConcatProperties
    <2>3. PICK x \in Nat, y \in Nat : x = Len(a) /\ y = Len(c) /\ x >= n
      BY <1>17, <1>18, LenProperties
    <2>. QED
      BY <2>1, <2>2, <2>3
  <1>21. /\ Only(ids, Id("label")) \in Seq(Token)
         /\ Len(Only(ids, Id("label"))) >= n
    BY <1>19, <1>20
  <1>22. ASSUME \A o \in 1..n : "label" \notin ToSet(q.options[o].text),
                first \/ "label" \notin ToSet(state)
         PROVE  \A o \in 1..n : Only(ids, Id("label"))[o].of = <<"marker", o>>
    <2>1. \A o \in 1..n : a[o].of = <<"marker", o>>
      BY <1>17, <1>18, <1>22
    <2>2. CASE first
      BY <1>19, <1>20, <2>1, <2>2
    <2>3. CASE ~ first
      <3>1. b = << >>
        BY <1>2, <1>16, <1>22, <2>3
      <3>2. b \o a = a
        BY <3>1, ConcatEmptySeq
      <3>. QED
        BY <1>19, <2>1, <2>3, <3>2
    <2>. QED
      BY <2>2, <2>3
  <1>23. N(ids, <<"state", 0>>) < Len(state) => Len(ids) = max_len
    BY <1>7, <1>9, <1>11
  <1>24. row.ids = ids
    BY <1>5
  <1>. QED
    BY <1>6, <1>9, <1>12, <1>13, <1>14, <1>18, <1>21, <1>22, <1>23, <1>24

-----------------------------------------------------------------------------
(* The rows of the slots                                                   *)

\* Tokens that stand for nothing a question or a state holds, and that are not
\* the ones a graph looks for.
Clear(f, id) ==
  /\ f \in Seq(Token)
  /\ \A x : x # <<"frame", 0>> => N(f, x) = 0
  /\ Only(f, Id(id)) = << >>

\* The frame of a row is clear of the ids it does not hold.
LEMMA FrameClear ==
  ASSUME NEW X, X \subseteq Ids, NEW ids \in Seq(X), NEW id, id \notin X
  PROVE  Clear(Frame(ids), id) /\ Len(Frame(ids)) = Len(ids)
PROOF
  <1>1. ids \in Seq(Ids)
    BY SeqMonotonic
  <1>2. \A x : x # <<"frame", 0>> =>
          Frame(ids) \in Seq(Token) /\ Len(Frame(ids)) = Len(ids) /\ N(Frame(ids), x) = 0
    BY <1>1, FrameType
  <1>3. PICK y : y # <<"frame", 0>>
    <2>1. <<"state", 0>> # <<"frame", 0>>
      OBVIOUS
    <2>. QED
      BY <2>1
  <1>4. Frame(ids) \in Seq(Token) /\ Len(Frame(ids)) = Len(ids)
    BY <1>2, <1>3
  <1>5. PICK of \in Origin : of = <<"frame", 0>>
    BY Origins
  <1>6. Only(Encode(ids, of), Id(id)) = << >>
    BY NoneEncoded
  <1>. QED
    BY <1>2, <1>4, <1>5, <1>6 DEF Clear, Frame

\* What is put about a text that is clear adds nothing that is counted.
LEMMA ClearAround ==
  ASSUME NEW id, NEW f, Clear(f, id), NEW g, Clear(g, id), NEW a \in Seq(Token)
  PROVE  /\ f \o a \o g \in Seq(Token) /\ Len(f \o a \o g) = Len(f) + Len(a) + Len(g)
         /\ \A x : x # <<"frame", 0>> => N(f \o a \o g, x) = N(a, x)
         /\ Only(f \o a \o g, Id(id)) = Only(a, Id(id))
PROOF
  <1>1. PICK u \in Seq(Token), v \in Seq(Token) : u = f /\ v = g
    BY DEF Clear
  <1>2. /\ u \o a \o v \in Seq(Token) /\ Len(u \o a \o v) = Len(u) + Len(a) + Len(v)
        /\ \A K : Only(u \o a \o v, K) = Only(u, K) \o Only(a, K) \o Only(v, K)
    BY Concat3, Zenon
  <1>3. \A x : /\ N(u, x) \in Nat /\ N(a, x) \in Nat /\ N(v, x) \in Nat
               /\ N(u \o a \o v, x) = N(u, x) + N(a, x) + N(v, x)
    BY Count3
  <1>4. ASSUME NEW x, x # <<"frame", 0>> PROVE N(u \o a \o v, x) = N(a, x)
    <2>1. N(u, x) = 0 /\ N(v, x) = 0
      BY <1>1, <1>4 DEF Clear
    <2>. QED
      BY <1>3, <2>1
  <1>5. Only(u \o a \o v, Id(id)) = Only(a, Id(id))
    <2>1. PICK K : K = Id(id)
      OBVIOUS
    <2>2. PICK m \in Seq(Token) : m = Only(a, K)
      <3>1. Only(a, K) \in Seq(Token) /\ Only(a, K) \in Seq(Token \cap K)
        BY OnlyType
      <3>. QED
        BY <3>1
    <2>3. << >> \o m = m /\ m \o << >> = m
      BY ConcatEmptySeq
    <2>4. Only(u, K) = << >> /\ Only(v, K) = << >>
      BY <1>1, <2>1 DEF Clear
    <2>. QED
      BY <1>2, <2>1, <2>2, <2>3, <2>4
  <1>. QED
    BY <1>1, <1>2, <1>4, <1>5

\* The frame of a piece: a word, and the slot.
LEMMA PieceFrame ==
  /\ Clear(Frame(<<"word">>), "letter") /\ Len(Frame(<<"word">>)) = 1
  /\ Clear(Frame(<<"slot">>), "letter") /\ Len(Frame(<<"slot">>)) = 1
PROOF
  <1>1. ASSUME NEW x \in {"word", "slot"}
        PROVE  Clear(Frame(<<x>>), "letter") /\ Len(Frame(<<x>>)) = 1
    <2>1. PICK X : X = {x}
      OBVIOUS
    <2>2. PICK ids \in Seq(X) : ids = <<x>> /\ Len(ids) = 1
      <3>1. <<x>> \in Seq(X) /\ Len(<<x>>) = 1
        BY <2>1
      <3>. QED
        BY <3>1
    <2>3. X \subseteq Ids /\ "letter" \notin X
      BY <2>1 DEF Ids, Kinds
    <2>4. Clear(Frame(ids), "letter") /\ Len(Frame(ids)) = Len(ids)
      BY <2>3, FrameClear
    <2>. QED
      BY <2>2, <2>4
  <1>2. Clear(Frame(<<"word">>), "letter") /\ Len(Frame(<<"word">>)) = 1
    BY <1>1
  <1>3. Clear(Frame(<<"slot">>), "letter") /\ Len(Frame(<<"slot">>)) = 1
    BY <1>1
  <1>. QED
    BY <1>2, <1>3

\* An option of a piece, its label before its text.
Listed(label, text) == Frame(<<"word">>) \o label \o Frame(<<"word">>) \o text

\* A listed option holds the tokens of its label and of its text, and none else but frame.
LEMMA ListedIs ==
  ASSUME NEW label \in Seq(Token), NEW text \in Seq(Token)
  PROVE  /\ Listed(label, text) \in Seq(Token)
         /\ \A x : x # <<"frame", 0>> =>
              /\ N(label, x) \in Nat /\ N(text, x) \in Nat
              /\ N(Listed(label, text), x) = N(label, x) + N(text, x)
         /\ Only(Listed(label, text), Id("letter")) =
              Only(label, Id("letter")) \o Only(text, Id("letter"))
PROOF
  <1>1. PICK id, w : id = "letter" /\ w = Frame(<<"word">>) /\ Clear(w, id)
    BY PieceFrame
  <1>2. /\ w \o label \o w \in Seq(Token) /\ Len(w \o label \o w) = Len(w) + Len(label) + Len(w)
        /\ \A x : x # <<"frame", 0>> => N(w \o label \o w, x) = N(label, x)
        /\ Only(w \o label \o w, Id(id)) = Only(label, Id(id))
    BY <1>1, ClearAround
  <1>3. PICK a \in Seq(Token) : a = w \o label \o w
    BY <1>2
  <1>4. /\ a \o text \in Seq(Token) /\ Len(a \o text) = Len(a) + Len(text)
        /\ \A x : N(a, x) \in Nat /\ N(text, x) \in Nat /\ N(a \o text, x) = N(a, x) + N(text, x)
        /\ \A K : Only(a \o text, K) = Only(a, K) \o Only(text, K)
    BY Concat2, Zenon
  <1>5. Listed(label, text) = a \o text
    BY <1>1, <1>3 DEF Listed
  <1>. QED
    BY <1>1, <1>2, <1>3, <1>4, <1>5

\* The options of a piece.
Listing(options) == [o \in DOMAIN options |-> Listed(options[o].label, options[o].text)]
Labelled == [label: Seq(Token), text: Seq(Token)]

\* The listing of options is a sequence of rows, each its option's.
LEMMA ListingType ==
  ASSUME NEW options \in Seq(Labelled)
  PROVE  /\ Listing(options) \in Seq(Seq(Token)) /\ Len(Listing(options)) = Len(options)
         /\ \A o \in 1..Len(options) :
              /\ options[o].label \in Seq(Token) /\ options[o].text \in Seq(Token)
              /\ Listing(options)[o] = Listed(options[o].label, options[o].text)
PROOF
  <1>1. PICK n \in Nat : n = Len(options) /\ DOMAIN options = 1..n
    BY LenProperties
  <1>2. \A o \in 1..n : options[o] \in Labelled
    BY <1>1, ElementOfSeq
  <1>3. \A o \in 1..n : options[o].label \in Seq(Token) /\ options[o].text \in Seq(Token)
    BY <1>2 DEF Labelled
  <1>4. \A o \in 1..n : Listed(options[o].label, options[o].text) \in Seq(Token)
    BY <1>3, ListedIs
  <1>5. Listing(options) = [o \in 1..n |-> Listed(options[o].label, options[o].text)]
    BY <1>1 DEF Listing
  <1>6. Listing(options) \in [1..n -> Seq(Token)]
    BY <1>4, <1>5
  <1>7. Listing(options) \in Seq(Seq(Token)) /\ Len(Listing(options)) = n
    BY <1>6, FunctionIsSeq
  <1>. QED
    BY <1>1, <1>3, <1>5, <1>7

\* A piece holds its question and its options, and nothing else that is counted.
LEMMA PieceIs ==
  ASSUME NEW question \in Seq(Token), NEW options \in Seq(Labelled), NEW label_ids,
         build_piece(question, options, label_ids) # << >>
  PROVE  /\ FlattenSeq(Listing(options)) \in Seq(Token)
         /\ build_piece(question, options, label_ids) \in Seq(Token)
         /\ \A x : x # <<"frame", 0>> =>
              N(build_piece(question, options, label_ids), x) =
                N(question, x) + N(FlattenSeq(Listing(options)), x)
         /\ Only(question, Id("letter")) = << >> =>
              Only(build_piece(question, options, label_ids), Id("letter")) =
                Only(FlattenSeq(Listing(options)), Id("letter"))
PROOF
  <1>1. PICK id, w, slot :
          /\ id = "letter" /\ w = Frame(<<"word">>) /\ Clear(w, id)
          /\ slot = Frame(<<"slot">>) /\ Clear(slot, id) /\ Clear(<< >>, id)
    <2>1. Clear(<< >>, "letter")
      <3>1. << >> \in Seq(Token) /\ Len(<< >>) = 0
        OBVIOUS
      <3>2. \A K : Only(<< >>, K) = << >>
        BY OnlyEmpty
      <3>. QED
        BY <3>1, <3>2 DEF Clear, N
    <2>. QED
      BY <2>1, PieceFrame
  <1>2. PICK flat \in Seq(Token) : flat = FlattenSeq(Listing(options))
    <2>1. PICK ss \in Seq(Seq(Token)) : ss = Listing(options)
      BY ListingType
    <2>2. FlattenSeq(ss) \in Seq(Token) /\ Len(FlattenSeq(ss)) = Total(Lens(ss))
      BY FlattenLength
    <2>. QED
      BY <2>1, <2>2
  <1>3. build_piece(question, options, label_ids) = w \o question \o w \o flat \o slot
    BY <1>1, <1>2 DEF build_piece, Listing, Listed
  <1>4. /\ w \o question \o w \in Seq(Token)
        /\ Len(w \o question \o w) = Len(w) + Len(question) + Len(w)
        /\ \A x : x # <<"frame", 0>> => N(w \o question \o w, x) = N(question, x)
        /\ Only(w \o question \o w, Id(id)) = Only(question, Id(id))
    BY <1>1, ClearAround
  <1>5. PICK a \in Seq(Token) : a = w \o question \o w
    BY <1>4
  <1>6. \A s, t \in Seq(Token) :
          /\ s \o t \in Seq(Token) /\ Len(s \o t) = Len(s) + Len(t)
          /\ \A x : N(s, x) \in Nat /\ N(t, x) \in Nat /\ N(s \o t, x) = N(s, x) + N(t, x)
          /\ \A K : Only(s \o t, K) = Only(s, K) \o Only(t, K)
    BY Concat2, Zenon
  <1>7. PICK b \in Seq(Token) : b = a \o flat
    BY <1>6
  <1>8. slot \in Seq(Token)
    BY <1>1 DEF Clear
  <1>9. /\ b \o slot \in Seq(Token)
        /\ \A x : N(b, x) \in Nat /\ N(slot, x) \in Nat /\ N(b \o slot, x) = N(b, x) + N(slot, x)
        /\ \A K : Only(b \o slot, K) = Only(b, K) \o Only(slot, K)
    BY <1>6, <1>8
  <1>10. ASSUME NEW x, x # <<"frame", 0>>
         PROVE  N(b \o slot, x) = N(question, x) + N(flat, x)
    <2>1. N(slot, x) = 0
      BY <1>1, <1>10 DEF Clear
    <2>2. N(a, x) = N(question, x)
      BY <1>4, <1>5, <1>10
    <2>3. N(b, x) = N(a, x) + N(flat, x)
      BY <1>6, <1>7
    <2>. QED
      BY <1>9, <2>1, <2>2, <2>3
  <1>11. ASSUME Only(question, Id(id)) = << >>
         PROVE  Only(b \o slot, Id(id)) = Only(flat, Id(id))
    <2>1. PICK K : K = Id(id)
      OBVIOUS
    <2>2. Only(a, K) = << >>
      BY <1>4, <1>5, <1>11, <2>1
    <2>3. Only(slot, K) = << >>
      BY <1>1, <2>1 DEF Clear
    <2>4. PICK m \in Seq(Token) : m = Only(flat, K)
      <3>1. \A s \in Seq(Token) : Only(s, K) \in Seq(Token) /\ Only(s, K) \in Seq(Token \cap K)
        BY OnlyType
      <3>. QED
        BY <3>1
    <2>5. << >> \o m = m /\ m \o << >> = m
      BY ConcatEmptySeq
    <2>6. Only(b, K) = Only(a, K) \o Only(flat, K)
      <3>1. /\ a \o flat \in Seq(Token) /\ Len(a \o flat) = Len(a) + Len(flat)
            /\ \A x : N(a, x) \in Nat /\ N(flat, x) \in Nat /\ N(a \o flat, x) = N(a, x) + N(flat, x)
            /\ \A L : Only(a \o flat, L) = Only(a, L) \o Only(flat, L)
        BY <1>6, Zenon
      <3>. QED
        BY <1>7, <3>1
    <2>. QED
      BY <1>9, <2>1, <2>2, <2>3, <2>4, <2>5, <2>6
  <1>12. build_piece(question, options, label_ids) = b \o slot
    BY <1>3, <1>5, <1>7
  <1>. QED
    BY <1>1, <1>2, <1>9, <1>10, <1>11, <1>12

\* No text holds a letter.
LEMMA PlainText ==
  ASSUME NEW text \in Seq(Kinds), NEW of \in Origin
  PROVE  Only(Encode(text, of), Id("letter")) = << >>
PROOF
  <1>1. PICK X : X = Kinds
    OBVIOUS
  <1>2. PICK x : x = "letter"
    OBVIOUS
  <1>3. X \subseteq Ids /\ text \in Seq(X) /\ x \notin X
    BY <1>1, <1>2, KindsAreIds DEF Kinds
  <1>4. Only(Encode(text, of), Id(x)) = << >>
    BY <1>3, NoneEncoded
  <1>. QED
    BY <1>2, <1>4

\* The context of a piece: as much of the state as fits behind the word.
Context(state, max_len) == Take(Frame(<<"word">>) \o Encode(state, <<"state", 0>>), max_len)

\* The context holds of the state as many tokens as fit, and no letter.
LEMMA ContextIs ==
  ASSUME NEW state \in Text, NEW max_len \in Nat, max_len >= 1
  PROVE  /\ Context(state, max_len) \in Seq(Token)
         /\ N(Context(state, max_len), <<"state", 0>>) = Least(max_len - 1, Len(state))
         /\ \A x : x \notin {<<"frame", 0>>, <<"state", 0>>} => N(Context(state, max_len), x) = 0
         /\ Only(Context(state, max_len), Id("letter")) = << >>
PROOF
  <1>1. PICK id, w : id = "letter" /\ w = Frame(<<"word">>) /\ Clear(w, id) /\ Len(w) = 1
    BY PieceFrame
  <1>2. PICK of \in Origin : of = <<"state", 0>>
    BY Origins
  <1>3. PICK text \in Seq(Kinds) : text = state
    BY DEF Text
  <1>4. PICK m \in Nat : m = max_len - 1
    OBVIOUS
  <1>5. PICK part \in Seq(Kinds) : part = Take(text, m) /\ Len(part) = Least(m, Len(text))
    BY TakeType
  <1>6. /\ Encode(part, of) \in Seq(Token) /\ Len(Encode(part, of)) = Len(part)
        /\ \A x : N(Encode(part, of), x) = IF x = of THEN Len(part) ELSE 0
    BY EncodedIs, Zenon
  <1>7. Encode(text, of) \in Seq(Token)
    BY EncodedIs, Zenon
  <1>8. Take(Encode(text, of), m) = Encode(part, of)
    <2>1. PICK X : X = Kinds
      OBVIOUS
    <2>2. X \subseteq Ids /\ text \in Seq(X)
      BY <2>1, KindsAreIds
    <2>3. Take(Encode(text, of), m) = Encode(Take(text, m), of)
      BY <2>2, TakeEncode
    <2>. QED
      BY <1>5, <2>3
  <1>9. PICK s \in Seq(Token), t \in Seq(Token) : s = w /\ t = Encode(text, of) /\ Len(s) = 1
    BY <1>1, <1>7 DEF Clear
  <1>10. Take(s \o t, max_len) = s \o Take(t, m)
    <2>1. Len(s) <= max_len
      BY <1>9
    <2>2. max_len - Len(s) \in Nat /\ Take(s \o t, max_len) = s \o Take(t, max_len - Len(s))
      BY <2>1, TakeConcat
    <2>3. max_len - Len(s) = m
      BY <1>4, <1>9
    <2>. QED
      BY <2>2, <2>3
  <1>11. PICK kept \in Seq(Token) : kept = Encode(part, of)
    BY <1>6
  <1>12. Context(state, max_len) = s \o kept
    BY <1>1, <1>2, <1>3, <1>8, <1>9, <1>10, <1>11 DEF Context
  <1>13. /\ s \o kept \in Seq(Token) /\ Len(s \o kept) = Len(s) + Len(kept)
         /\ \A x : N(s, x) \in Nat /\ N(kept, x) \in Nat /\ N(s \o kept, x) = N(s, x) + N(kept, x)
         /\ \A K : Only(s \o kept, K) = Only(s, K) \o Only(kept, K)
    BY Concat2, Zenon
  <1>14. \A x : x # <<"frame", 0>> => N(s \o kept, x) = N(kept, x)
    <2>1. \A x : x # <<"frame", 0>> => N(s, x) = 0
      BY <1>1, <1>9 DEF Clear
    <2>. QED
      BY <1>13, <2>1
  <1>15. N(s \o kept, <<"state", 0>>) = Least(max_len - 1, Len(state))
    <2>1. of # <<"frame", 0>>
      BY <1>2
    <2>2. N(s \o kept, of) = Len(part)
      BY <1>6, <1>11, <1>14, <2>1
    <2>. QED
      BY <1>2, <1>3, <1>4, <1>5, <2>2
  <1>16. \A x : x \notin {<<"frame", 0>>, <<"state", 0>>} => N(s \o kept, x) = 0
    BY <1>2, <1>6, <1>11, <1>14
  <1>17. Only(s \o kept, Id(id)) = << >>
    <2>1. PICK K : K = Id(id)
      OBVIOUS
    <2>2. Only(s, K) = << >>
      BY <1>1, <1>9, <2>1 DEF Clear
    <2>3. Only(kept, K) = << >>
      BY <1>1, <1>11, <2>1, PlainText
    <2>4. << >> \o << >> = << >>
      OBVIOUS
    <2>. QED
      BY <1>13, <2>1, <2>2, <2>3, <2>4
  <1>. QED
    BY <1>1, <1>12, <1>13, <1>15, <1>16, <1>17

\* A sequence of one token.
LEMMA OneToken ==
  ASSUME NEW t \in Token, NEW K
  PROVE  /\ <<t>> \in Seq(Token)
         /\ t \in K => Only(<<t>>, K) = <<t>>
         /\ t \notin K => Only(<<t>>, K) = << >>
PROOF
  <1>1. PICK e \in Seq(Token) : e = << >>
    <2>1. << >> \in Seq(Token)
      OBVIOUS
    <2>. QED
      BY <2>1
  <1>2. <<t>> = Append(e, t) /\ <<t>> \in Seq(Token)
    BY <1>1
  <1>3. Only(e, K) = << >>
    BY <1>1, OnlyEmpty
  <1>4. ASSUME t \in K PROVE Only(<<t>>, K) = <<t>>
    <2>1. Only(Append(e, t), K) = Append(Only(e, K), t)
      BY <1>4, OnlyTakes
    <2>. QED
      BY <1>1, <1>2, <1>3, <2>1
  <1>5. ASSUME t \notin K PROVE Only(<<t>>, K) = << >>
    <2>1. Only(Append(e, t), K) = Only(e, K)
      BY <1>5, OnlyDrops
    <2>. QED
      BY <1>2, <1>3, <2>1
  <1>. QED
    BY <1>2, <1>4, <1>5

\* The letter of an option, and the letter of the answer that it is not.
Letter(o) == [id |-> "letter", of |-> <<"marker", o>>]
No(o) == [id |-> "letter", of |-> <<"no", o>>]

\* A letter is one token, its option's, and the answer no is one, of its own.
LEMMA LetterIs ==
  ASSUME NEW o \in Int
  PROVE  /\ Letter(o) \in Token /\ Marker("letter", o) = <<Letter(o)>>
         /\ No(o) \in Token /\ Encode(<<"letter">>, <<"no", o>>) = <<No(o)>>
         /\ Only(<<Letter(o)>>, Id("letter")) = <<Letter(o)>>
         /\ Only(<<No(o)>>, Id("letter")) = <<No(o)>>
         /\ \A x : N(<<Letter(o)>>, x) = IF x = <<"marker", o>> THEN 1 ELSE 0
         /\ \A x : N(<<No(o)>>, x) = IF x = <<"no", o>> THEN 1 ELSE 0
PROOF
  <1>1. Letter(o) \in Token /\ No(o) \in Token
    <2>1. <<"marker", o>> \in Origin /\ <<"no", o>> \in Origin
      BY Origins
    <2>2. "letter" \in Ids
      BY DEF Ids
    <2>. QED
      BY <2>1, <2>2 DEF Token, Letter, No
  <1>2. Marker("letter", o) = <<Letter(o)>>
    BY DEF Marker, Letter
  <1>3. Encode(<<"letter">>, <<"no", o>>) = <<No(o)>>
    <2>1. DOMAIN <<"letter">> = 1..1 /\ <<"letter">>[1] = "letter"
      OBVIOUS
    <2>2. Encode(<<"letter">>, <<"no", o>>) = [j \in 1..1 |-> [id |-> <<"letter">>[j], of |-> <<"no", o>>]]
      BY <2>1 DEF Encode
    <2>. QED
      BY <2>1, <2>2 DEF No
  <1>4. ASSUME NEW t \in Token PROVE /\ t.id = "letter" => Only(<<t>>, Id("letter")) = <<t>>
                                     /\ \A x : N(<<t>>, x) = IF x = t.of THEN 1 ELSE 0
    <2>1. ASSUME t.id = "letter" PROVE Only(<<t>>, Id("letter")) = <<t>>
      <3>1. t \in Id("letter")
        BY <2>1 DEF Id
      <3>. QED
        BY <3>1, OneToken
    <2>2. ASSUME NEW x PROVE N(<<t>>, x) = IF x = t.of THEN 1 ELSE 0
      <3>1. Len(<<t>>) = 1 /\ Len(<< >>) = 0
        OBVIOUS
      <3>2. CASE x = t.of
        <4>1. t \in Of(x)
          BY <3>2 DEF Of
        <4>2. Only(<<t>>, Of(x)) = <<t>>
          BY <4>1, OneToken
        <4>. QED
          BY <3>1, <3>2, <4>2 DEF N
      <3>3. CASE x # t.of
        <4>1. t \notin Of(x)
          BY <3>3 DEF Of
        <4>2. Only(<<t>>, Of(x)) = << >>
          BY <4>1, OneToken
        <4>. QED
          BY <3>1, <3>3, <4>2 DEF N
      <3>. QED
        BY <3>2, <3>3
    <2>. QED
      BY <2>1, <2>2
  <1>5. /\ Only(<<Letter(o)>>, Id("letter")) = <<Letter(o)>>
        /\ \A x : N(<<Letter(o)>>, x) = IF x = <<"marker", o>> THEN 1 ELSE 0
    <2>1. PICK t \in Token : t = Letter(o) /\ t.id = "letter" /\ t.of = <<"marker", o>>
      BY <1>1 DEF Letter
    <2>. QED
      BY <1>4, <2>1
  <1>6. /\ Only(<<No(o)>>, Id("letter")) = <<No(o)>>
        /\ \A x : N(<<No(o)>>, x) = IF x = <<"no", o>> THEN 1 ELSE 0
    <2>1. PICK t \in Token : t = No(o) /\ t.id = "letter" /\ t.of = <<"no", o>>
      BY <1>1 DEF No
    <2>. QED
      BY <1>4, <2>1
  <1>. QED
    BY <1>1, <1>2, <1>3, <1>5, <1>6

\* The options of a question, lettered.
Lettered(rendered) ==
  [o \in DOMAIN rendered |->
     [label |-> Marker("letter", o), text |-> Encode(rendered[o], <<"option", o>>)]]

\* The tokens of sequences of tokens that each have one of K.
LEMMA OneTokenEach ==
  ASSUME NEW ss \in Seq(Seq(Token))
  PROVE  \A K : \A m \in Seq(Token) :
           Len(m) = Len(ss) /\ (\A k \in 1..Len(ss) : Only(ss[k], K) = <<m[k]>>) =>
             Only(FlattenSeq(ss), K) = m
PROOF
  <1>1. ASSUME NEW K
        PROVE  \A m \in Seq(Token) :
                 Len(m) = Len(ss) /\ (\A k \in 1..Len(ss) : Only(ss[k], K) = <<m[k]>>) =>
                   Only(FlattenSeq(ss), K) = m
    BY OnlyOfEach, Zenon
  <1>. QED
    BY <1>1

\* A letter stands before every option, and the options are there whole.
LEMMA LetteredIs ==
  ASSUME NEW rendered \in Seq(Seq(Kinds))
  PROVE  /\ Lettered(rendered) \in Seq(Labelled) /\ Len(Lettered(rendered)) = Len(rendered)
         /\ N(FlattenSeq(Listing(Lettered(rendered))), <<"question", 0>>) = 0
         /\ N(FlattenSeq(Listing(Lettered(rendered))), <<"state", 0>>) = 0
         /\ \A o \in 1..Len(rendered) :
              N(FlattenSeq(Listing(Lettered(rendered))), <<"option", o>>) >= Len(rendered[o])
         /\ Only(FlattenSeq(Listing(Lettered(rendered))), Id("letter"))
              = [o \in 1..Len(rendered) |-> Letter(o)]
PROOF
  <1>1. PICK n \in Nat : n = Len(rendered) /\ DOMAIN rendered = 1..n
    BY LenProperties
  <1>2. \A o \in 1..n : rendered[o] \in Seq(Kinds) /\ Len(rendered[o]) \in Nat
    BY <1>1, ElementOfSeq, LenProperties
  <1>3. \A o \in 1..n : o \in Int /\ <<"option", o>> \in Origin
    <2>1. \A o \in 1..n : o \in Int
      OBVIOUS
    <2>. QED
      BY <2>1, Origins
  <1>4. ASSUME NEW o \in 1..n
        PROVE  /\ Encode(rendered[o], <<"option", o>>) \in Seq(Token)
               /\ \A x : N(Encode(rendered[o], <<"option", o>>), x) =
                           IF x = <<"option", o>> THEN Len(rendered[o]) ELSE 0
               /\ Only(Encode(rendered[o], <<"option", o>>), Id("letter")) = << >>
    <2>1. PICK text \in Seq(Kinds), of \in Origin : text = rendered[o] /\ of = <<"option", o>>
      BY <1>2, <1>3
    <2>2. /\ Encode(text, of) \in Seq(Token) /\ Len(Encode(text, of)) = Len(text)
          /\ \A x : N(Encode(text, of), x) = IF x = of THEN Len(text) ELSE 0
      BY EncodedIs, Zenon
    <2>3. Only(Encode(text, of), Id("letter")) = << >>
      BY PlainText
    <2>. QED
      BY <2>1, <2>2, <2>3
  <1>5. ASSUME NEW o \in 1..n
        PROVE  /\ Marker("letter", o) \in Seq(Token)
               /\ \A x : N(Marker("letter", o), x) = IF x = <<"marker", o>> THEN 1 ELSE 0
               /\ Only(Marker("letter", o), Id("letter")) = <<Letter(o)>>
    <2>1. o \in Int
      BY <1>3
    <2>2. /\ Letter(o) \in Token /\ Marker("letter", o) = <<Letter(o)>>
          /\ No(o) \in Token /\ Encode(<<"letter">>, <<"no", o>>) = <<No(o)>>
          /\ Only(<<Letter(o)>>, Id("letter")) = <<Letter(o)>>
          /\ Only(<<No(o)>>, Id("letter")) = <<No(o)>>
          /\ \A x : N(<<Letter(o)>>, x) = IF x = <<"marker", o>> THEN 1 ELSE 0
          /\ \A x : N(<<No(o)>>, x) = IF x = <<"no", o>> THEN 1 ELSE 0
      BY <2>1, LetterIs
    <2>3. <<Letter(o)>> \in Seq(Token)
      BY <2>2
    <2>. QED
      BY <2>2, <2>3
  <1>6. PICK options \in Seq(Labelled) :
          /\ options = Lettered(rendered) /\ Len(options) = n
          /\ \A o \in 1..n : /\ options[o].label = Marker("letter", o)
                             /\ options[o].text = Encode(rendered[o], <<"option", o>>)
    <2>1. PICK f : f = Lettered(rendered)
      OBVIOUS
    <2>2. f = [o \in 1..n |-> [label |-> Marker("letter", o), text |-> Encode(rendered[o], <<"option", o>>)]]
      BY <1>1, <2>1 DEF Lettered
    <2>3. \A o \in 1..n : [label |-> Marker("letter", o), text |-> Encode(rendered[o], <<"option", o>>)] \in Labelled
      BY <1>4, <1>5 DEF Labelled
    <2>4. f \in [1..n -> Labelled]
      BY <2>2, <2>3
    <2>5. f \in Seq(Labelled) /\ Len(f) = n
      BY <2>4, FunctionIsSeq
    <2>6. \A o \in 1..n : /\ f[o].label = Marker("letter", o)
                          /\ f[o].text = Encode(rendered[o], <<"option", o>>)
      BY <2>2
    <2>. QED
      BY <2>1, <2>5, <2>6
  <1>7. PICK ss \in Seq(Seq(Token)) :
          /\ ss = Listing(options) /\ Len(ss) = n
          /\ \A o \in 1..n : /\ options[o].label \in Seq(Token) /\ options[o].text \in Seq(Token)
                             /\ ss[o] = Listed(options[o].label, options[o].text)
    BY <1>6, ListingType
  <1>8. \A K : \A m \in Seq(Token) :
           Len(m) = Len(ss) /\ (\A k \in 1..Len(ss) : Only(ss[k], K) = <<m[k]>>) =>
             Only(FlattenSeq(ss), K) = m
    BY OneTokenEach, Zenon
  <1>9. ASSUME NEW o \in 1..n
        PROVE  /\ \A x : x # <<"frame", 0>> =>
                    N(ss[o], x) = N(Marker("letter", o), x) + N(Encode(rendered[o], <<"option", o>>), x)
               /\ Only(ss[o], Id("letter")) = <<Letter(o)>>
    <2>1. PICK label \in Seq(Token), text \in Seq(Token) :
            /\ label = Marker("letter", o) /\ text = Encode(rendered[o], <<"option", o>>)
            /\ ss[o] = Listed(label, text)
      BY <1>6, <1>7
    <2>2. /\ Listed(label, text) \in Seq(Token)
          /\ \A x : x # <<"frame", 0>> =>
               /\ N(label, x) \in Nat /\ N(text, x) \in Nat
               /\ N(Listed(label, text), x) = N(label, x) + N(text, x)
          /\ Only(Listed(label, text), Id("letter")) =
               Only(label, Id("letter")) \o Only(text, Id("letter"))
      BY ListedIs
    <2>3. Only(label, Id("letter")) = <<Letter(o)>> /\ Only(text, Id("letter")) = << >>
      BY <1>4, <1>5, <2>1
    <2>4. <<Letter(o)>> \o << >> = <<Letter(o)>>
      OBVIOUS
    <2>. QED
      BY <2>1, <2>2, <2>3, <2>4
  <1>10. ASSUME NEW x \in {<<"question", 0>>, <<"state", 0>>} PROVE N(FlattenSeq(ss), x) = 0
    <2>1. PICK K : K = Of(x)
      OBVIOUS
    <2>2. \A k \in 1..Len(ss) : Only(ss[k], K) = << >>
      <3>1. SUFFICES ASSUME NEW k \in 1..Len(ss) PROVE Only(ss[k], K) = << >>
        OBVIOUS
      <3>2. k \in 1..n /\ ss[k] \in Seq(Token)
        BY <1>7, ElementOfSeq
      <3>3. PICK s \in Seq(Token) : s = ss[k]
        BY <3>2
      <3>4. x # <<"frame", 0>> /\ x # <<"marker", k>> /\ x # <<"option", k>>
        OBVIOUS
      <3>5. N(s, x) = 0
        <4>1. N(Marker("letter", k), x) = 0 /\ N(Encode(rendered[k], <<"option", k>>), x) = 0
          BY <1>4, <1>5, <3>2, <3>4
        <4>2. N(s, x) = N(Marker("letter", k), x) + N(Encode(rendered[k], <<"option", k>>), x)
          BY <1>9, <3>2, <3>3, <3>4
        <4>. QED
          BY <4>1, <4>2
      <3>6. Only(s, K) \in Seq(Token) /\ Only(s, K) \in Seq(Token \cap K)
        BY OnlyType
      <3>7. Len(Only(s, K)) = 0
        BY <2>1, <3>5 DEF N
      <3>. QED
        BY <3>3, <3>6, <3>7, EmptySeq
    <2>3. Only(FlattenSeq(ss), K) = << >>
      BY <2>2, OnlyOfNone
    <2>4. Len(<< >>) = 0
      OBVIOUS
    <2>. QED
      BY <2>1, <2>3, <2>4 DEF N
  <1>11. ASSUME NEW o \in 1..n PROVE N(FlattenSeq(ss), <<"option", o>>) >= Len(rendered[o])
    <2>a. <<"option", o>> # <<"frame", 0>> /\ <<"option", o>> # <<"marker", o>>
      OBVIOUS
    <2>1. PICK x : x = <<"option", o>> /\ x # <<"frame", 0>> /\ x # <<"marker", o>>
      BY <2>a
    <2>2. PICK K : K = Of(x)
      OBVIOUS
    <2>3. PICK k \in 1..Len(ss) : k = o
      BY <1>7
    <2>4. Len(Only(FlattenSeq(ss), K)) >= Len(Only(ss[k], K))
      BY OnlyOfCovers
    <2>5. N(ss[o], x) = Len(rendered[o])
      <3>1. N(Marker("letter", o), x) = 0 /\ N(Encode(rendered[o], <<"option", o>>), x) = Len(rendered[o])
        BY <1>4, <1>5, <2>1
      <3>2. N(ss[o], x) = N(Marker("letter", o), x) + N(Encode(rendered[o], <<"option", o>>), x)
        BY <1>9, <2>1
      <3>3. Len(rendered[o]) \in Nat
        BY <1>2
      <3>. QED
        BY <3>1, <3>2, <3>3
    <2>. QED
      BY <2>1, <2>2, <2>3, <2>4, <2>5 DEF N
  <1>12. Only(FlattenSeq(ss), Id("letter")) = [o \in 1..n |-> Letter(o)]
    <2>1. PICK m : m = [o \in 1..n |-> Letter(o)]
      OBVIOUS
    <2>2. m \in [1..n -> Token]
      BY <1>3, <2>1, LetterIs
    <2>3. m \in Seq(Token) /\ Len(m) = n
      BY <2>2, FunctionIsSeq
    <2>4. PICK K : K = Id("letter")
      OBVIOUS
    <2>5. \A k \in 1..Len(ss) : Only(ss[k], K) = <<m[k]>>
      BY <1>7, <1>9, <2>1, <2>4
    <2>6. \A m2 \in Seq(Token) :
            Len(m2) = Len(ss) /\ (\A k \in 1..Len(ss) : Only(ss[k], K) = <<m2[k]>>) =>
              Only(FlattenSeq(ss), K) = m2
      BY <1>8
    <2>. QED
      BY <1>7, <2>1, <2>3, <2>4, <2>5, <2>6
  <1>13. Len(Lettered(rendered)) = Len(rendered) /\ FlattenSeq(Listing(Lettered(rendered))) = FlattenSeq(ss)
    BY <1>1, <1>6, <1>7
  <1>14. N(FlattenSeq(ss), <<"question", 0>>) = 0 /\ N(FlattenSeq(ss), <<"state", 0>>) = 0
    BY <1>10
  <1>. QED
    BY <1>1, <1>6, <1>11, <1>12, <1>13, <1>14

\* Only a piece of more options than there are label tokens is refused.
LEMMA PieceFails ==
  ASSUME NEW question \in Seq(Token), NEW options \in Seq(Labelled), NEW label_ids,
         build_piece(question, options, label_ids) = << >>
  PROVE  Len(options) > 10 /\ Len(options) > label_ids
PROOF
  <1>1. SUFFICES ASSUME ~ (Len(options) > 10 /\ Len(options) > label_ids) PROVE FALSE
    OBVIOUS
  <1>2. PICK w \in Seq(Token), slot \in Seq(Token) :
          w = Frame(<<"word">>) /\ slot = Frame(<<"slot">>) /\ Len(slot) = 1
    BY PieceFrame DEF Clear
  <1>3. PICK flat \in Seq(Token) : flat = FlattenSeq(Listing(options))
    <2>1. PICK ss \in Seq(Seq(Token)) : ss = Listing(options)
      BY ListingType
    <2>2. FlattenSeq(ss) \in Seq(Token) /\ Len(FlattenSeq(ss)) = Total(Lens(ss))
      BY FlattenLength
    <2>. QED
      BY <2>1, <2>2
  <1>4. build_piece(question, options, label_ids) = w \o question \o w \o flat \o slot
    BY <1>1, <1>2, <1>3 DEF build_piece, Listing, Listed
  <1>5. \A s, t \in Seq(Token) : s \o t \in Seq(Token) /\ Len(s \o t) = Len(s) + Len(t)
    BY ConcatProperties
  <1>6. PICK b \in Seq(Token) : b = w \o question \o w \o flat
    BY <1>5
  <1>7. Len(b \o slot) = Len(b) + 1 /\ Len(b) \in Nat
    BY <1>2, <1>5, LenProperties
  <1>8. b \o slot = << >>
    BY <1>4, <1>6
  <1>9. Len(<< >>) = 0
    OBVIOUS
  <1>. QED
    BY <1>7, <1>8, <1>9

\* The options as they are shown are texts, one per option, two for a noul.
LEMMA RenderedType ==
  ASSUME NEW q \in Question
  PROVE  /\ render_decider_options(q) \in Seq(Seq(Kinds))
         /\ Len(render_decider_options(q)) = IF q.kind = "noul" THEN 2 ELSE Len(q.options)
PROOF
  <1>1. PICK n \in Nat : n = Len(q.options) /\ DOMAIN q.options = 1..n
    BY OptionsType
  <1>2. \A o \in 1..n : q.options[o].text \in Seq(Kinds) /\ q.options[o].description \in Seq(Kinds)
    BY <1>1, OptionsType
  <1>3. \A s, t \in Seq(Kinds) : s \o t \in Seq(Kinds)
    BY ConcatProperties
  <1>4. <<"word">> \in Seq(Kinds) /\ <<"num">> \in Seq(Kinds)
    BY DEF Kinds
  <1>5. q.true_criterion \in Seq(Kinds) /\ q.false_criterion \in Seq(Kinds)
        /\ q.kind \in {"choice", "score", "noul"}
    BY DEF Question, Text
  <1>6. CASE q.kind = "choice"
    <2>1. render_decider_options(q) = [o \in 1..n |-> Described(q.options[o])]
      BY <1>1, <1>6 DEF render_decider_options
    <2>2. \A o \in 1..n : Described(q.options[o]) \in Seq(Kinds)
      BY <1>2, <1>3 DEF Described
    <2>3. PICK f : f = [o \in 1..n |-> Described(q.options[o])]
      OBVIOUS
    <2>4. f \in [1..n -> Seq(Kinds)]
      BY <2>2, <2>3
    <2>5. f \in Seq(Seq(Kinds)) /\ Len(f) = n
      BY <2>4, FunctionIsSeq
    <2>. QED
      BY <1>1, <1>6, <2>1, <2>3, <2>5
  <1>7. CASE q.kind = "score"
    <2>1. render_decider_options(q) = [o \in 1..n |-> <<"num">> \o q.options[o].text]
      BY <1>1, <1>7 DEF render_decider_options
    <2>2. \A o \in 1..n : <<"num">> \o q.options[o].text \in Seq(Kinds)
      BY <1>2, <1>3, <1>4
    <2>3. PICK f : f = [o \in 1..n |-> <<"num">> \o q.options[o].text]
      OBVIOUS
    <2>4. f \in [1..n -> Seq(Kinds)]
      BY <2>2, <2>3
    <2>5. f \in Seq(Seq(Kinds)) /\ Len(f) = n
      BY <2>4, FunctionIsSeq
    <2>. QED
      BY <1>1, <1>7, <2>1, <2>3, <2>5
  <1>8. CASE q.kind = "noul"
    <2>1. render_decider_options(q) = <<Side(q.false_criterion), Side(q.true_criterion)>>
      BY <1>8 DEF render_decider_options
    <2>2. Side(q.false_criterion) \in Seq(Kinds) /\ Side(q.true_criterion) \in Seq(Kinds)
      BY <1>3, <1>4, <1>5 DEF Side
    <2>3. \A s, t \in Seq(Kinds) : <<s, t>> \in Seq(Seq(Kinds)) /\ Len(<<s, t>>) = 2
      OBVIOUS
    <2>. QED
      BY <1>8, <2>1, <2>2, <2>3
  <1>. QED
    BY <1>5, <1>6, <1>7, <1>8

\* A row of the slots: the context, and the piece behind it.
LEMMA SlottedIs ==
  ASSUME NEW ctx \in Seq(Token), NEW piece \in Seq(Token), Only(ctx, Id("letter")) = << >>
  PROVE  /\ Slotted(ctx \o piece) \in Row /\ Slotted(ctx \o piece).ids = ctx \o piece
         /\ \A x : N(ctx, x) \in Nat /\ N(piece, x) \in Nat
         /\ \A x : N(ctx \o piece, x) = N(ctx, x) + N(piece, x)
         /\ Only(ctx \o piece, Id("letter")) = Only(piece, Id("letter"))
PROOF
  <1>1. /\ ctx \o piece \in Seq(Token) /\ Len(ctx \o piece) = Len(ctx) + Len(piece)
        /\ \A x : N(ctx, x) \in Nat /\ N(piece, x) \in Nat /\ N(ctx \o piece, x) = N(ctx, x) + N(piece, x)
        /\ \A K : Only(ctx \o piece, K) = Only(ctx, K) \o Only(piece, K)
    BY Concat2, Zenon
  <1>2. PICK ids \in Seq(Token) : ids = ctx \o piece /\ Len(ids) \in Nat
    BY <1>1, LenProperties
  <1>3. Slotted(ids) \in Row /\ Slotted(ids).ids = ids
    <2>1. <<Len(ids)>> \in Seq(Nat)
      BY <1>2
    <2>. QED
      BY <2>1 DEF Slotted, Row
  <1>4. Only(ctx \o piece, Id("letter")) = Only(piece, Id("letter"))
    <2>1. PICK K : K = Id("letter")
      OBVIOUS
    <2>2. PICK m \in Seq(Token) : m = Only(piece, K)
      <3>1. \A s \in Seq(Token) : Only(s, K) \in Seq(Token) /\ Only(s, K) \in Seq(Token \cap K)
        BY OnlyType
      <3>. QED
        BY <3>1
    <2>3. << >> \o m = m
      BY ConcatEmptySeq
    <2>4. Only(ctx \o piece, K) = Only(ctx, K) \o Only(piece, K)
      BY <1>1
    <2>. QED
      BY <2>1, <2>2, <2>3, <2>4
  <1>5. \A x : N(ctx, x) \in Nat /\ N(piece, x) \in Nat
    BY <1>1
  <1>6. \A x : N(ctx \o piece, x) = N(ctx, x) + N(piece, x)
    BY <1>1
  <1>. QED
    BY <1>2, <1>3, <1>4, <1>5, <1>6

\* The instructions, encoded.
LEMMA AskedIs ==
  ASSUME NEW q \in Question
  PROVE  /\ Asked(q) \in Seq(Token)
         /\ N(Asked(q), <<"question", 0>>) = Len(q.instructions) /\ Len(q.instructions) \in Nat
         /\ \A x : x # <<"question", 0>> => N(Asked(q), x) = 0
         /\ Only(Asked(q), Id("letter")) = << >>
PROOF
  <1>1. PICK text \in Seq(Kinds), of \in Origin :
          text = q.instructions /\ of = <<"question", 0>> /\ Len(text) \in Nat
    BY Origins, LenProperties DEF Question, Text
  <1>2. /\ Encode(text, of) \in Seq(Token) /\ Len(Encode(text, of)) = Len(text)
        /\ \A x : N(Encode(text, of), x) = IF x = of THEN Len(text) ELSE 0
    BY EncodedIs, Zenon
  <1>3. Only(Encode(text, of), Id("letter")) = << >>
    BY PlainText
  <1>. QED
    BY <1>1, <1>2, <1>3 DEF Asked

\* What a row of all options holds of the state, the question and the options,
\* and the letters the graph scores, in the options' order.
LEMMA LetteredRow ==
  ASSUME NEW q \in Question, NEW state \in Text, NEW cfg, cfg.max_len \in Nat, cfg.max_len >= 1,
         ~ (q.kind = "score" /\ cfg.isolated_levels), encode_pair(q, state, cfg) # << >>
  PROVE  \E row \in Row :
           /\ encode_pair(q, state, cfg) = <<row>>
           /\ N(row.ids, <<"state", 0>>) = Least(cfg.max_len - 1, Len(state))
           /\ N(row.ids, <<"question", 0>>) = Len(q.instructions)
           /\ \A o \in 1..Len(render_decider_options(q)) :
                N(row.ids, <<"option", o>>) >= Len(render_decider_options(q)[o])
           /\ Only(row.ids, Id("letter")) =
                [o \in 1..Len(render_decider_options(q)) |-> Letter(o)]
PROOF
  <1>1. PICK rendered \in Seq(Seq(Kinds)) : rendered = render_decider_options(q)
    BY RenderedType
  <1>2. PICK max_len \in Nat : max_len = cfg.max_len /\ max_len >= 1
    OBVIOUS
  <1>3. PICK ctx \in Seq(Token) :
          /\ ctx = Context(state, max_len)
          /\ N(ctx, <<"state", 0>>) = Least(max_len - 1, Len(state))
          /\ \A x : x \notin {<<"frame", 0>>, <<"state", 0>>} => N(ctx, x) = 0
          /\ Only(ctx, Id("letter")) = << >>
    BY <1>2, ContextIs
  <1>4. PICK options \in Seq(Labelled) :
          /\ options = Lettered(rendered)
          /\ N(FlattenSeq(Listing(options)), <<"question", 0>>) = 0
          /\ N(FlattenSeq(Listing(options)), <<"state", 0>>) = 0
          /\ \A o \in 1..Len(rendered) : N(FlattenSeq(Listing(options)), <<"option", o>>) >= Len(rendered[o])
          /\ Only(FlattenSeq(Listing(options)), Id("letter")) = [o \in 1..Len(rendered) |-> Letter(o)]
    BY LetteredIs
  <1>5. PICK asked \in Seq(Token) :
          /\ asked = Asked(q)
          /\ N(asked, <<"question", 0>>) = Len(q.instructions) /\ Len(q.instructions) \in Nat
          /\ \A x : x # <<"question", 0>> => N(asked, x) = 0
          /\ Only(asked, Id("letter")) = << >>
    BY AskedIs
  <1>6. /\ build_piece(asked, options, cfg.label_ids) # << >>
        /\ encode_pair(q, state, cfg) = <<Slotted(ctx \o build_piece(asked, options, cfg.label_ids))>>
    BY <1>1, <1>2, <1>3, <1>4, <1>5 DEF encode_pair, Context, Lettered, Asked
  <1>7. PICK flat \in Seq(Token) : flat = FlattenSeq(Listing(options))
    BY <1>6, PieceIs
  <1>8. PICK piece \in Seq(Token) :
          /\ piece = build_piece(asked, options, cfg.label_ids)
          /\ \A x : x # <<"frame", 0>> => N(piece, x) = N(asked, x) + N(flat, x)
          /\ Only(piece, Id("letter")) = Only(flat, Id("letter"))
    BY <1>5, <1>6, <1>7, PieceIs
  <1>9. /\ Slotted(ctx \o piece) \in Row /\ Slotted(ctx \o piece).ids = ctx \o piece
        /\ \A x : N(ctx, x) \in Nat /\ N(piece, x) \in Nat
        /\ \A x : N(ctx \o piece, x) = N(ctx, x) + N(piece, x)
        /\ Only(ctx \o piece, Id("letter")) = Only(piece, Id("letter"))
    BY <1>3, SlottedIs
  <1>10. PICK row \in Row : row = Slotted(ctx \o piece) /\ row.ids = ctx \o piece
    BY <1>9
  <1>11. \A x : x # <<"frame", 0>> => N(row.ids, x) = N(ctx, x) + (N(asked, x) + N(flat, x))
    BY <1>8, <1>9, <1>10
  <1>12. N(row.ids, <<"state", 0>>) = Least(max_len - 1, Len(state))
    <2>1. PICK x : x = <<"state", 0>> /\ x # <<"frame", 0>> /\ x # <<"question", 0>>
      <3>1. <<"state", 0>> # <<"frame", 0>> /\ <<"state", 0>> # <<"question", 0>>
        OBVIOUS
      <3>. QED
        BY <3>1
    <2>2. N(asked, x) = 0 /\ N(flat, x) = 0
      BY <1>4, <1>5, <1>7, <2>1
    <2>3. N(row.ids, x) = N(ctx, x) + (N(asked, x) + N(flat, x)) /\ N(ctx, x) \in Nat
      BY <1>9, <1>11, <2>1
    <2>. QED
      BY <1>3, <2>1, <2>2, <2>3
  <1>13. N(row.ids, <<"question", 0>>) = Len(q.instructions)
    <2>1. PICK x : x = <<"question", 0>> /\ x # <<"frame", 0>> /\ x # <<"state", 0>>
      <3>1. <<"question", 0>> # <<"frame", 0>> /\ <<"question", 0>> # <<"state", 0>>
        OBVIOUS
      <3>. QED
        BY <3>1
    <2>2. N(ctx, x) = 0 /\ N(flat, x) = 0
      BY <1>3, <1>4, <1>7, <2>1
    <2>3. N(row.ids, x) = N(ctx, x) + (N(asked, x) + N(flat, x)) /\ N(asked, x) = Len(q.instructions)
      BY <1>5, <1>11, <2>1
    <2>. QED
      BY <1>5, <2>1, <2>2, <2>3
  <1>14. ASSUME NEW o \in 1..Len(rendered) PROVE N(row.ids, <<"option", o>>) >= Len(rendered[o])
    <2>1. PICK x : x = <<"option", o>> /\ x \notin {<<"frame", 0>>, <<"state", 0>>, <<"question", 0>>}
      <3>1. <<"option", o>> \notin {<<"frame", 0>>, <<"state", 0>>, <<"question", 0>>}
        OBVIOUS
      <3>. QED
        BY <3>1
    <2>2. N(ctx, x) = 0 /\ N(asked, x) = 0
      BY <1>3, <1>5, <2>1
    <2>3. N(row.ids, x) = N(ctx, x) + (N(asked, x) + N(flat, x))
      BY <1>11, <2>1
    <2>4. N(flat, x) >= Len(rendered[o]) /\ N(flat, x) \in Nat
      <3>1. N(flat, x) >= Len(rendered[o])
        BY <1>4, <1>7, <2>1
      <3>2. N(flat, x) \in Nat
        BY CountConcat
      <3>. QED
        BY <3>1, <3>2
    <2>. QED
      BY <2>1, <2>2, <2>3, <2>4
  <1>15. Only(row.ids, Id("letter")) = [o \in 1..Len(rendered) |-> Letter(o)]
    BY <1>4, <1>7, <1>8, <1>9, <1>10
  <1>. QED
    BY <1>1, <1>2, <1>6, <1>8, <1>10, <1>12, <1>13, <1>14, <1>15

\* A level without its number is a text.
LEMMA StrippedType ==
  ASSUME NEW text \in Seq(Kinds)
  PROVE  strip_level_number(text) \in Seq(Kinds)
PROOF
  <1>1. text # << >> => Tail(text) \in Seq(Kinds)
    BY HeadTailProperties
  <1>. QED
    BY <1>1 DEF strip_level_number

\* A sequence of two tokens.
LEMMA TwoTokens ==
  ASSUME NEW s \in Token, NEW t \in Token
  PROVE  <<s>> \o <<t>> = <<s, t>>
PROOF
  <1>1. <<s>> \in Seq(Token) /\ Len(<<s>>) = 1 /\ <<s>>[1] = s
    OBVIOUS
  <1>2. PICK one \in Seq(Token) : one = <<s>> /\ Len(one) = 1 /\ one[1] = s
    BY <1>1
  <1>3. /\ Append(one, t) \in Seq(Token) /\ Len(Append(one, t)) = 2
        /\ Append(one, t)[1] = s /\ Append(one, t)[2] = t
    BY <1>2, AppendProperties
  <1>4. PICK u \in Seq(Token) : u = Append(one, t) /\ Len(u) = 2 /\ u[1] = s /\ u[2] = t
    BY <1>3
  <1>5. <<s, t>> \in Seq(Token) /\ Len(<<s, t>>) = 2 /\ <<s, t>>[1] = s /\ <<s, t>>[2] = t
    OBVIOUS
  <1>6. PICK v \in Seq(Token) : v = <<s, t>> /\ Len(v) = 2 /\ v[1] = s /\ v[2] = t
    BY <1>5
  <1>7. \A i \in 1..2 : u[i] = v[i]
    BY <1>4, <1>6
  <1>8. u = v
    BY <1>4, <1>6, <1>7, SeqEqual
  <1>9. Append(one, t) = one \o <<t>>
    BY AppendIsConcat
  <1>. QED
    BY <1>2, <1>4, <1>6, <1>8, <1>9

\* Two sequences, flattened.
LEMMA FlattenTwo ==
  ASSUME NEW a \in Seq(Token), NEW b \in Seq(Token)
  PROVE  FlattenSeq(<<a, b>>) = a \o b
PROOF
  <1>1. PICK e \in Seq(Seq(Token)) : e = << >>
    <2>1. << >> \in Seq(Seq(Token))
      OBVIOUS
    <2>. QED
      BY <2>1
  <1>2. PICK one \in Seq(Seq(Token)) : one = Append(e, a)
    <2>1. Append(e, a) \in Seq(Seq(Token))
      BY AppendProperties
    <2>. QED
      BY <2>1
  <1>3. FlattenSeq(e) \in Seq(Token) /\ FlattenSeq(Append(e, a)) = FlattenSeq(e) \o a
    BY FlattenAppend
  <1>4. FlattenSeq(one) \in Seq(Token) /\ FlattenSeq(Append(one, b)) = FlattenSeq(one) \o b
    BY FlattenAppend
  <1>5. FlattenSeq(e) = << >>
    BY <1>1, FlattenEmpty
  <1>6. << >> \o a = a
    BY ConcatEmptySeq
  <1>7. <<a, b>> = Append(one, b)
    BY <1>1, <1>2
  <1>. QED
    BY <1>2, <1>3, <1>4, <1>5, <1>6, <1>7

\* The two answers of an isolated level: it does not fit, it does.
TwoAnswers(o) ==
  <<[label |-> Encode(<<"letter">>, <<"no", o>>), text |-> Frame(<<"word">>)],
    [label |-> Marker("letter", o), text |-> Frame(<<"word">>)]>>

\* The two answers hold the option's letter and its no, in this order.
LEMMA TwoAnswersIs ==
  ASSUME NEW o \in Int
  PROVE  /\ TwoAnswers(o) \in Seq(Labelled) /\ Len(TwoAnswers(o)) = 2
         /\ FlattenSeq(Listing(TwoAnswers(o))) \in Seq(Token)
         /\ N(FlattenSeq(Listing(TwoAnswers(o))), <<"marker", o>>) = 1
         /\ \A x : x \notin {<<"frame", 0>>, <<"marker", o>>, <<"no", o>>} =>
              N(FlattenSeq(Listing(TwoAnswers(o))), x) = 0
         /\ Only(FlattenSeq(Listing(TwoAnswers(o))), Id("letter")) = <<No(o), Letter(o)>>
PROOF
  <1>1. PICK w \in Seq(Token) :
          /\ w = Frame(<<"word">>) /\ Only(w, Id("letter")) = << >>
          /\ \A x : x # <<"frame", 0>> => N(w, x) = 0
    BY PieceFrame DEF Clear
  <1>2. /\ Letter(o) \in Token /\ Marker("letter", o) = <<Letter(o)>>
        /\ No(o) \in Token /\ Encode(<<"letter">>, <<"no", o>>) = <<No(o)>>
        /\ Only(<<Letter(o)>>, Id("letter")) = <<Letter(o)>>
        /\ Only(<<No(o)>>, Id("letter")) = <<No(o)>>
        /\ \A x : N(<<Letter(o)>>, x) = IF x = <<"marker", o>> THEN 1 ELSE 0
        /\ \A x : N(<<No(o)>>, x) = IF x = <<"no", o>> THEN 1 ELSE 0
    BY LetterIs
  <1>3. PICK l \in Seq(Token), m \in Seq(Token) : l = <<No(o)>> /\ m = <<Letter(o)>>
    <2>1. \A t \in Token : <<t>> \in Seq(Token)
      OBVIOUS
    <2>2. <<No(o)>> \in Seq(Token) /\ <<Letter(o)>> \in Seq(Token)
      BY <1>2, <2>1
    <2>. QED
      BY <2>2
  <1>4. PICK options \in Seq(Labelled) :
          /\ options = TwoAnswers(o) /\ options = <<[label |-> l, text |-> w], [label |-> m, text |-> w]>>
    <2>1. PICK a \in Labelled, b \in Labelled : a = [label |-> l, text |-> w] /\ b = [label |-> m, text |-> w]
      BY DEF Labelled
    <2>2. <<a, b>> \in Seq(Labelled)
      OBVIOUS
    <2>3. TwoAnswers(o) = <<a, b>>
      BY <1>1, <1>2, <1>3, <2>1 DEF TwoAnswers
    <2>. QED
      BY <2>1, <2>2, <2>3
  <1>5. \A label, text \in Seq(Token) :
          /\ Listed(label, text) \in Seq(Token)
          /\ \A x : x # <<"frame", 0>> =>
               /\ N(label, x) \in Nat /\ N(text, x) \in Nat
               /\ N(Listed(label, text), x) = N(label, x) + N(text, x)
          /\ Only(Listed(label, text), Id("letter")) =
               Only(label, Id("letter")) \o Only(text, Id("letter"))
    BY ListedIs
  <1>6. PICK a \in Seq(Token), b \in Seq(Token) : a = Listed(l, w) /\ b = Listed(m, w)
    BY <1>5
  <1>7. Listing(options) = <<a, b>>
    <2>1. Len(options) = 2 /\ DOMAIN options = 1..2
      BY <1>4
    <2>2. Listing(options) = [k \in 1..2 |-> Listed(options[k].label, options[k].text)]
      BY <2>1 DEF Listing
    <2>3. options[1].label = l /\ options[1].text = w /\ options[2].label = m /\ options[2].text = w
      BY <1>4
    <2>4. PICK f : f = Listing(options)
      OBVIOUS
    <2>5. f = [k \in 1..2 |-> IF k = 1 THEN a ELSE b]
      BY <1>6, <2>2, <2>3, <2>4
    <2>6. f = <<a, b>>
      BY <2>5
    <2>. QED
      BY <2>4, <2>6
  <1>8. FlattenSeq(Listing(options)) = a \o b
    BY <1>7, FlattenTwo
  <1>9. /\ a \o b \in Seq(Token) /\ Len(a \o b) = Len(a) + Len(b)
        /\ \A x : N(a, x) \in Nat /\ N(b, x) \in Nat /\ N(a \o b, x) = N(a, x) + N(b, x)
        /\ \A K : Only(a \o b, K) = Only(a, K) \o Only(b, K)
    BY Concat2, Zenon
  <1>10. \A x : x # <<"frame", 0>> =>
           N(l, x) \in Nat /\ N(w, x) \in Nat /\ N(Listed(l, w), x) = N(l, x) + N(w, x)
    BY <1>5, Zenon
  <1>11. \A x : x # <<"frame", 0>> =>
           N(m, x) \in Nat /\ N(w, x) \in Nat /\ N(Listed(m, w), x) = N(m, x) + N(w, x)
    BY <1>5, Zenon
  <1>12. ASSUME NEW x, x # <<"frame", 0>>
         PROVE  N(a \o b, x) = N(<<No(o)>>, x) + N(<<Letter(o)>>, x)
    <2>1. N(w, x) = 0
      BY <1>1, <1>12
    <2>2. N(a, x) = N(l, x) + N(w, x) /\ N(l, x) \in Nat
      BY <1>6, <1>12, <1>10
    <2>3. N(b, x) = N(m, x) + N(w, x) /\ N(m, x) \in Nat
      BY <1>6, <1>12, <1>11
    <2>4. N(a, x) = N(l, x) /\ N(b, x) = N(m, x)
      BY <2>1, <2>2, <2>3
    <2>. QED
      BY <1>3, <1>9, <2>4
  <1>13. Only(a \o b, Id("letter")) = <<No(o), Letter(o)>>
    <2>1. Only(a, Id("letter")) = Only(l, Id("letter")) \o Only(w, Id("letter"))
      BY <1>5, <1>6
    <2>2. Only(b, Id("letter")) = Only(m, Id("letter")) \o Only(w, Id("letter"))
      BY <1>5, <1>6
    <2>3. <<No(o)>> \o << >> = <<No(o)>> /\ <<Letter(o)>> \o << >> = <<Letter(o)>>
      OBVIOUS
    <2>4. Only(a, Id("letter")) = <<No(o)>> /\ Only(b, Id("letter")) = <<Letter(o)>>
      BY <1>1, <1>2, <1>3, <2>1, <2>2, <2>3
    <2>5. Only(a \o b, Id("letter")) = Only(a, Id("letter")) \o Only(b, Id("letter"))
      BY <1>9
    <2>6. <<No(o)>> \o <<Letter(o)>> = <<No(o), Letter(o)>>
      <3>1. ASSUME NEW s \in Token, NEW t \in Token PROVE <<s>> \o <<t>> = <<s, t>>
        BY TwoTokens
      <3>. QED
        BY <1>2, <3>1
    <2>. QED
      BY <2>4, <2>5, <2>6
  <1>14. N(a \o b, <<"marker", o>>) = 1
    <2>1. <<"marker", o>> # <<"frame", 0>> /\ <<"marker", o>> # <<"no", o>>
      OBVIOUS
    <2>2. PICK x : x = <<"marker", o>> /\ x # <<"frame", 0>> /\ x # <<"no", o>>
      BY <2>1
    <2>3. N(<<No(o)>>, x) = 0 /\ N(<<Letter(o)>>, x) = 1
      BY <1>2, <2>2
    <2>4. N(a \o b, x) = N(<<No(o)>>, x) + N(<<Letter(o)>>, x)
      BY <1>12, <2>2
    <2>. QED
      BY <2>2, <2>3, <2>4
  <1>15. \A x : x \notin {<<"frame", 0>>, <<"marker", o>>, <<"no", o>>} => N(a \o b, x) = 0
    <2>1. SUFFICES ASSUME NEW x, x # <<"frame", 0>>, x # <<"marker", o>>, x # <<"no", o>>
                   PROVE  N(a \o b, x) = 0
      OBVIOUS
    <2>2. N(<<No(o)>>, x) = 0 /\ N(<<Letter(o)>>, x) = 0
      BY <1>2, <2>1
    <2>3. N(a \o b, x) = N(<<No(o)>>, x) + N(<<Letter(o)>>, x)
      BY <1>12, <2>1
    <2>. QED
      BY <2>2, <2>3
  <1>16. Len(options) = 2
    BY <1>4
  <1>. QED
    BY <1>4, <1>8, <1>9, <1>13, <1>14, <1>15, <1>16

\* What the row of one level holds of the state, the question and the level.
LEMMA IsolatedRow ==
  ASSUME NEW q \in Question, NEW o \in 1..Len(q.options), NEW ctx \in Seq(Token), NEW label_ids,
         \A x : x \notin {<<"frame", 0>>, <<"state", 0>>} => N(ctx, x) = 0,
         Only(ctx, Id("letter")) = << >>
  PROVE  \E row \in Row :
           /\ Slotted(build_isolated_row(ctx, q, o, label_ids)) = row
           /\ N(row.ids, <<"state", 0>>) = N(ctx, <<"state", 0>>)
           /\ N(row.ids, <<"question", 0>>) = Len(q.instructions)
           /\ N(row.ids, <<"marker", o>>) = 1
           /\ N(row.ids, <<"option", o>>) >= Len(strip_level_number(q.options[o].text))
           /\ Only(row.ids, Id("letter")) = <<No(o), Letter(o)>>
PROOF
  <1>1. o \in Int /\ q.options[o].text \in Seq(Kinds)
    BY OptionsType
  <1>2. PICK text \in Seq(Kinds), of \in Origin :
          text = strip_level_number(q.options[o].text) /\ of = <<"option", o>> /\ Len(text) \in Nat
    BY <1>1, StrippedType, Origins, LenProperties
  <1>3. /\ Encode(text, of) \in Seq(Token) /\ Len(Encode(text, of)) = Len(text)
        /\ \A x : N(Encode(text, of), x) = IF x = of THEN Len(text) ELSE 0
    BY EncodedIs, Zenon
  <1>4. PICK asked \in Seq(Token) :
          /\ asked = Asked(q)
          /\ N(asked, <<"question", 0>>) = Len(q.instructions) /\ Len(q.instructions) \in Nat
          /\ \A x : x # <<"question", 0>> => N(asked, x) = 0
          /\ Only(asked, Id("letter")) = << >>
    BY AskedIs
  <1>5. PICK level \in Seq(Token) : level = Encode(text, of) /\ Only(level, Id("letter")) = << >>
    BY <1>3, PlainText
  <1>6. /\ asked \o level \in Seq(Token) /\ Len(asked \o level) = Len(asked) + Len(level)
        /\ \A x : N(asked, x) \in Nat /\ N(level, x) \in Nat /\ N(asked \o level, x) = N(asked, x) + N(level, x)
        /\ \A K : Only(asked \o level, K) = Only(asked, K) \o Only(level, K)
    BY Concat2, Zenon
  <1>7. PICK question \in Seq(Token) : question = asked \o level
    BY <1>6
  <1>8. Only(question, Id("letter")) = << >>
    <2>1. Only(question, Id("letter")) = Only(asked, Id("letter")) \o Only(level, Id("letter"))
      BY <1>6, <1>7
    <2>2. << >> \o << >> = << >>
      OBVIOUS
    <2>. QED
      BY <1>4, <1>5, <2>1, <2>2
  <1>9. PICK options \in Seq(Labelled), flat \in Seq(Token) :
          /\ options = TwoAnswers(o) /\ Len(options) = 2 /\ flat = FlattenSeq(Listing(options))
          /\ N(flat, <<"marker", o>>) = 1
          /\ \A x : x \notin {<<"frame", 0>>, <<"marker", o>>, <<"no", o>>} => N(flat, x) = 0
          /\ Only(flat, Id("letter")) = <<No(o), Letter(o)>>
    BY <1>1, TwoAnswersIs
  <1>10. build_piece(question, options, label_ids) # << >>
    <2>1. build_piece(question, options, label_ids) = << >> => Len(options) > 10 /\ Len(options) > label_ids
      BY PieceFails
    <2>. QED
      BY <1>9, <2>1
  <1>11. PICK piece \in Seq(Token) :
           /\ piece = build_piece(question, options, label_ids)
           /\ \A x : x # <<"frame", 0>> => N(piece, x) = N(question, x) + N(flat, x)
           /\ Only(piece, Id("letter")) = Only(flat, Id("letter"))
    BY <1>8, <1>9, <1>10, PieceIs
  <1>12. build_isolated_row(ctx, q, o, label_ids) = ctx \o piece
    BY <1>2, <1>4, <1>5, <1>7, <1>9, <1>11 DEF build_isolated_row, TwoAnswers, Asked
  <1>13. /\ Slotted(ctx \o piece) \in Row /\ Slotted(ctx \o piece).ids = ctx \o piece
         /\ \A x : N(ctx, x) \in Nat /\ N(piece, x) \in Nat
         /\ \A x : N(ctx \o piece, x) = N(ctx, x) + N(piece, x)
         /\ Only(ctx \o piece, Id("letter")) = Only(piece, Id("letter"))
    BY SlottedIs
  <1>14. PICK row \in Row : row = Slotted(ctx \o piece) /\ row.ids = ctx \o piece
    BY <1>13
  <1>15. ASSUME NEW x, x # <<"frame", 0>>
         PROVE  /\ N(row.ids, x) = N(ctx, x) + (N(asked, x) + N(level, x) + N(flat, x))
                /\ N(ctx, x) \in Nat /\ N(asked, x) \in Nat /\ N(level, x) \in Nat
    <2>1. N(piece, x) = N(question, x) + N(flat, x)
      BY <1>11, <1>15
    <2>2. N(question, x) = N(asked, x) + N(level, x) /\ N(asked, x) \in Nat /\ N(level, x) \in Nat
      BY <1>6, <1>7
    <2>3. N(row.ids, x) = N(ctx, x) + N(piece, x) /\ N(ctx, x) \in Nat
      BY <1>13, <1>14
    <2>. QED
      BY <2>1, <2>2, <2>3
  <1>16. ASSUME NEW x, x # <<"frame", 0>>, x # <<"state", 0>>
         PROVE  N(row.ids, x) = N(asked, x) + N(level, x) + N(flat, x)
    <2>1. N(ctx, x) = 0
      BY <1>16
    <2>2. /\ N(row.ids, x) = N(ctx, x) + (N(asked, x) + N(level, x) + N(flat, x))
          /\ N(ctx, x) \in Nat /\ N(asked, x) \in Nat /\ N(level, x) \in Nat
      BY <1>15, <1>16
    <2>3. N(flat, x) \in Nat
      BY CountConcat
    <2>. QED
      BY <2>1, <2>2, <2>3
  <1>17. N(row.ids, <<"state", 0>>) = N(ctx, <<"state", 0>>)
    <2>1. PICK x : x = <<"state", 0>> /\ x # of /\ x \notin {<<"frame", 0>>, <<"question", 0>>, <<"marker", o>>, <<"no", o>>}
      <3>1. /\ <<"state", 0>> # <<"option", o>>
            /\ <<"state", 0>> \notin {<<"frame", 0>>, <<"question", 0>>, <<"marker", o>>, <<"no", o>>}
        OBVIOUS
      <3>. QED
        BY <1>2, <3>1
    <2>2. N(asked, x) = 0 /\ N(level, x) = 0 /\ N(flat, x) = 0
      BY <1>3, <1>4, <1>5, <1>9, <2>1
    <2>3. N(row.ids, x) = N(ctx, x) + (N(asked, x) + N(level, x) + N(flat, x)) /\ N(ctx, x) \in Nat
      BY <1>15, <2>1
    <2>. QED
      BY <2>1, <2>2, <2>3
  <1>18. N(row.ids, <<"question", 0>>) = Len(q.instructions)
    <2>1. PICK x : x = <<"question", 0>> /\ x # of /\ x \notin {<<"frame", 0>>, <<"state", 0>>, <<"marker", o>>, <<"no", o>>}
      <3>1. /\ <<"question", 0>> # <<"option", o>>
            /\ <<"question", 0>> \notin {<<"frame", 0>>, <<"state", 0>>, <<"marker", o>>, <<"no", o>>}
        OBVIOUS
      <3>. QED
        BY <1>2, <3>1
    <2>2. N(asked, x) = Len(q.instructions) /\ N(level, x) = 0 /\ N(flat, x) = 0
      BY <1>3, <1>4, <1>5, <1>9, <2>1
    <2>3. N(row.ids, x) = N(asked, x) + N(level, x) + N(flat, x)
      BY <1>16, <2>1
    <2>. QED
      BY <1>4, <2>1, <2>2, <2>3
  <1>19. N(row.ids, <<"marker", o>>) = 1
    <2>1. PICK x : x = <<"marker", o>> /\ x # of /\ x \notin {<<"frame", 0>>, <<"state", 0>>, <<"question", 0>>}
      <3>1. /\ <<"marker", o>> # <<"option", o>>
            /\ <<"marker", o>> \notin {<<"frame", 0>>, <<"state", 0>>, <<"question", 0>>}
        OBVIOUS
      <3>. QED
        BY <1>2, <3>1
    <2>2. N(asked, x) = 0 /\ N(level, x) = 0 /\ N(flat, x) = 1
      BY <1>3, <1>4, <1>5, <1>9, <2>1
    <2>3. N(row.ids, x) = N(asked, x) + N(level, x) + N(flat, x)
      BY <1>16, <2>1
    <2>. QED
      BY <2>1, <2>2, <2>3
  <1>20. N(row.ids, <<"option", o>>) >= Len(text)
    <2>1. PICK x : x = <<"option", o>> /\ x \notin {<<"frame", 0>>, <<"state", 0>>, <<"question", 0>>}
      <3>1. <<"option", o>> \notin {<<"frame", 0>>, <<"state", 0>>, <<"question", 0>>}
        OBVIOUS
      <3>. QED
        BY <3>1
    <2>2. N(asked, x) = 0 /\ N(level, x) = Len(text)
      BY <1>2, <1>3, <1>4, <1>5, <2>1
    <2>3. N(row.ids, x) = N(asked, x) + N(level, x) + N(flat, x) /\ N(flat, x) \in Nat
      BY <1>16, <2>1, CountConcat
    <2>. QED
      BY <1>2, <2>1, <2>2, <2>3
  <1>21. Only(row.ids, Id("letter")) = <<No(o), Letter(o)>>
    BY <1>9, <1>11, <1>13, <1>14
  <1>. QED
    BY <1>2, <1>12, <1>14, <1>17, <1>18, <1>19, <1>20, <1>21

\* The rows of a score whose levels are asked for one by one.
LEMMA IsolatedRows ==
  ASSUME NEW q \in Question, NEW state \in Text, NEW cfg, cfg.max_len \in Nat, cfg.max_len >= 1,
         q.kind = "score", cfg.isolated_levels
  PROVE  /\ encode_pair(q, state, cfg) \in Seq(Row)
         /\ Len(encode_pair(q, state, cfg)) = Len(q.options)
         /\ \A o \in 1..Len(q.options) : \E row \in Row :
              /\ encode_pair(q, state, cfg)[o] = row
              /\ N(row.ids, <<"state", 0>>) = Least(cfg.max_len - 1, Len(state))
              /\ N(row.ids, <<"question", 0>>) = Len(q.instructions)
              /\ N(row.ids, <<"marker", o>>) = 1
              /\ N(row.ids, <<"option", o>>) >= Len(strip_level_number(q.options[o].text))
              /\ Only(row.ids, Id("letter")) = <<No(o), Letter(o)>>
PROOF
  <1>1. PICK n \in Nat : n = Len(q.options) /\ DOMAIN q.options = 1..n
    BY OptionsType
  <1>2. PICK max_len \in Nat : max_len = cfg.max_len /\ max_len >= 1
    OBVIOUS
  <1>3. PICK ctx \in Seq(Token) :
          /\ ctx = Context(state, max_len)
          /\ N(ctx, <<"state", 0>>) = Least(max_len - 1, Len(state))
          /\ \A x : x \notin {<<"frame", 0>>, <<"state", 0>>} => N(ctx, x) = 0
          /\ Only(ctx, Id("letter")) = << >>
    BY <1>2, ContextIs
  <1>4. PICK rs : rs = encode_pair(q, state, cfg)
    OBVIOUS
  <1>5. rs = [o \in 1..n |-> Slotted(build_isolated_row(ctx, q, o, cfg.label_ids))]
    BY <1>1, <1>2, <1>3, <1>4 DEF encode_pair, Context
  <1>6. ASSUME NEW o \in 1..n
        PROVE  \E row \in Row :
                 /\ rs[o] = row
                 /\ N(row.ids, <<"state", 0>>) = N(ctx, <<"state", 0>>)
                 /\ N(row.ids, <<"question", 0>>) = Len(q.instructions)
                 /\ N(row.ids, <<"marker", o>>) = 1
                 /\ N(row.ids, <<"option", o>>) >= Len(strip_level_number(q.options[o].text))
                 /\ Only(row.ids, Id("letter")) = <<No(o), Letter(o)>>
    <2>1. PICK p \in 1..Len(q.options) : p = o
      BY <1>1
    <2>2. PICK label_ids : label_ids = cfg.label_ids
      OBVIOUS
    <2>3. \E row \in Row :
            /\ Slotted(build_isolated_row(ctx, q, p, label_ids)) = row
            /\ N(row.ids, <<"state", 0>>) = N(ctx, <<"state", 0>>)
            /\ N(row.ids, <<"question", 0>>) = Len(q.instructions)
            /\ N(row.ids, <<"marker", p>>) = 1
            /\ N(row.ids, <<"option", p>>) >= Len(strip_level_number(q.options[p].text))
            /\ Only(row.ids, Id("letter")) = <<No(p), Letter(p)>>
      BY <1>3, IsolatedRow
    <2>4. rs[o] = Slotted(build_isolated_row(ctx, q, o, label_ids))
      BY <1>5, <2>2
    <2>. QED
      BY <2>1, <2>3, <2>4
  <1>7. \A o \in 1..n : rs[o] \in Row
    BY <1>6
  <1>8. rs \in [1..n -> Row]
    BY <1>5, <1>7
  <1>9. rs \in Seq(Row) /\ Len(rs) = n
    BY <1>8, FunctionIsSeq
  <1>. QED
    BY <1>1, <1>2, <1>3, <1>4, <1>6, <1>9

\* The slots refuse only a listed score of more levels than there are labels.
LEMMA SlotsFails ==
  ASSUME NEW q \in Question, NEW state \in Text, NEW cfg, cfg.max_len \in Nat, cfg.max_len >= 1,
         cfg.max_options \in Nat, cfg.label_ids \in Nat, cfg.max_options <= cfg.label_ids,
         validate_decider2b_question(q, cfg.max_options, cfg.max_levels),
         encode_pair(q, state, cfg) = << >>
  PROVE  q.kind = "score" /\ ~ cfg.isolated_levels /\ Len(q.options) > cfg.label_ids
PROOF
  <1>1. PICK n \in Nat : n = Len(q.options) /\ DOMAIN q.options = 1..n
    BY OptionsType
  <1>2. q.kind \in {"choice", "score", "noul"}
    BY DEF Question
  <1>3. q.kind = "choice" => n <= cfg.max_options
    BY <1>1 DEF validate_decider2b_question
  <1>4. q.kind = "score" => n >= 2
    BY <1>1 DEF validate_decider2b_question
  <1>5. ~ (q.kind = "score" /\ cfg.isolated_levels)
    <2>1. SUFFICES ASSUME q.kind = "score", cfg.isolated_levels PROVE FALSE
      OBVIOUS
    <2>2. /\ encode_pair(q, state, cfg) \in Seq(Row)
          /\ Len(encode_pair(q, state, cfg)) = Len(q.options)
          /\ \A o \in 1..Len(q.options) : \E row \in Row :
               /\ encode_pair(q, state, cfg)[o] = row
               /\ N(row.ids, <<"state", 0>>) = Least(cfg.max_len - 1, Len(state))
               /\ N(row.ids, <<"question", 0>>) = Len(q.instructions)
               /\ N(row.ids, <<"marker", o>>) = 1
               /\ N(row.ids, <<"option", o>>) >= Len(strip_level_number(q.options[o].text))
               /\ Only(row.ids, Id("letter")) = <<No(o), Letter(o)>>
      BY <2>1, IsolatedRows
    <2>3. Len(<< >>) = 0
      OBVIOUS
    <2>. QED
      BY <1>1, <1>4, <2>1, <2>2, <2>3
  <1>6. PICK rendered \in Seq(Seq(Kinds)) :
          rendered = render_decider_options(q) /\ Len(rendered) = IF q.kind = "noul" THEN 2 ELSE n
    BY <1>1, RenderedType
  <1>7. PICK options \in Seq(Labelled) : options = Lettered(rendered) /\ Len(options) = Len(rendered)
    BY LetteredIs
  <1>8. PICK asked \in Seq(Token) : asked = Asked(q)
    BY AskedIs
  <1>9. build_piece(asked, options, cfg.label_ids) = << >>
    <2>1. SUFFICES ASSUME build_piece(asked, options, cfg.label_ids) # << >> PROVE FALSE
      OBVIOUS
    <2>2. \E row : encode_pair(q, state, cfg) = <<row>>
      BY <1>5, <1>6, <1>7, <1>8, <2>1 DEF encode_pair, Lettered, Asked
    <2>3. \A row : <<row>> # << >>
      OBVIOUS
    <2>. QED
      BY <2>2, <2>3
  <1>10. Len(options) > 10 /\ Len(options) > cfg.label_ids
    <2>1. PICK label_ids : label_ids = cfg.label_ids
      OBVIOUS
    <2>2. build_piece(asked, options, label_ids) = << >>
      BY <1>9, <2>1
    <2>3. Len(options) > 10 /\ Len(options) > label_ids
      BY <2>2, PieceFails
    <2>. QED
      BY <2>1, <2>3
  <1>11. q.kind # "noul" /\ n > cfg.label_ids
    BY <1>6, <1>7, <1>10
  <1>12. q.kind # "choice"
    BY <1>3, <1>11
  <1>. QED
    BY <1>1, <1>2, <1>5, <1>11, <1>12

-----------------------------------------------------------------------------
(* The rows of Laya                                                        *)

\* The tokens that are no mask, and of those the ones that are not of a state.
Unmasked == {t \in Token : t.id # "mask"}
Plain == {t \in Unmasked : t.of # <<"state", 0>>}

\* A text that is scrubbed holds no mask.
LEMMA ScrubType ==
  ASSUME NEW text \in Seq(Kinds)
  PROVE  /\ scrub(text) \in Seq(Kinds) /\ scrub(text) \in Seq(Kinds \ {"mask"})
         /\ Len(scrub(text)) \in Nat
PROOF
  <1>1. scrub(text) \in Seq(Kinds) /\ scrub(text) \in Seq(Kinds \cap (Kinds \ {"mask"}))
    BY OnlyType DEF scrub
  <1>2. Kinds \cap (Kinds \ {"mask"}) = Kinds \ {"mask"}
    OBVIOUS
  <1>. QED
    BY <1>1, <1>2, LenProperties

\* The options of Laya as they are shown are texts, one per option, two for a noul.
LEMMA RenderedLaya ==
  ASSUME NEW q \in Question
  PROVE  /\ render_laya_options(q) \in Seq(Seq(Kinds))
         /\ Len(render_laya_options(q)) = IF q.kind = "noul" THEN 2 ELSE Len(q.options)
PROOF
  <1>1. PICK n \in Nat : n = Len(q.options) /\ DOMAIN q.options = 1..n
    BY OptionsType
  <1>2. \A o \in 1..n : q.options[o].text \in Seq(Kinds) /\ q.options[o].description \in Seq(Kinds)
    BY <1>1, OptionsType
  <1>3. \A s, t \in Seq(Kinds) : s \o t \in Seq(Kinds)
    BY ConcatProperties
  <1>4. <<"word">> \in Seq(Kinds) /\ <<"word", "num">> \in Seq(Kinds)
    BY DEF Kinds
  <1>5. q.true_criterion \in Seq(Kinds) /\ q.kind \in {"choice", "score", "noul"}
    BY DEF Question, Text
  <1>6. CASE q.kind = "choice"
    <2>1. render_laya_options(q) = [o \in 1..n |-> Described(q.options[o])]
      BY <1>1, <1>6 DEF render_laya_options
    <2>2. \A o \in 1..n : Described(q.options[o]) \in Seq(Kinds)
      BY <1>2, <1>3 DEF Described
    <2>3. PICK f : f = [o \in 1..n |-> Described(q.options[o])]
      OBVIOUS
    <2>4. f \in [1..n -> Seq(Kinds)]
      BY <2>2, <2>3
    <2>5. f \in Seq(Seq(Kinds)) /\ Len(f) = n
      BY <2>4, FunctionIsSeq
    <2>. QED
      BY <1>1, <1>6, <2>1, <2>3, <2>5
  <1>7. CASE q.kind = "score"
    <2>1. render_laya_options(q) = [o \in 1..n |-> <<"word", "num">> \o q.options[o].text]
      BY <1>1, <1>7 DEF render_laya_options
    <2>2. \A o \in 1..n : <<"word", "num">> \o q.options[o].text \in Seq(Kinds)
      BY <1>2, <1>3, <1>4
    <2>3. PICK f : f = [o \in 1..n |-> <<"word", "num">> \o q.options[o].text]
      OBVIOUS
    <2>4. f \in [1..n -> Seq(Kinds)]
      BY <2>2, <2>3
    <2>5. f \in Seq(Seq(Kinds)) /\ Len(f) = n
      BY <2>4, FunctionIsSeq
    <2>. QED
      BY <1>1, <1>7, <2>1, <2>3, <2>5
  <1>8. CASE q.kind = "noul"
    <2>1. render_laya_options(q) = <<Side(<<"word">>), Side(q.true_criterion)>>
      BY <1>8 DEF render_laya_options
    <2>2. Side(<<"word">>) \in Seq(Kinds) /\ Side(q.true_criterion) \in Seq(Kinds)
      BY <1>3, <1>4, <1>5 DEF Side
    <2>3. \A s, t \in Seq(Kinds) : <<s, t>> \in Seq(Seq(Kinds)) /\ Len(<<s, t>>) = 2
      OBVIOUS
    <2>. QED
      BY <1>8, <2>1, <2>2, <2>3
  <1>. QED
    BY <1>5, <1>6, <1>7, <1>8

\* The order in which a question's options are shown is one of them all.
LEMMA ShownOrderIs ==
  ASSUME NEW q \in Question, q.kind # "choice" => q.option_order = {}, validate_laya_question(q),
         NEW n \in Nat, n = Len(render_laya_options(q))
  PROVE  /\ n >= 1
         /\ ShownOrder(q, n) \in Seq(0..(n - 1)) /\ Len(ShownOrder(q, n)) = n
         /\ \A o \in 0..(n - 1) : \E s \in 1..n : ShownOrder(q, n)[s] = o
PROOF
  <1>1. n = IF q.kind = "noul" THEN 2 ELSE Len(q.options)
    BY RenderedLaya
  <1>2. n >= 1
    <2>1. q.kind # "noul" => Len(q.options) \in 1..256
      BY DEF validate_laya_question
    <2>2. CASE q.kind = "noul"
      BY <1>1, <2>2
    <2>3. CASE q.kind # "noul"
      <3>1. n \in 1..256
        BY <1>1, <2>1, <2>3
      <3>. QED
        BY <3>1
    <2>. QED
      BY <2>2, <2>3
  <1>3. CASE q.option_order = {}
    <2>1. ShownOrder(q, n) = [s \in 1..n |-> s - 1]
      BY <1>3 DEF ShownOrder
    <2>2. PICK f : f = [s \in 1..n |-> s - 1]
      OBVIOUS
    <2>3. f \in [1..n -> 0..(n - 1)]
      BY <2>2
    <2>4. f \in Seq(0..(n - 1)) /\ Len(f) = n
      BY <2>3, FunctionIsSeq
    <2>5. ASSUME NEW o \in 0..(n - 1) PROVE \E s \in 1..n : f[s] = o
      <3>1. o + 1 \in 1..n /\ f[o + 1] = o
        BY <2>2
      <3>. QED
        BY <3>1
    <2>. QED
      BY <1>2, <2>1, <2>2, <2>4, <2>5
  <1>4. CASE q.option_order # {}
    <2>1. PICK order \in q.option_order : order = ShownOrder(q, n)
      BY <1>4 DEF ShownOrder
    <2>2. q.kind = "choice"
      BY <1>4
    <2>3. Len(order) = n /\ ToSet(order) = 0..(n - 1)
      BY <1>1, <2>1, <2>2 DEF validate_laya_question
    <2>4. order \in Seq(Nat)
      BY <2>1 DEF Question
    <2>5. DOMAIN order = 1..n /\ order \in [1..n -> Nat]
      BY <2>3, <2>4, LenProperties
    <2>6. order \in [1..n -> 0..(n - 1)]
      BY <2>3, <2>5 DEF ToSet
    <2>7. order \in Seq(0..(n - 1))
      BY <2>6, FunctionIsSeq
    <2>8. \A o \in 0..(n - 1) : \E s \in 1..n : order[s] = o
      BY <2>3, <2>5 DEF ToSet
    <2>. QED
      BY <1>2, <2>1, <2>3, <2>7, <2>8
  <1>. QED
    BY <1>3, <1>4

\* What is left of an option behind its marker when n tokens are kept: the marker, and
\* as much of the text, of this length, as there is room for.
CutAt(s, o, length, n) ==
  /\ s \in Seq(Token) /\ Len(s) = 1 + length /\ length \in Nat
  /\ Take(s, n) \in Seq(Token) /\ Len(Take(s, n)) = Least(n, 1 + length)
  /\ Take(s, n)[1] = [id |-> "mask", of |-> <<"marker", o>>]
  /\ \A j \in 1..Least(n, 1 + length) : Take(s, n)[j].id = "mask" <=> j = 1
  /\ \A j \in 1..Least(n, 1 + length) : Take(s, n)[j].of # <<"state", 0>>
  /\ N(Take(s, n), <<"option", o>>) = Least(n, 1 + length) - 1

\* An option is cut behind its marker.
LEMMA CutOption ==
  ASSUME NEW o \in Int, NEW text \in Seq(Kinds \ {"mask"}), NEW n \in Nat, n >= 1,
         NEW s, s = Marker("mask", o) \o Encode(text, <<"option", o>>)
  PROVE  CutAt(s, o, Len(text), n)
PROOF
  <1>1. Kinds \ {"mask"} \subseteq Ids /\ "mask" \in Ids
    BY DEF Ids, Kinds
  <1>2. <<"option", o>> \in Origin /\ <<"marker", o>> \in Origin
    BY Origins
  <1>3. /\ Marker("mask", o) \in Seq(Token) /\ Len(Marker("mask", o)) = 1
        /\ Marker("mask", o)[1] = [id |-> "mask", of |-> <<"marker", o>>]
        /\ N(Marker("mask", o), <<"option", o>>) = 0
    <2>1. <<"option", o>> # <<"marker", o>>
      OBVIOUS
    <2>2. PICK x : x = <<"option", o>>
      OBVIOUS
    <2>3. /\ Marker("mask", o) \in Seq(Token) /\ Len(Marker("mask", o)) = 1
          /\ Marker("mask", o)[1] = [id |-> "mask", of |-> <<"marker", o>>]
          /\ N(Marker("mask", o), x) = IF x = <<"marker", o>> THEN 1 ELSE 0
      BY <1>1, MarkerType
    <2>. QED
      BY <2>1, <2>2, <2>3
  <1>4. PICK m \in Seq(Token) : m = Marker("mask", o)
    BY <1>3
  <1>5. /\ Take(text, n - 1) \in Seq(Kinds \ {"mask"})
        /\ Len(Take(text, n - 1)) = Least(n - 1, Len(text))
    <2>1. PICK c \in Nat : c = n - 1
      OBVIOUS
    <2>2. PICK X : X = Kinds \ {"mask"}
      OBVIOUS
    <2>3. text \in Seq(X)
      BY <2>2
    <2>4. /\ Take(text, c) \in Seq(X) /\ Len(Take(text, c)) = Least(c, Len(text))
          /\ \A j \in 1..Least(c, Len(text)) : Take(text, c)[j] = text[j]
          /\ Len(text) <= c => Take(text, c) = text
      BY <2>3, TakeType
    <2>. QED
      BY <2>1, <2>2, <2>4
  <1>6. Len(text) \in Nat
    BY LenProperties
  <1>7. PICK rest \in Seq(Kinds \ {"mask"}) : rest = Take(text, n - 1)
    BY <1>5
  <1>8. PICK e \in Seq(Token) : /\ e = Encode(text, <<"option", o>>) /\ Len(e) = Len(text)
    BY <1>1, <1>2, EncodeType
  <1>9. Take(e, n - 1) = Encode(rest, <<"option", o>>)
    <2>1. PICK c \in Nat : c = n - 1
      OBVIOUS
    <2>2. Take(Encode(text, <<"option", o>>), c) = Encode(Take(text, c), <<"option", o>>)
      BY <1>1, <1>2, TakeEncode
    <2>. QED
      BY <1>7, <1>8, <2>1, <2>2
  <1>10. /\ Encode(rest, <<"option", o>>) \in Seq(Token)
         /\ Len(Encode(rest, <<"option", o>>)) = Len(rest)
         /\ Encode(rest, <<"option", o>>) \in Seq([id: Kinds \ {"mask"}, of: {<<"option", o>>}])
         /\ \A j \in 1..Len(rest) :
              Encode(rest, <<"option", o>>)[j] = [id |-> rest[j], of |-> <<"option", o>>]
    <2>1. PICK X : X = Kinds \ {"mask"}
      OBVIOUS
    <2>2. PICK of \in Origin : of = <<"option", o>>
      BY <1>2
    <2>3. X \subseteq Ids
      BY <1>1, <2>1
    <2>4. PICK t \in Seq(X) : t = rest
      BY <2>1
    <2>5. /\ Encode(t, of) \in Seq(Token) /\ Len(Encode(t, of)) = Len(t)
          /\ Encode(t, of) \in Seq([id: X, of: {of}])
          /\ \A j \in 1..Len(t) : Encode(t, of)[j] = [id |-> t[j], of |-> of]
      BY <2>3, EncodeType, Zenon
    <2>. QED
      BY <2>1, <2>2, <2>4, <2>5
  <1>11. N(Encode(rest, <<"option", o>>), <<"option", o>>) = Len(rest)
    BY <1>1, <1>2, CountEncode
  <1>12. PICK r \in Seq(Token) : r = Encode(rest, <<"option", o>>)
    BY <1>10
  <1>13. s \in Seq(Token) /\ Len(s) = 1 + Len(text)
    <2>1. /\ m \o e \in Seq(Token) /\ Len(m \o e) = Len(m) + Len(e)
          /\ \A x : N(m, x) \in Nat /\ N(e, x) \in Nat /\ N(m \o e, x) = N(m, x) + N(e, x)
          /\ \A K : Only(m \o e, K) = Only(m, K) \o Only(e, K)
      BY Concat2
    <2>. QED
      BY <1>3, <1>4, <1>8, <2>1
  <1>14. Take(m \o e, n) = m \o Take(e, n - 1)
    BY <1>3, <1>4, TakeConcat
  <1>15. Take(s, n) = m \o r
    BY <1>4, <1>8, <1>9, <1>12, <1>14
  <1>16. /\ m \o r \in Seq(Token) /\ Len(m \o r) = Len(m) + Len(r)
         /\ \A x : N(m, x) \in Nat /\ N(r, x) \in Nat /\ N(m \o r, x) = N(m, x) + N(r, x)
         /\ \A K : Only(m \o r, K) = Only(m, K) \o Only(r, K)
    BY Concat2
  <1>17. Len(r) = Least(n - 1, Len(text)) /\ Len(m) = 1
    BY <1>3, <1>4, <1>5, <1>7, <1>10, <1>12
  <1>18. Least(n - 1, Len(text)) + 1 = Least(n, 1 + Len(text)) /\ Least(n - 1, Len(text)) \in Nat
    BY <1>6 DEF Least
  <1>19. N(m \o r, <<"option", o>>) = Least(n, 1 + Len(text)) - 1
    <2>1. PICK x : x = <<"option", o>>
      OBVIOUS
    <2>2. N(m \o r, x) = N(m, x) + N(r, x)
      BY <1>16
    <2>3. N(m, x) = 0 /\ N(r, x) = Len(r)
      BY <1>3, <1>4, <1>10, <1>11, <1>12, <2>1
    <2>4. PICK a \in Nat : a = Least(n - 1, Len(text))
      BY <1>18
    <2>5. N(m \o r, x) = a
      BY <1>17, <2>2, <2>3, <2>4
    <2>. QED
      BY <1>18, <2>1, <2>4, <2>5
  <1>20. (m \o r)[1] = m[1] /\ \A j \in 2..Len(m \o r) : (m \o r)[j] = r[j - 1] /\ j - 1 \in 1..Len(r)
    <2>1. \A j \in 1..(Len(m) + Len(r)) : (m \o r)[j] = IF j <= Len(m) THEN m[j] ELSE r[j - Len(m)]
      BY <1>3, ConcatProperties
    <2>2. PICK l \in Nat : l = Len(r)
      BY LenProperties
    <2>3. Len(m \o r) = 1 + l /\ Len(m) = 1
      BY <1>16, <1>17, <2>2
    <2>4. ASSUME NEW j \in 2..(1 + l) PROVE (m \o r)[j] = r[j - 1] /\ j - 1 \in 1..l
      BY <2>1, <2>2, <2>3
    <2>5. (m \o r)[1] = m[1]
      BY <2>1, <2>2, <2>3
    <2>. QED
      BY <2>2, <2>3, <2>4, <2>5
  <1>21. \A j \in 1..Len(rest) : rest[j] \in Kinds \ {"mask"}
    BY ElementOfSeq
  <1>22. Len(r) = Len(rest) /\ \A j \in 1..Len(rest) : r[j].id # "mask" /\ r[j].of # <<"state", 0>>
    <2>1. \A j \in 1..Len(rest) : r[j] = [id |-> rest[j], of |-> <<"option", o>>]
      BY <1>10, <1>12
    <2>2. <<"option", o>> # <<"state", 0>>
      OBVIOUS
    <2>3. ASSUME NEW j \in 1..Len(rest) PROVE r[j].id # "mask" /\ r[j].of # <<"state", 0>>
      <3>1. r[j] = [id |-> rest[j], of |-> <<"option", o>>] /\ rest[j] # "mask"
        BY <1>21, <2>1
      <3>2. r[j].id = rest[j] /\ r[j].of = <<"option", o>>
        BY <3>1
      <3>. QED
        BY <2>2, <3>1, <3>2
    <2>. QED
      BY <1>10, <1>12, <2>3
  <1>23. /\ \A j \in 1..Len(m \o r) : (m \o r)[j].id = "mask" <=> j = 1
         /\ \A j \in 1..Len(m \o r) : (m \o r)[j].of # <<"state", 0>>
    <2>1. SUFFICES ASSUME NEW j \in 1..Len(m \o r)
          PROVE ((m \o r)[j].id = "mask" <=> j = 1) /\ (m \o r)[j].of # <<"state", 0>>
      OBVIOUS
    <2>2. CASE j = 1
      BY <1>3, <1>4, <1>20, <2>2
    <2>3. CASE j # 1
      <3>1. j \in 2..Len(m \o r)
        BY <1>16, <1>17, <1>18, <2>1, <2>3
      <3>. QED
        BY <1>20, <1>22, <2>3, <3>1
    <2>. QED
      BY <2>2, <2>3
  <1>24. Len(m \o r) = Least(n, 1 + Len(text))
    BY <1>16, <1>17, <1>18
  <1>. QED
    BY <1>3, <1>4, <1>6, <1>13, <1>15, <1>16, <1>19, <1>20, <1>23, <1>24 DEF CutAt

\* An encoded text without a mask holds none, and one that is no state's nothing of a
\* state.
LEMMA PlainEncoded ==
  ASSUME NEW X, X \subseteq Ids, "mask" \notin X, NEW text \in Seq(X), NEW of \in Origin
  PROVE  /\ Encode(text, of) \in Seq(Unmasked)
         /\ of # <<"state", 0>> => Encode(text, of) \in Seq(Plain)
PROOF
  <1>1. /\ Encode(text, of) \in Seq(Token) /\ Len(Encode(text, of)) = Len(text)
        /\ Encode(text, of) \in Seq([id: X, of: {of}])
        /\ \A j \in 1..Len(text) : Encode(text, of)[j] = [id |-> text[j], of |-> of]
    BY EncodeType, Zenon
  <1>2. [id: X, of: {of}] \subseteq Unmasked
    BY DEF Unmasked, Token
  <1>3. of # <<"state", 0>> => [id: X, of: {of}] \subseteq Plain
    BY <1>2 DEF Plain
  <1>4. Encode(text, of) \in Seq(Unmasked)
    BY <1>1, <1>2, SeqMonotonic
  <1>5. of # <<"state", 0>> => Encode(text, of) \in Seq(Plain)
    BY <1>1, <1>3, SeqMonotonic
  <1>. QED
    BY <1>4, <1>5

\* The special tokens are no masks.
LEMMA SpecialsPlain ==
  /\ CLS \in Seq(Plain) /\ SEP \in Seq(Plain)
  /\ Seq(Plain) \subseteq Seq(Unmasked) /\ Seq(Unmasked) \subseteq Seq(Token)
PROOF
  <1>1. ASSUME NEW id \in {"cls", "sep"} PROVE Frame(<<id>>) \in Seq(Plain)
    <2>1. {id} \subseteq Ids /\ "mask" \notin {id}
      BY DEF Ids
    <2>2. PICK text \in Seq({id}) : text = <<id>>
      <3>1. <<id>> \in Seq({id})
        OBVIOUS
      <3>. QED
        BY <3>1
    <2>3. PICK of \in Origin : of = <<"frame", 0>>
      BY Origins
    <2>4. of # <<"state", 0>>
      BY <2>3
    <2>5. /\ Encode(text, of) \in Seq(Unmasked)
          /\ of # <<"state", 0>> => Encode(text, of) \in Seq(Plain)
      BY <2>1, PlainEncoded
    <2>. QED
      BY <2>2, <2>3, <2>4, <2>5 DEF Frame
  <1>2. Plain \subseteq Unmasked /\ Unmasked \subseteq Token
    BY DEF Plain, Unmasked
  <1>3. Seq(Plain) \subseteq Seq(Unmasked) /\ Seq(Unmasked) \subseteq Seq(Token)
    BY <1>2, SeqMonotonic
  <1>. QED
    BY <1>1, <1>3 DEF CLS, SEP

\* Whatever is cut from n options of these lengths, each keeps its marker and three
\* tokens, and the options shown with what is left for the instructions take no more
\* than the head has, or four tokens each and eight.
Budgeted(cut, lens, n, h) ==
  /\ cut.kept \in Seq(Nat) /\ Len(cut.kept) = n /\ cut.budget \in Nat
  /\ \A s \in 1..n : 1 <= cut.kept[s] /\ cut.kept[s] <= lens[s]
  /\ \A s \in 1..n : Least(4, lens[s]) <= cut.kept[s]
  /\ \A s \in 0..n : Most(8, cut.budget) + Upto(cut.kept, s) <= Most(h, 4 * n + 8)

\* The options are cut to the budget.
LEMMA BudgetIs ==
  ASSUME NEW lens \in Seq(Nat), NEW h \in Nat, Len(lens) >= 1,
         \A s \in 1..Len(lens) : lens[s] >= 1
  PROVE  Budgeted(truncate_options_to_budget(lens, h), lens, Len(lens), h)
PROOF
  <1>. SUFFICES ASSUME NEW n \in Nat, n = Len(lens), n >= 1, \A s \in 1..n : lens[s] >= 1,
                       NEW cut, cut = truncate_options_to_budget(lens, h)
       PROVE  Budgeted(cut, lens, n, h)
    BY LenProperties
  <1>1. DOMAIN lens = 1..n /\ \A s \in 1..n : lens[s] \in Nat
    BY LenProperties, ElementOfSeq
  <1>2. PICK room \in Nat : room = Less(h, 16) \div Most(1, n)
    BY DEF Less, Most
  <1>3. n * room <= Less(h, 16)
    <2>1. PICK a \in Nat : a = Less(h, 16)
      BY DEF Less
    <2>2. room = a \div n
      BY <1>2, <2>1 DEF Most
    <2>3. n * (a \div n) <= a
      OBVIOUS
    <2>. QED
      BY <2>1, <2>2, <2>3
  <1>4. PICK per \in Nat : per = Most(4, room)
    BY DEF Most
  <1>5. PICK capped : capped = [s \in 1..n |-> Least(lens[s], per)]
    OBVIOUS
  <1>6. capped \in Seq(Nat) /\ Len(capped) = n
    <2>1. capped \in [1..n -> Nat]
      BY <1>1, <1>5 DEF Least
    <2>. QED
      BY <2>1, FunctionIsSeq
  <1>7. \A s \in 1..n : /\ capped[s] <= per /\ capped[s] <= lens[s] /\ 1 <= capped[s]
                        /\ Least(4, lens[s]) <= capped[s]
    BY <1>1, <1>4, <1>5 DEF Least, Most
  <1>8. Total(capped) <= n * per
    BY <1>6, <1>7, UptoBounded
  <1>9. Total(lens) \in Nat /\ Total(capped) \in Nat
    BY <1>6, TotalCovers
  <1>10. /\ Upto(lens, n) = Total(lens) /\ Upto(capped, n) = Total(capped)
         /\ \A s \in 0..n : /\ Upto(lens, s) \in Nat /\ Upto(lens, s) <= Upto(lens, n)
                            /\ Upto(capped, s) \in Nat /\ Upto(capped, s) <= Upto(capped, n)
    BY <1>6, UptoEnds, UptoNat, UptoGrows
  <1>11. PICK t \in Nat : t = Total(lens)
    BY <1>9
  <1>12. PICK c \in Nat : c = Total(capped)
    BY <1>9
  <1>13. cut = IF Less(h, t) >= 16 THEN [kept |-> lens, budget |-> Less(h, t)]
               ELSE [kept |-> capped, budget |-> Less(h, c)]
    BY <1>1, <1>2, <1>4, <1>5, <1>11, <1>12 DEF truncate_options_to_budget
  <1>14. CASE Less(h, t) >= 16
    <2>1. cut.kept = lens /\ cut.budget = Less(h, t)
      BY <1>13, <1>14
    <2>2. Less(h, t) \in Nat /\ Most(8, Less(h, t)) + t <= h
      BY <1>14 DEF Less, Most
    <2>3. \A s \in 1..n : Least(4, lens[s]) <= lens[s]
      BY <1>1 DEF Least
    <2>4. h <= Most(h, 4 * n + 8) /\ Most(h, 4 * n + 8) \in Nat /\ Most(8, Less(h, t)) \in Nat
      BY <2>2 DEF Most
    <2>5. ASSUME NEW s \in 0..n PROVE Most(8, Less(h, t)) + Upto(lens, s) <= Most(h, 4 * n + 8)
      <3>1. PICK u \in Nat : u = Upto(lens, s) /\ u <= t
        BY <1>10, <1>11
      <3>. QED
        BY <2>2, <2>4, <3>1
    <2>. QED
      BY <1>1, <2>1, <2>2, <2>3, <2>5 DEF Budgeted
  <1>15. CASE ~(Less(h, t) >= 16)
    <2>1. cut.kept = capped /\ cut.budget = Less(h, c)
      BY <1>13, <1>15
    <2>2. Less(h, c) \in Nat /\ Most(8, Less(h, c)) + c <= Most(h, 4 * n + 8)
      <3>1. Less(h, c) \in Nat
        BY DEF Less
      <3>2. CASE per = 4
        <4>1. c <= 4 * n
          BY <1>8, <1>12, <3>2
        <4>. QED
          BY <3>1, <4>1 DEF Less, Most
      <3>3. CASE per # 4
        <4>1. per = room /\ room >= 5
          BY <1>4, <3>3 DEF Most
        <4>2. c <= Less(h, 16)
          <5>1. PICK x \in Nat : x = n * room
            OBVIOUS
          <5>2. c <= x /\ x <= Less(h, 16)
            BY <1>3, <1>8, <1>12, <4>1, <5>1
          <5>. QED
            BY <5>2 DEF Less
        <4>3. Less(h, 16) >= 5
          <5>1. n * room >= 5
            BY <4>1
          <5>. QED
            BY <1>3, <5>1 DEF Less
        <4>. QED
          BY <3>1, <4>2, <4>3 DEF Less, Most
      <3>. QED
        BY <3>2, <3>3, <3>1
    <2>3. Most(h, 4 * n + 8) \in Nat /\ Most(8, Less(h, c)) \in Nat
      BY <2>2 DEF Most
    <2>4. ASSUME NEW s \in 0..n PROVE Most(8, Less(h, c)) + Upto(capped, s) <= Most(h, 4 * n + 8)
      <3>1. PICK u \in Nat : u = Upto(capped, s) /\ u <= c
        BY <1>10, <1>12
      <3>. QED
        BY <2>2, <2>3, <3>1
    <2>. QED
      BY <1>6, <1>7, <2>1, <2>2, <2>4 DEF Budgeted
  <1>. QED
    BY <1>14, <1>15

\* The prefix and the instructions, cut to m tokens: at least what eight tokens leave
\* of the instructions is shown.
LEMMA BodyIs ==
  ASSUME NEW instructions \in Seq(Kinds), NEW m \in Nat, m >= 8, NEW t \in Nat, NEW body,
         body = Take(Frame([j \in 1..t |-> "word"])
                       \o Encode(scrub(instructions), <<"question", 0>>), m)
  PROVE  /\ body \in Seq(Plain) /\ Len(body) \in Nat /\ Len(body) <= m
         /\ N(body, <<"question", 0>>) \in Nat
         /\ N(body, <<"question", 0>>) >= Least(Less(8, t), Len(scrub(instructions)))
PROOF
  <1>1. PICK X : X = Kinds \ {"mask"}
    OBVIOUS
  <1>2. X \subseteq Ids /\ "mask" \notin X /\ "mask" \notin {"word"} /\ {"word"} \subseteq Ids
    BY <1>1 DEF Ids, Kinds
  <1>3. PICK text \in Seq(X) : text = scrub(instructions) /\ Len(text) \in Nat
    BY <1>1, ScrubType
  <1>4. PICK of \in Origin : of = <<"question", 0>>
    BY Origins
  <1>5. PICK frame \in Origin : frame = <<"frame", 0>>
    BY Origins
  <1>6. of # <<"state", 0>> /\ frame # <<"state", 0>> /\ of # frame
    BY <1>4, <1>5
  <1>7. PICK two \in Seq({"word"}) : two = [j \in 1..t |-> "word"] /\ Len(two) = t
    <2>1. PICK prefix : prefix = [j \in 1..t |-> "word"]
      OBVIOUS
    <2>2. prefix \in [1..t -> {"word"}]
      BY <2>1
    <2>3. prefix \in Seq({"word"}) /\ Len(prefix) = t
      BY <2>2, FunctionIsSeq
    <2>. QED
      BY <2>1, <2>3
  <1>8. Encode(two, frame) \in Seq(Plain)
    <2>1. /\ Encode(two, frame) \in Seq(Unmasked)
          /\ frame # <<"state", 0>> => Encode(two, frame) \in Seq(Plain)
      BY <1>2, PlainEncoded
    <2>. QED
      BY <1>6, <2>1
  <1>9. PICK f \in Seq(Plain) : f = Encode(two, frame)
    BY <1>8
  <1>10. Len(f) = t /\ N(f, of) = 0
    <2>1. /\ Encode(two, frame) \in Seq(Token) /\ Len(Encode(two, frame)) = Len(two)
          /\ Encode(two, frame) \in Seq([id: {"word"}, of: {frame}])
          /\ \A j \in 1..Len(two) : Encode(two, frame)[j] = [id |-> two[j], of |-> frame]
      <3>1. {"word"} \subseteq Ids
        BY <1>2
      <3>. QED
        BY <3>1, EncodeType, ZenonT(30)
    <2>2. N(Encode(two, frame), of) = IF of = frame THEN Len(two) ELSE 0
      BY <1>2, CountEncode, Zenon
    <2>. QED
      BY <1>6, <1>7, <1>9, <2>1, <2>2
  <1>11. PICK whole \in Seq(Plain) : whole = Encode(text, of)
    <2>1. /\ Encode(text, of) \in Seq(Unmasked)
          /\ of # <<"state", 0>> => Encode(text, of) \in Seq(Plain)
      BY <1>2, PlainEncoded
    <2>. QED
      BY <1>6, <2>1
  <1>12. body = Take(f \o whole, m)
    BY <1>3, <1>4, <1>5, <1>7, <1>9, <1>11 DEF Frame
  <1>13. PICK both \in Seq(Plain) : both = f \o whole
    BY ConcatProperties
  <1>14. body \in Seq(Plain) /\ Len(body) \in Nat /\ Len(body) <= m
    <2>1. Take(both, m) \in Seq(Plain) /\ Len(Take(both, m)) = Least(m, Len(both))
      BY TakeType
    <2>2. PICK l \in Nat : l = Len(both)
      BY LenProperties
    <2>3. Least(m, l) \in Nat /\ Least(m, l) <= m
      BY DEF Least
    <2>. QED
      BY <1>12, <1>13, <2>1, <2>2, <2>3
  <1>15. Seq(Plain) \subseteq Seq(Token)
    BY SpecialsPlain
  <1>16. N(body, of) \in Nat
    <2>1. body \in Seq(Token)
      BY <1>14, <1>15
    <2>. QED
      BY <2>1, OnlyType, LenProperties DEF N
  <1>17. PICK l \in Nat : l = Len(text)
    BY <1>3
  <1>18. CASE t <= 8
    <2>1. PICK c \in Nat : c = m - t /\ c >= 8 - t /\ 8 - t \in Nat
      BY <1>18
    <2>2. Take(Encode(text, of), c) = Encode(Take(text, c), of)
      BY <1>2, TakeEncode, Zenon
    <2>3. PICK cut \in Seq(X) : cut = Take(text, c) /\ Len(cut) = Least(c, l)
      <3>1. Take(text, c) \in Seq(X) /\ Len(Take(text, c)) = Least(c, Len(text))
        BY TakeType
      <3>. QED
        BY <1>17, <3>1
    <2>4. PICK e \in Seq(Plain) : e = Encode(cut, of)
      <3>1. /\ Encode(cut, of) \in Seq(Unmasked)
            /\ of # <<"state", 0>> => Encode(cut, of) \in Seq(Plain)
        BY <1>2, PlainEncoded
      <3>. QED
        BY <1>6, <3>1
    <2>5. N(e, of) = Len(cut)
      <3>1. N(Encode(cut, of), of) = IF of = of THEN Len(cut) ELSE 0
        BY <1>2, CountEncode, Zenon
      <3>. QED
        BY <2>4, <3>1
    <2>6. body = f \o e
      <3>1. Len(f) <= m
        BY <1>10, <1>18
      <3>2. m - Len(f) \in Nat /\ Take(f \o whole, m) = f \o Take(whole, m - Len(f))
        BY <3>1, TakeConcat
      <3>. QED
        BY <1>10, <1>11, <1>12, <2>1, <2>2, <2>3, <2>4, <3>2
    <2>7. N(f \o e, of) = N(f, of) + N(e, of)
      <3>1. f \in Seq(Token) /\ e \in Seq(Token)
        BY <1>15
      <3>2. /\ N(f, of) \in Nat /\ N(e, of) \in Nat
            /\ f \o e \in Seq(Token) /\ N(f \o e, of) = N(f, of) + N(e, of)
        BY <3>1, CountConcat
      <3>. QED
        BY <3>2
    <2>8. PICK k \in Nat : k = Least(c, l)
      BY DEF Least
    <2>9. N(body, of) = k
      <3>1. N(f, of) = 0 /\ N(e, of) = k
        BY <1>10, <2>3, <2>5, <2>8
      <3>2. N(f \o e, of) = k
        BY <2>7, <3>1
      <3>. QED
        BY <2>6, <3>2
    <2>10. k >= Least(Less(8, t), l)
      BY <1>18, <2>1, <2>8 DEF Least, Less
    <2>. QED
      BY <1>3, <1>4, <1>14, <1>16, <1>17, <2>9, <2>10
  <1>19. CASE t > 8
    <2>1. Least(Less(8, t), l) = 0
      BY <1>19 DEF Least, Less
    <2>2. PICK k \in Nat : k = N(body, of)
      BY <1>16
    <2>3. k >= Least(Less(8, t), l)
      BY <2>1
    <2>. QED
      BY <1>3, <1>4, <1>14, <1>16, <1>17, <2>2, <2>3
  <1>. QED
    BY <1>18, <1>19

\* What stands ahead of the options: the instructions, of which some are shown, and no
\* mask.
LEMMA AheadIs ==
  ASSUME NEW instructions \in Seq(Kinds), NEW m \in Nat, m >= 8, NEW t \in Nat, NEW ahead,
         ahead = CLS \o Take(Frame([j \in 1..t |-> "word"])
                               \o Encode(scrub(instructions), <<"question", 0>>), m) \o SEP
  PROVE  /\ ahead \in Seq(Plain) /\ Len(ahead) \in Nat /\ Len(ahead) <= m + 2
         /\ N(ahead, <<"question", 0>>) >= Least(Less(8, t), Len(scrub(instructions)))
PROOF
  <1>1. PICK mid : mid = Take(Frame([j \in 1..t |-> "word"])
                                \o Encode(scrub(instructions), <<"question", 0>>), m)
    OBVIOUS
  <1>2. /\ mid \in Seq(Plain) /\ Len(mid) \in Nat /\ Len(mid) <= m
        /\ N(mid, <<"question", 0>>) \in Nat
        /\ N(mid, <<"question", 0>>) >= Least(Less(8, t), Len(scrub(instructions)))
    BY <1>1, BodyIs
  <1>3. PICK of : of = <<"question", 0>>
    OBVIOUS
  <1>4. /\ CLS \in Seq(Plain) /\ SEP \in Seq(Plain)
        /\ Len(CLS) = 1 /\ Len(SEP) = 1 /\ N(CLS, of) = 0 /\ N(SEP, of) = 0
    <2>1. /\ CLS \in Seq(Token) /\ Len(CLS) = 1 /\ SEP \in Seq(Token) /\ Len(SEP) = 1
          /\ \A x : x # <<"frame", 0>> => N(CLS, x) = 0 /\ N(SEP, x) = 0
          /\ \A x \in Kinds : Only(CLS, Id(x)) = << >> /\ Only(SEP, Id(x)) = << >>
      BY Specials
    <2>2. of # <<"frame", 0>>
      BY <1>3
    <2>. QED
      BY <2>1, <2>2, SpecialsPlain
  <1>5. PICK head \in Seq(Plain), last \in Seq(Plain) : head = CLS /\ last = SEP
    BY <1>4
  <1>6. ahead = head \o mid \o last
    BY <1>1, <1>5
  <1>7. /\ head \o mid \o last \in Seq(Plain)
        /\ Len(head \o mid \o last) = Len(head) + Len(mid) + Len(last)
    <2>1. head \o mid \in Seq(Plain) /\ Len(head \o mid) = Len(head) + Len(mid)
      BY <1>2, ConcatProperties
    <2>. QED
      BY <2>1, ConcatProperties
  <1>8. N(head \o mid \o last, of) = N(head, of) + N(mid, of) + N(last, of)
    <2>1. head \in Seq(Token) /\ mid \in Seq(Token) /\ last \in Seq(Token)
      BY <1>2, SpecialsPlain
    <2>2. /\ N(head, of) \in Nat /\ N(mid, of) \in Nat /\ N(last, of) \in Nat
          /\ N(head \o mid \o last, of) = N(head, of) + N(mid, of) + N(last, of)
      BY <2>1, Count3
    <2>. QED
      BY <2>2
  <1>9. N(ahead, of) = N(mid, of)
    <2>1. PICK k \in Nat : k = N(mid, of)
      BY <1>2, <1>3
    <2>2. N(head, of) = 0 /\ N(last, of) = 0
      BY <1>4, <1>5
    <2>3. N(head \o mid \o last, of) = k
      BY <1>8, <2>1, <2>2
    <2>. QED
      BY <1>6, <2>1, <2>3
  <1>10. Len(ahead) \in Nat /\ Len(ahead) <= m + 2
    <2>1. PICK l \in Nat : l = Len(mid) /\ l <= m
      BY <1>2
    <2>2. Len(ahead) = 1 + l + 1
      BY <1>4, <1>5, <1>6, <1>7, <2>1
    <2>. QED
      BY <2>1, <2>2
  <1>. QED
    BY <1>2, <1>3, <1>6, <1>7, <1>9, <1>10

\* What stands where in a concatenation of two.
LEMMA ConcatPlaces ==
  ASSUME NEW s \in Seq(Token), NEW t \in Seq(Token),
         NEW a \in Nat, a = Len(s), NEW b \in Nat, b = Len(t)
  PROVE  /\ s \o t \in Seq(Token) /\ Len(s \o t) = a + b
         /\ \A p \in 1..a : (s \o t)[p] = s[p]
         /\ \A p \in 1..b : (s \o t)[a + p] = t[p]
PROOF
  <1>1. s \o t \in Seq(Token) /\ Len(s \o t) = a + b
    BY ConcatProperties
  <1>2. \A p \in 1..a : (s \o t)[p] = s[p]
    OBVIOUS
  <1>3. \A p \in 1..b : (s \o t)[a + p] = t[p]
    OBVIOUS
  <1>. QED
    BY <1>1, <1>2, <1>3

\* r is s, t and u, of these lengths, one behind the other.
Stand(r, s, t, u, a, b, c) ==
  /\ r \in Seq(Token) /\ Len(r) = a + b + c
  /\ \A p \in 1..a : r[p] = s[p]
  /\ \A p \in 1..b : r[a + p] = t[p]
  /\ \A p \in 1..c : r[a + b + p] = u[p]

\* What stands where in a concatenation of three.
LEMMA RowPlaces ==
  \A s, t, u \in Seq(Token) : \A a, b, c \in Nat :
    a = Len(s) /\ b = Len(t) /\ c = Len(u) => Stand(s \o t \o u, s, t, u, a, b, c)
PROOF
  <1>. SUFFICES ASSUME NEW s \in Seq(Token), NEW t \in Seq(Token), NEW u \in Seq(Token),
                       NEW r, r = s \o t \o u,
                       NEW a \in Nat, a = Len(s), NEW b \in Nat, b = Len(t),
                       NEW c \in Nat, c = Len(u)
       PROVE  /\ r \in Seq(Token) /\ Len(r) = a + b + c
              /\ \A p \in 1..a : r[p] = s[p]
              /\ \A p \in 1..b : r[a + p] = t[p]
              /\ \A p \in 1..c : r[a + b + p] = u[p]
    BY DEF Stand
  <1>1. /\ s \o t \in Seq(Token) /\ Len(s \o t) = a + b
        /\ \A p \in 1..a : (s \o t)[p] = s[p]
        /\ \A p \in 1..b : (s \o t)[a + p] = t[p]
    BY ConcatPlaces
  <1>2. PICK g \in Seq(Token) : g = s \o t
    BY <1>1
  <1>3. PICK d \in Nat : d = a + b
    OBVIOUS
  <1>4. d = Len(g)
    BY <1>1, <1>2, <1>3
  <1>5. /\ g \o u \in Seq(Token) /\ Len(g \o u) = d + c
        /\ \A p \in 1..d : (g \o u)[p] = g[p]
        /\ \A p \in 1..c : (g \o u)[d + p] = u[p]
    BY <1>4, ConcatPlaces
  <1>6. \A p \in 1..a : p \in 1..d
    BY <1>3
  <1>7. \A p \in 1..b : a + p \in 1..d
    BY <1>3
  <1>. QED
    BY <1>1, <1>2, <1>3, <1>5, <1>6, <1>7

\* The place of a piece in a row that stands behind others.
Places(ahead, pieces) ==
  [k \in 1..Len(pieces) |-> Len(ahead) + Upto(Lens(pieces), k - 1) + 1]

\* Where the pieces and what is ahead of them stand in such a row, and its masks.
Placed(row, ahead, pieces, markers, n) ==
  /\ row \in Seq(Token) /\ markers \in Seq(Nat) /\ Len(markers) = n
  /\ \A p \in 1..Len(ahead) : row[p] = ahead[p]
  /\ \A k \in 1..n : markers[k] \in 1..Len(row) /\ Len(ahead) < markers[k]
  /\ \A k \in 1..n : \A j \in 1..Len(pieces[k]) : row[markers[k] - 1 + j] = pieces[k][j]
  /\ \A k \in 1..(n - 1) : markers[k] + Len(pieces[k]) = markers[k + 1]
  /\ \A p \in 1..Len(row) : row[p].id = "mask" <=> \E k \in 1..n : p = markers[k]

\* Pieces that begin with a mask and hold no other stand in a row without masks: its
\* masks are where the pieces begin.
LEMMA MasksPlaced ==
  ASSUME NEW ahead \in Seq(Unmasked), NEW rest \in Seq(Unmasked),
         NEW pieces \in Seq(Seq(Token)), NEW n \in Nat, n = Len(pieces),
         \A k \in 1..n : /\ Len(pieces[k]) >= 1
                         /\ \A j \in 1..Len(pieces[k]) : pieces[k][j].id = "mask" <=> j = 1,
         NEW markers, markers = Places(ahead, pieces),
         NEW row, row = ahead \o FlattenSeq(pieces) \o rest
  PROVE  Placed(row, ahead, pieces, markers, n)
PROOF
  <1>1. PICK flat \in Seq(Token) : flat = FlattenSeq(pieces) /\ Len(flat) = Total(Lens(pieces))
    BY FlattenLength
  <1>2. PICK lens \in Seq(Nat) : lens = Lens(pieces) /\ Len(lens) = n
    BY LensType
  <1>3. \A k \in 1..n : lens[k] = Len(pieces[k])
    BY <1>2 DEF Lens
  <1>4. PICK a \in Nat : a = Len(ahead)
    BY LenProperties
  <1>5. PICK b \in Nat : b = Len(rest)
    BY LenProperties
  <1>6. PICK f \in Nat : f = Len(flat) /\ f = Total(lens)
    BY <1>1, <1>2, LenProperties
  <1>7. ahead \in Seq(Token) /\ rest \in Seq(Token)
    BY SpecialsPlain
  <1>8. /\ row \in Seq(Token) /\ Len(row) = a + f + b
        /\ \A p \in 1..a : row[p] = ahead[p]
        /\ \A p \in 1..f : row[a + p] = flat[p]
        /\ \A p \in 1..b : row[a + f + p] = rest[p]
    <2>1. PICK s \in Seq(Token) : s = ahead
      BY <1>7
    <2>2. PICK t \in Seq(Token) : t = rest
      BY <1>7
    <2>3. a = Len(s) /\ f = Len(flat) /\ b = Len(t)
      BY <1>4, <1>5, <1>6, <2>1, <2>2
    <2>4. row = s \o flat \o t
      BY <1>1, <2>1, <2>2
    <2>5. /\ row \in Seq(Token) /\ Len(row) = a + f + b
          /\ \A p \in 1..a : row[p] = s[p]
          /\ \A p \in 1..f : row[a + p] = flat[p]
          /\ \A p \in 1..b : row[a + f + p] = t[p]
      <3>1. Stand(row, s, flat, t, a, f, b)
        BY <2>3, <2>4, RowPlaces
      <3>. QED
        BY <3>1 DEF Stand
    <2>. QED
      BY <2>1, <2>2, <2>5
  <1>9. /\ \A p \in 1..a : row[p] = ahead[p]
        /\ \A p \in 1..f : row[a + p] = flat[p]
        /\ \A p \in 1..b : row[a + f + p] = rest[p]
    BY <1>8
  <1>10. \A k \in 1..n : /\ Upto(lens, k - 1) \in Nat /\ Upto(lens, k) = Upto(lens, k - 1) + lens[k]
                         /\ Upto(lens, k) <= f
    <2>1. Upto(lens, n) = f
      BY <1>2, <1>6, UptoEnds
    <2>2. SUFFICES ASSUME NEW k \in 1..n
          PROVE /\ Upto(lens, k - 1) \in Nat /\ Upto(lens, k) = Upto(lens, k - 1) + lens[k]
                /\ Upto(lens, k) <= f
      OBVIOUS
    <2>3. /\ k - 1 \in 0..Len(lens) /\ k \in 0..Len(lens) /\ n \in k..Len(lens)
          /\ k \in 1..Len(lens)
      BY <1>2
    <2>4. Upto(lens, k - 1) \in Nat
      BY <2>3, UptoNat
    <2>5. Upto(lens, k) = Upto(lens, k - 1) + lens[k]
      BY <2>3, UptoStep
    <2>6. Upto(lens, k) <= Upto(lens, n)
      BY <2>3, UptoGrows
    <2>. QED
      BY <2>1, <2>4, <2>5, <2>6
  <1>11. \A k \in 1..n : \A j \in 1..lens[k] :
           /\ flat[Upto(lens, k - 1) + j] = pieces[k][j] /\ Upto(lens, k - 1) + j \in 1..f
    <2>1. SUFFICES ASSUME NEW k \in 1..n, NEW j \in 1..lens[k]
          PROVE flat[Upto(lens, k - 1) + j] = pieces[k][j] /\ Upto(lens, k - 1) + j \in 1..f
      OBVIOUS
    <2>2. PICK i \in 1..Len(pieces) : i = k
      OBVIOUS
    <2>3. PICK x \in 1..Len(pieces[i]) : x = j
      BY <1>3, <2>2
    <2>4. FlattenSeq(pieces)[Upto(Lens(pieces), k - 1) + j] = pieces[k][j]
      <3>1. FlattenSeq(pieces)[Upto(Lens(pieces), i - 1) + x] = pieces[i][x]
        BY FlattenPlaces, ZenonT(30)
      <3>. QED
        BY <2>2, <2>3, <3>1
    <2>5. PICK u \in Nat : u = Upto(lens, k - 1)
      BY <1>10
    <2>6. PICK l \in Nat : l = lens[k]
      BY <1>2, ElementOfSeq
    <2>7. u + l <= f
      BY <1>10, <2>5, <2>6
    <2>8. u + j \in 1..f
      <3>1. j \in 1..l
        BY <2>6
      <3>. QED
        BY <2>7, <3>1
    <2>. QED
      BY <1>1, <1>2, <2>4, <2>5, <2>8
  <1>12. markers = [k \in 1..n |-> a + Upto(lens, k - 1) + 1]
    BY <1>2, <1>4 DEF Places
  <1>13. markers \in Seq(Nat) /\ Len(markers) = n
    <2>1. markers \in [1..n -> Nat]
      <3>1. ASSUME NEW k \in 1..n PROVE a + Upto(lens, k - 1) + 1 \in Nat
        <4>1. PICK u \in Nat : u = Upto(lens, k - 1)
          BY <1>10
        <4>2. a + u + 1 \in Nat
          BY <1>2, SMTT(30)
        <4>. QED
          BY <4>1, <4>2
      <3>. QED
        BY <1>12, <3>1
    <2>. QED
      BY <2>1, FunctionIsSeq
  <1>14. \A k \in 1..n : lens[k] \in Nat /\ 1 \in 1..lens[k]
    BY <1>2, <1>3, ElementOfSeq
  <1>15. \A k \in 1..n : /\ markers[k] \in 1..Len(row) /\ row[markers[k]] = pieces[k][1]
                         /\ a < markers[k]
    <2>1. SUFFICES ASSUME NEW k \in 1..n
          PROVE /\ markers[k] \in 1..Len(row) /\ row[markers[k]] = pieces[k][1]
                /\ a < markers[k]
      OBVIOUS
    <2>2. PICK u \in Nat : u = Upto(lens, k - 1)
      BY <1>10
    <2>3. markers[k] = a + u + 1
      BY <1>12, <2>2
    <2>4. u + 1 \in 1..f /\ flat[u + 1] = pieces[k][1]
      BY <1>11, <1>14, <2>2
    <2>5. row[a + (u + 1)] = pieces[k][1]
      BY <1>9, <2>4
    <2>6. a + (u + 1) = markers[k] /\ markers[k] \in 1..Len(row) /\ a < markers[k]
      BY <1>8, <2>3, <2>4
    <2>. QED
      BY <2>5, <2>6
  <1>16. \A k \in 1..n : pieces[k][1].id = "mask"
    BY <1>3, <1>14
  <1>17. ASSUME NEW p \in 1..Len(row), row[p].id = "mask" PROVE \E k \in 1..n : p = markers[k]
    <2>1. CASE p <= a
      <3>1. p \in 1..a /\ row[p] = ahead[p]
        BY <1>9, <2>1
      <3>2. ahead[p] \in Unmasked
        BY <1>4, <3>1, ElementOfSeq
      <3>. QED
        BY <1>17, <3>1, <3>2 DEF Unmasked
    <2>2. CASE p > a + f
      <3>1. PICK x \in 1..b : p = a + f + x
        <4>1. p - a - f \in 1..b /\ p = a + f + (p - a - f)
          BY <1>8, <2>2
        <4>. QED
          BY <4>1
      <3>2. rest[x] \in Unmasked
        BY <1>5, ElementOfSeq
      <3>3. row[p] = rest[x]
        BY <1>9, <3>1
      <3>. QED
        BY <1>17, <3>2, <3>3 DEF Unmasked
    <2>3. CASE p > a /\ p <= a + f
      <3>1. PICK x \in 1..f : p = a + x
        <4>1. p - a \in 1..f /\ p = a + (p - a)
          BY <1>8, <2>3
        <4>. QED
          BY <4>1
      <3>2. x \in 1..Total(lens)
        BY <1>6
      <3>3. PICK k \in 1..Len(lens) : \E j \in 1..lens[k] : x = Upto(lens, k - 1) + j
        BY <3>2, UptoFinds
      <3>4. PICK j \in 1..lens[k] : x = Upto(lens, k - 1) + j
        BY <3>3
      <3>5. k \in 1..n
        BY <1>2
      <3>6. row[p] = pieces[k][j]
        BY <1>9, <1>11, <3>1, <3>4, <3>5
      <3>7. j = 1
        BY <1>3, <1>17, <3>5, <3>6
      <3>8. p = markers[k]
        <4>1. PICK u \in Nat : u = Upto(lens, k - 1)
          BY <1>10, <3>5
        <4>2. markers[k] = a + u + 1 /\ x = u + 1
          BY <1>12, <3>4, <3>5, <3>7, <4>1
        <4>. QED
          BY <3>1, <4>2
      <3>. QED
        BY <3>5, <3>8
    <2>. QED
      BY <1>8, <2>1, <2>2, <2>3
  <1>18. ASSUME NEW p \in 1..Len(row), NEW k \in 1..n, p = markers[k] PROVE row[p].id = "mask"
    BY <1>15, <1>16, <1>18
  <1>19. ASSUME NEW k \in 1..n, NEW j \in 1..Len(pieces[k])
         PROVE  row[markers[k] - 1 + j] = pieces[k][j]
    <2>1. j \in 1..lens[k]
      BY <1>3
    <2>2. PICK u \in Nat : u = Upto(lens, k - 1)
      BY <1>10
    <2>3. u + j \in 1..f /\ flat[u + j] = pieces[k][j]
      BY <1>11, <2>1, <2>2
    <2>4. row[a + (u + j)] = pieces[k][j]
      BY <1>9, <2>3
    <2>5. markers[k] = a + u + 1
      BY <1>12, <2>2
    <2>6. j \in Nat
      BY <1>14, <2>1
    <2>7. markers[k] - 1 + j = a + (u + j)
      BY <2>5, <2>6
    <2>. QED
      BY <2>4, <2>7
  <1>20. ASSUME NEW k \in 1..(n - 1) PROVE markers[k] + Len(pieces[k]) = markers[k + 1]
    <2>1. k \in 1..n /\ k + 1 \in 1..n /\ (k + 1) - 1 = k
      OBVIOUS
    <2>2. PICK u \in Nat : u = Upto(lens, k - 1)
      BY <1>10, <2>1
    <2>3. PICK l \in Nat : l = Len(pieces[k])
      BY <1>3, <1>14, <2>1
    <2>4. Upto(lens, k) = u + l
      BY <1>3, <1>10, <2>1, <2>2, <2>3
    <2>5. markers[k] = a + u + 1 /\ markers[k + 1] = a + (u + l) + 1
      BY <1>12, <2>1, <2>2, <2>4
    <2>6. (a + u + 1) + l = a + (u + l) + 1
      OBVIOUS
    <2>. QED
      BY <2>3, <2>5, <2>6
  <1>. QED
    BY <1>4, <1>8, <1>13, <1>15, <1>17, <1>18, <1>19, <1>20 DEF Placed

\* What the head keeps of the option o with this text: its marker, the only mask, and
\* three tokens of the text if there are so many.
Shows(piece, o, text) ==
  /\ Len(piece) >= 1 /\ piece[1] = [id |-> "mask", of |-> <<"marker", o>>]
  /\ \A j \in 1..Len(piece) : piece[j].id = "mask" <=> j = 1
  /\ \A j \in 1..Len(piece) : piece[j].of # <<"state", 0>>
  /\ N(piece, <<"option", o>>) >= Least(3, Len(scrub(text)))

\* An option that is cut to no fewer than four tokens is shown.
LEMMA ShownCut ==
  ASSUME NEW q \in Question, NEW o \in 1..Len(render_laya_options(q)),
         NEW s, s = ShownOption(q, o)
  PROVE  /\ s \in Seq(Token) /\ Len(s) \in Nat /\ Len(s) >= 1
         /\ \A k \in Nat : 1 <= k /\ k <= Len(s) /\ Least(4, Len(s)) <= k =>
              /\ Take(s, k) \in Seq(Token) /\ Len(Take(s, k)) = k
              /\ Shows(Take(s, k), o, render_laya_options(q)[o])
PROOF
  <1>1. PICK rendered \in Seq(Seq(Kinds)) : rendered = render_laya_options(q)
    BY RenderedLaya
  <1>2. PICK option \in Seq(Kinds) : option = rendered[o]
    BY <1>1, ElementOfSeq
  <1>3. PICK X : X = Kinds \ {"mask"}
    OBVIOUS
  <1>4. PICK clean \in Seq(X) : clean = scrub(option) /\ Len(clean) \in Nat
    BY <1>3, ScrubType
  <1>5. PICK text \in Seq(X) : text = Take(clean, 48) /\ Len(text) = Least(48, Len(clean))
    <2>1. PICK b \in Nat : b = 48
      OBVIOUS
    <2>2. /\ Take(clean, b) \in Seq(X) /\ Len(Take(clean, b)) = Least(b, Len(clean))
          /\ \A j \in 1..Least(b, Len(clean)) : Take(clean, b)[j] = clean[j]
          /\ Len(clean) <= b => Take(clean, b) = clean
      BY TakeType
    <2>. QED
      BY <2>1, <2>2
  <1>6. s = Marker("mask", o) \o Encode(text, <<"option", o>>)
    BY <1>1, <1>2, <1>4, <1>5 DEF ShownOption
  <1>7. o \in Int /\ text \in Seq(Kinds \ {"mask"})
    <2>1. Len(render_laya_options(q)) \in Nat
      BY <1>1, LenProperties
    <2>. QED
      BY <1>3, <2>1
  <1>8. PICK l \in Nat : l = Len(clean)
    BY <1>4
  <1>9. PICK t \in Nat : t = Least(48, l) /\ t = Len(text)
    BY <1>5, <1>8 DEF Least
  <1>10. \A k \in Nat : k >= 1 =>
           /\ s \in Seq(Token) /\ Len(s) = 1 + t
           /\ Take(s, k) \in Seq(Token) /\ Len(Take(s, k)) = Least(k, 1 + t)
           /\ Take(s, k)[1] = [id |-> "mask", of |-> <<"marker", o>>]
           /\ \A j \in 1..Least(k, 1 + t) : Take(s, k)[j].id = "mask" <=> j = 1
           /\ \A j \in 1..Least(k, 1 + t) : Take(s, k)[j].of # <<"state", 0>>
           /\ N(Take(s, k), <<"option", o>>) = Least(k, 1 + t) - 1
    <2>1. ASSUME NEW k \in Nat, k >= 1 PROVE CutAt(s, o, t, k)
      <3>1. PICK x \in Seq(Kinds \ {"mask"}) : x = text
        BY <1>7
      <3>2. s = Marker("mask", o) \o Encode(x, <<"option", o>>)
        BY <1>6, <3>1
      <3>3. CutAt(s, o, Len(x), k)
        BY <1>7, <2>1, <3>2, CutOption, Zenon
      <3>. QED
        BY <1>9, <3>1, <3>3
    <2>. QED
      BY <2>1 DEF CutAt
  <1>11. s \in Seq(Token) /\ Len(s) = 1 + t
    <2>1. 1 \in Nat /\ 1 >= 1
      OBVIOUS
    <2>. QED
      BY <1>10, <2>1
  <1>12. ASSUME NEW k \in Nat, 1 <= k, k <= 1 + t, Least(4, 1 + t) <= k
         PROVE  /\ Take(s, k) \in Seq(Token) /\ Len(Take(s, k)) = k
                /\ Shows(Take(s, k), o, render_laya_options(q)[o])
    <2>1. Least(k, 1 + t) = k /\ k - 1 >= Least(3, l)
      BY <1>9, <1>12 DEF Least
    <2>2. Len(Take(s, k)) = k /\ N(Take(s, k), <<"option", o>>) = k - 1
      BY <1>10, <1>12, <2>1
    <2>3. Least(3, Len(scrub(render_laya_options(q)[o]))) = Least(3, l)
      BY <1>1, <1>2, <1>4, <1>8
    <2>4. /\ Take(s, k) \in Seq(Token)
          /\ Take(s, k)[1] = [id |-> "mask", of |-> <<"marker", o>>]
          /\ \A j \in 1..Len(Take(s, k)) : Take(s, k)[j].id = "mask" <=> j = 1
          /\ \A j \in 1..Len(Take(s, k)) : Take(s, k)[j].of # <<"state", 0>>
      BY <1>10, <1>12, <2>1, <2>2
    <2>5. Len(Take(s, k)) >= 1
      BY <1>12, <2>2
    <2>6. N(Take(s, k), <<"option", o>>) >= Least(3, Len(scrub(render_laya_options(q)[o])))
      BY <2>1, <2>2, <2>3
    <2>. QED
      BY <2>2, <2>4, <2>5, <2>6 DEF Shows
  <1>. QED
    BY <1>11, <1>12

\* A head of what is ahead and these pieces: the options as they are shown, none of
\* which stands too far from the start, behind the instructions.
Heads(head, ahead, pieces, q, h, n, order) ==
  /\ head.ids = ahead \o FlattenSeq(pieces) \o SEP
  /\ head.markers = Places(ahead, pieces) /\ Len(pieces) = n
  /\ \A k \in 1..n : Shows(pieces[k], order[k] + 1, render_laya_options(q)[order[k] + 1])
  /\ N(ahead, <<"question", 0>>) >= Least(Less(8, HeadTokens[q.kind]), Len(scrub(q.instructions)))
  /\ \A k \in 1..n : head.markers[k] <= Most(h, 4 * n + 8) + 3

\* The head: the instructions, and behind them the options in the order they are shown,
\* none of which stands too far from the start.
LEMMA HeadIs ==
  ASSUME NEW q \in Question, q.kind # "choice" => q.option_order = {},
         validate_laya_question(q), NEW h \in Nat,
         NEW n \in Nat, n = Len(render_laya_options(q))
  PROVE  \E ahead \in Seq(Plain) : \E pieces \in Seq(Seq(Token)) :
           Heads(build_laya_head(q, h), ahead, pieces, q, h, n, ShownOrder(q, n))
PROOF
  <1>. SUFFICES ASSUME NEW order, order = ShownOrder(q, n), NEW head, head = build_laya_head(q, h)
       PROVE  \E ahead \in Seq(Plain) : \E pieces \in Seq(Seq(Token)) :
                Heads(head, ahead, pieces, q, h, n, order)
    OBVIOUS
  <1>1. n >= 1 /\ order \in Seq(0..(n - 1)) /\ Len(order) = n
    BY ShownOrderIs
  <1>2. DOMAIN order = 1..n /\ \A s \in 1..n : order[s] \in 0..(n - 1)
    BY <1>1, LenProperties, ElementOfSeq
  <1>3. \A s \in 1..n : order[s] + 1 \in 1..Len(render_laya_options(q))
    BY <1>2
  <1>4. PICK shown : shown = [s \in 1..n |-> ShownOption(q, order[s] + 1)]
    OBVIOUS
  <1>5. \A s \in 1..n :
          /\ shown[s] \in Seq(Token) /\ Len(shown[s]) \in Nat /\ Len(shown[s]) >= 1
          /\ \A k \in Nat : 1 <= k /\ k <= Len(shown[s]) /\ Least(4, Len(shown[s])) <= k =>
               /\ Take(shown[s], k) \in Seq(Token) /\ Len(Take(shown[s], k)) = k
               /\ Shows(Take(shown[s], k), order[s] + 1, render_laya_options(q)[order[s] + 1])
    <2>1. SUFFICES ASSUME NEW s \in 1..n
          PROVE /\ shown[s] \in Seq(Token) /\ Len(shown[s]) \in Nat /\ Len(shown[s]) >= 1
                /\ \A k \in Nat : 1 <= k /\ k <= Len(shown[s]) /\ Least(4, Len(shown[s])) <= k =>
                     /\ Take(shown[s], k) \in Seq(Token) /\ Len(Take(shown[s], k)) = k
                     /\ Shows(Take(shown[s], k), order[s] + 1,
                              render_laya_options(q)[order[s] + 1])
      OBVIOUS
    <2>2. PICK o \in 1..Len(render_laya_options(q)) : o = order[s] + 1
      BY <1>3
    <2>3. PICK x : x = ShownOption(q, o)
      OBVIOUS
    <2>4. /\ x \in Seq(Token) /\ Len(x) \in Nat /\ Len(x) >= 1
          /\ \A k \in Nat : 1 <= k /\ k <= Len(x) /\ Least(4, Len(x)) <= k =>
               /\ Take(x, k) \in Seq(Token) /\ Len(Take(x, k)) = k
               /\ Shows(Take(x, k), o, render_laya_options(q)[o])
      BY <2>3, ShownCut
    <2>5. x = shown[s]
      BY <1>4, <2>2, <2>3
    <2>. QED
      BY <2>2, <2>4, <2>5
  <1>6. PICK lens : lens = [s \in 1..n |-> Len(shown[s])]
    OBVIOUS
  <1>7. lens \in Seq(Nat) /\ Len(lens) = n /\ \A s \in 1..n : lens[s] >= 1
    <2>1. lens \in [1..n -> Nat]
      BY <1>5, <1>6
    <2>2. lens \in Seq(Nat) /\ Len(lens) = n
      BY <2>1, FunctionIsSeq
    <2>. QED
      BY <1>5, <1>6, <2>2
  <1>8. PICK cut : cut = truncate_options_to_budget(lens, h)
    OBVIOUS
  <1>9. /\ cut.kept \in Seq(Nat) /\ Len(cut.kept) = n /\ cut.budget \in Nat
        /\ \A s \in 1..n : 1 <= cut.kept[s] /\ cut.kept[s] <= lens[s]
        /\ \A s \in 1..n : Least(4, lens[s]) <= cut.kept[s]
        /\ \A s \in 0..n : Most(8, cut.budget) + Upto(cut.kept, s) <= Most(h, 4 * n + 8)
    <2>1. Len(lens) >= 1 /\ \A s \in 1..Len(lens) : lens[s] >= 1
      BY <1>1, <1>7
    <2>2. Budgeted(truncate_options_to_budget(lens, h), lens, Len(lens), h)
      BY <1>7, <2>1, BudgetIs
    <2>. QED
      BY <1>7, <1>8, <2>2 DEF Budgeted
  <1>10. PICK pieces : pieces = [s \in 1..n |-> Take(shown[s], cut.kept[s])]
    OBVIOUS
  <1>11. \A s \in 1..n : cut.kept[s] \in Nat
    BY <1>9, ElementOfSeq
  <1>12. \A s \in 1..n : /\ pieces[s] \in Seq(Token) /\ Len(pieces[s]) = cut.kept[s]
                         /\ Shows(pieces[s], order[s] + 1, render_laya_options(q)[order[s] + 1])
    <2>1. SUFFICES ASSUME NEW s \in 1..n
          PROVE /\ pieces[s] \in Seq(Token) /\ Len(pieces[s]) = cut.kept[s]
                /\ Shows(pieces[s], order[s] + 1, render_laya_options(q)[order[s] + 1])
      OBVIOUS
    <2>2. PICK k \in Nat : k = cut.kept[s]
      BY <1>11
    <2>3. lens[s] = Len(shown[s])
      BY <1>6
    <2>4. 1 <= k /\ k <= Len(shown[s]) /\ Least(4, Len(shown[s])) <= k
      BY <1>9, <2>2, <2>3
    <2>5. pieces[s] = Take(shown[s], k)
      BY <1>10, <2>2
    <2>. QED
      BY <1>5, <2>2, <2>4, <2>5
  <1>13. pieces \in Seq(Seq(Token)) /\ Len(pieces) = n
    <2>1. pieces \in [1..n -> Seq(Token)]
      BY <1>10, <1>12
    <2>. QED
      BY <2>1, FunctionIsSeq
  <1>14. Lens(pieces) = cut.kept
    <2>1. Lens(pieces) = [k \in 1..n |-> Len(pieces[k])]
      BY <1>13 DEF Lens
    <2>2. cut.kept = [k \in 1..n |-> cut.kept[k]]
      BY <1>9, LenProperties
    <2>. QED
      BY <1>12, <2>1, <2>2
  <1>15. PICK m \in Nat : m = Most(8, cut.budget) /\ m >= 8
    BY <1>9 DEF Most
  <1>16. PICK t \in Nat : t = HeadTokens[q.kind]
    BY HeadTokensAssumption DEF Question
  <1>17. PICK ahead : ahead = CLS \o Take(Frame([j \in 1..t |-> "word"])
                                 \o Encode(scrub(q.instructions), <<"question", 0>>), m) \o SEP
    OBVIOUS
  <1>18. q.instructions \in Seq(Kinds)
    BY DEF Question, Text
  <1>19. /\ ahead \in Seq(Plain) /\ Len(ahead) \in Nat /\ Len(ahead) <= m + 2
         /\ N(ahead, <<"question", 0>>) >= Least(Less(8, HeadTokens[q.kind]), Len(scrub(q.instructions)))
    <2>1. /\ ahead \in Seq(Plain) /\ Len(ahead) \in Nat /\ Len(ahead) <= m + 2
          /\ N(ahead, <<"question", 0>>) >= Least(Less(8, t), Len(scrub(q.instructions)))
      BY <1>15, <1>17, <1>18, AheadIs
    <2>. QED
      BY <1>16, <2>1
  <1>20. head = [ids |-> ahead \o FlattenSeq(pieces) \o SEP,
                 markers |-> [s \in 1..n |-> Len(ahead) + Total(SubSeq(cut.kept, 1, s - 1)) + 1]]
    <2>1. DOMAIN shown = 1..n
      BY <1>4
    <2>. QED
      BY <1>2, <1>4, <1>6, <1>8, <1>10, <1>15, <1>17, <1>16, <2>1 DEF build_laya_head
  <1>21. head.markers = Places(ahead, pieces)
    BY <1>13, <1>14, <1>20 DEF Places, Upto
  <1>22. ASSUME NEW k \in 1..n PROVE head.markers[k] <= Most(h, 4 * n + 8) + 3
    <2>1. head.markers[k] = Len(ahead) + Upto(cut.kept, k - 1) + 1
      BY <1>20 DEF Upto
    <2>2. k - 1 \in 0..n /\ k - 1 \in 0..Len(cut.kept)
      BY <1>9
    <2>3. PICK u \in Nat : u = Upto(cut.kept, k - 1)
      BY <1>9, <2>2, UptoNat
    <2>4. PICK b \in Nat : b = Most(h, 4 * n + 8)
      BY DEF Most
    <2>5. m + u <= b
      BY <1>9, <1>15, <2>2, <2>3, <2>4
    <2>6. PICK a \in Nat : a = Len(ahead) /\ a <= m + 2
      BY <1>19
    <2>7. a + u + 1 <= b + 3
      BY <2>5, <2>6
    <2>. QED
      BY <2>1, <2>3, <2>4, <2>6, <2>7
  <1>23. head.ids = ahead \o FlattenSeq(pieces) \o SEP
    BY <1>20
  <1>24. Heads(head, ahead, pieces, q, h, n, order)
    BY <1>12, <1>13, <1>19, <1>21, <1>22, <1>23 DEF Heads
  <1>. QED
    BY <1>13, <1>19, <1>24

\* What stands whole in a sequence counts in it.
LEMMA PartCounts ==
  \A s, t \in Seq(Token) : \A a \in Nat : \A x :
    a + Len(t) <= Len(s) /\ (\A j \in 1..Len(t) : s[a + j] = t[j]) => N(s, x) >= N(t, x)
PROOF
  <1>1. SUFFICES ASSUME NEW s \in Seq(Token), NEW t \in Seq(Token), NEW a \in Nat, NEW x,
                        a + Len(t) <= Len(s), \A j \in 1..Len(t) : s[a + j] = t[j]
        PROVE  N(s, x) >= N(t, x)
    OBVIOUS
  <1>2. PICK m \in Nat : m = Len(t)
    BY LenProperties
  <1>3. PICK n \in Nat : n = Len(s)
    BY LenProperties
  <1>4. \A p \in 1..n : s[p] \in Token
    BY <1>3, ElementOfSeq
  <1>5. PICK u \in Seq(Token) : Len(u) = a /\ \A p \in 1..a : u[p] = s[p]
    <2>1. PICK f : f = [p \in 1..a |-> s[p]]
      OBVIOUS
    <2>2. f \in [1..a -> Token]
      BY <1>1, <1>2, <1>3, <1>4, <2>1
    <2>3. f \in Seq(Token) /\ Len(f) = a
      BY <2>2, FunctionIsSeq
    <2>. QED
      BY <2>1, <2>3
  <1>6. PICK b \in Nat : b = n - (a + m)
    <2>1. a + m <= n
      BY <1>1, <1>2, <1>3
    <2>. QED
      BY <2>1
  <1>7. PICK v \in Seq(Token) : Len(v) = b /\ \A p \in 1..b : v[p] = s[a + m + p]
    <2>1. PICK f : f = [p \in 1..b |-> s[a + m + p]]
      OBVIOUS
    <2>2. \A p \in 1..b : a + m + p \in 1..n
      BY <1>6
    <2>3. f \in [1..b -> Token]
      BY <1>4, <2>1, <2>2
    <2>4. f \in Seq(Token) /\ Len(f) = b
      BY <2>3, FunctionIsSeq
    <2>. QED
      BY <2>1, <2>4
  <1>8. s = u \o t \o v
    <2>1. PICK r \in Seq(Token) : r = u \o t \o v
      BY ConcatProperties
    <2>2. /\ Len(r) = a + m + b
          /\ \A p \in 1..a : r[p] = u[p]
          /\ \A p \in 1..m : r[a + p] = t[p]
          /\ \A p \in 1..b : r[a + m + p] = v[p]
      <3>1. a = Len(u) /\ m = Len(t) /\ b = Len(v)
        BY <1>2, <1>5, <1>7
      <3>2. Stand(r, u, t, v, a, m, b)
        BY <2>1, <3>1, RowPlaces
      <3>. QED
        BY <3>2 DEF Stand
    <2>3. Len(r) = n
      BY <1>6, <2>2
    <2>4. ASSUME NEW p \in 1..n PROVE r[p] = s[p]
      <3>1. CASE p \in 1..a
        BY <1>5, <2>2, <3>1
      <3>2. CASE p > a /\ p <= a + m
        <4>1. PICK j \in 1..m : p = a + j
          <5>1. p - a \in 1..m /\ p = a + (p - a)
            BY <3>2
          <5>. QED
            BY <5>1
        <4>. QED
          BY <1>1, <1>2, <2>2, <4>1
      <3>3. CASE p > a + m
        <4>1. PICK j \in 1..b : p = a + m + j
          <5>1. p - (a + m) \in 1..b /\ p = a + m + (p - (a + m))
            BY <1>6, <3>3
          <5>. QED
            BY <5>1
        <4>. QED
          BY <1>7, <2>2, <4>1
      <3>. QED
        BY <3>1, <3>2, <3>3
    <2>5. r = s
      BY <1>3, <2>3, <2>4, SeqEqual
    <2>. QED
      BY <2>1, <2>5
  <1>9. /\ N(u, x) \in Nat /\ N(t, x) \in Nat /\ N(v, x) \in Nat
        /\ N(u \o t \o v, x) = N(u, x) + N(t, x) + N(v, x)
    BY Count3
  <1>. QED
    BY <1>8, <1>9

\* Tokens that are not of a state.
Stateless == {t \in Token : t.of # <<"state", 0>>}

\* It does not matter which two are joined first.
LEMMA Associative == \A x, y, z \in Seq(Token) : (x \o y) \o z = x \o (y \o z)
PROOF
  <1>. SUFFICES ASSUME NEW x \in Seq(Token), NEW y \in Seq(Token), NEW z \in Seq(Token)
       PROVE  (x \o y) \o z = x \o (y \o z)
    OBVIOUS
  <1>. QED
    BY ConcatAssociative

\* What stands behind the options is closed by a SEP, and holds no mask.
LEMMA Behind ==
  ASSUME NEW ahead \in Seq(Plain), NEW pieces \in Seq(Seq(Token)), NEW n \in Nat,
         n = Len(pieces), NEW rest \in Seq(Unmasked),
         \A k \in 1..n : /\ Len(pieces[k]) >= 1
                         /\ \A j \in 1..Len(pieces[k]) : pieces[k][j].id = "mask" <=> j = 1
  PROVE  Placed((ahead \o FlattenSeq(pieces) \o SEP) \o rest \o SEP, ahead, pieces,
                Places(ahead, pieces), n)
PROOF
  <1>1. ahead \in Seq(Unmasked) /\ SEP \in Seq(Unmasked) /\ Seq(Unmasked) \subseteq Seq(Token)
    BY SpecialsPlain
  <1>2. SEP \o rest \o SEP \in Seq(Unmasked) /\ SEP \o rest \in Seq(Unmasked)
    <2>1. SEP \o rest \in Seq(Unmasked)
      BY <1>1, ConcatProperties
    <2>. QED
      BY <1>1, <2>1, ConcatProperties
  <1>3. PICK flat \in Seq(Token) : flat = FlattenSeq(pieces)
    BY FlattenLength
  <1>4. PICK a \in Seq(Token), sep \in Seq(Token), r \in Seq(Token) :
          a = ahead /\ sep = SEP /\ r = rest
    BY <1>1
  <1>5. ((a \o flat \o sep) \o r) \o sep = a \o flat \o (sep \o r \o sep)
    <2>1. PICK af \in Seq(Token) : af = a \o flat
      BY ConcatProperties
    <2>2. PICK sr \in Seq(Token) : sr = sep \o r
      BY ConcatProperties
    <2>3. (af \o sep) \o r = af \o (sep \o r)
      BY ConcatAssociative, SMTT(30)
    <2>4. (af \o sr) \o sep = af \o (sr \o sep)
      BY Associative, SMTT(30)
    <2>. QED
      BY <2>1, <2>2, <2>3, <2>4
  <1>6. PICK behind \in Seq(Unmasked) : behind = SEP \o rest \o SEP
    BY <1>2
  <1>7. Placed(ahead \o FlattenSeq(pieces) \o behind, ahead, pieces, Places(ahead, pieces), n)
    BY <1>1, MasksPlaced
  <1>. QED
    BY <1>3, <1>4, <1>5, <1>6, <1>7

\* Nothing of the state stands in the head.
LEMMA HeadStateless ==
  ASSUME NEW ahead \in Seq(Plain), NEW pieces \in Seq(Seq(Token)),
         \A k \in 1..Len(pieces) : \A j \in 1..Len(pieces[k]) : pieces[k][j].of # <<"state", 0>>
  PROVE  ahead \o FlattenSeq(pieces) \o SEP \in Seq(Stateless)
PROOF
  <1>1. Plain \subseteq Stateless
    BY DEF Plain, Unmasked, Stateless
  <1>2. ahead \in Seq(Stateless) /\ SEP \in Seq(Stateless)
    BY <1>1, SpecialsPlain, SeqMonotonic
  <1>3. pieces \in Seq(Seq(Stateless))
    <2>1. PICK n \in Nat : n = Len(pieces) /\ DOMAIN pieces = 1..n
      BY LenProperties
    <2>2. \A k \in 1..n : pieces[k] \in Seq(Stateless)
      <3>1. SUFFICES ASSUME NEW k \in 1..n PROVE pieces[k] \in Seq(Stateless)
        OBVIOUS
      <3>2. PICK piece \in Seq(Token) : piece = pieces[k]
        BY <2>1, ElementOfSeq
      <3>3. PICK m \in Nat : m = Len(piece) /\ DOMAIN piece = 1..m
        BY LenProperties
      <3>4. \A j \in 1..m : piece[j] \in Stateless
        <4>1. \A j \in 1..m : piece[j] \in Token
          BY <3>3, ElementOfSeq
        <4>2. \A j \in 1..m : piece[j].of # <<"state", 0>>
          BY <2>1, <3>2, <3>3
        <4>. QED
          BY <4>1, <4>2 DEF Stateless
      <3>5. piece \in [1..m -> Stateless]
        BY <3>3, <3>4, LenProperties
      <3>. QED
        BY <3>2, <3>5, FunctionIsSeq
    <2>3. pieces \in [1..n -> Seq(Stateless)]
      BY <2>1, <2>2, LenProperties
    <2>. QED
      BY <2>3, FunctionIsSeq
  <1>4. FlattenSeq(pieces) \in Seq(Stateless)
    BY <1>3, FlattenLength
  <1>5. ahead \o FlattenSeq(pieces) \in Seq(Stateless)
    BY <1>2, <1>4, ConcatProperties
  <1>. QED
    BY <1>2, <1>5, ConcatProperties

\* What the window leaves of the head and a state of this length: the beginning of all
\* of it, that uses the window when it lacks some of the state, and is closed when it
\* holds some.
Window(ids, whole, length, max_len) ==
  /\ ids \in Seq(Token) /\ Len(ids) = Least(max_len, Len(whole))
  /\ \A p \in 1..Len(ids) : ids[p] = whole[p]
  /\ N(ids, <<"state", 0>>) < length => Len(ids) = max_len
  /\ N(ids, <<"state", 0>>) > 0 => ids[Len(ids)] = SEP[1]

\* A state is cut to the room there is behind a head.
LEMMA WindowCut ==
  ASSUME NEW head \in Seq(Stateless), NEW text \in Seq(Kinds), NEW max_len \in Nat, max_len >= 1,
         NEW rest, rest = Take(Encode(text, <<"state", 0>>), Less(max_len, Len(head) + 1)),
         NEW whole, whole = head \o rest \o SEP
  PROVE  Window(Take(whole, max_len), whole, Len(text), max_len)
PROOF
  <1>1. Stateless \subseteq Token
    BY DEF Stateless
  <1>2. head \in Seq(Token)
    BY <1>1, SeqMonotonic
  <1>3. PICK h \in Nat : h = Len(head)
    BY LenProperties
  <1>4. PICK room \in Nat : room = Less(max_len, h + 1)
    <2>1. PICK c \in Nat : c = h + 1
      OBVIOUS
    <2>2. Less(max_len, c) \in Nat
      BY DEF Less
    <2>. QED
      BY <2>1, <2>2
  <1>5. PICK of \in Origin : of = <<"state", 0>>
    BY Origins
  <1>6. PICK cut \in Seq(Kinds) : cut = Take(text, room) /\ Len(cut) = Least(room, Len(text))
    <2>1. /\ Take(text, room) \in Seq(Kinds) /\ Len(Take(text, room)) = Least(room, Len(text))
          /\ \A j \in 1..Least(room, Len(text)) : Take(text, room)[j] = text[j]
          /\ Len(text) <= room => Take(text, room) = text
      BY TakeType
    <2>. QED
      BY <2>1
  <1>7. rest = Encode(cut, of)
    <2>1. Kinds \subseteq Ids
      BY KindsAreIds
    <2>2. Take(Encode(text, of), room) = Encode(Take(text, room), of)
      BY <2>1, TakeEncode, Zenon
    <2>. QED
      BY <1>3, <1>4, <1>5, <1>6, <2>2
  <1>8. PICK t \in Nat : t = Len(text)
    BY LenProperties
  <1>9. PICK k \in Nat : k = Least(room, t) /\ k = Len(cut)
    BY <1>6, <1>8 DEF Least
  <1>10. /\ Encode(cut, of) \in Seq(Token) /\ Len(Encode(cut, of)) = Len(cut)
         /\ N(Encode(cut, of), of) = IF of = of THEN Len(cut) ELSE 0
    BY EncodedIs, Zenon
  <1>11. PICK r \in Seq(Token) : r = rest /\ Len(r) = k /\ N(r, of) = k
    BY <1>7, <1>9, <1>10
  <1>12. PICK sep \in Seq(Token) : sep = SEP /\ Len(sep) = 1
    BY Specials
  <1>13. PICK w \in Seq(Token) : w = head \o r \o sep
    BY <1>2, ConcatProperties
  <1>14. w = whole
    BY <1>11, <1>12, <1>13
  <1>15. PICK hd \in Seq(Token) : hd = head
    BY <1>2
  <1>16. PICK one \in Nat : one = 1
    OBVIOUS
  <1>17. Stand(w, hd, r, sep, h, k, one)
    <2>1. h = Len(hd) /\ k = Len(r) /\ one = Len(sep)
      BY <1>3, <1>11, <1>12, <1>15, <1>16
    <2>. QED
      BY <1>13, <1>15, <2>1, RowPlaces
  <1>18. Len(w) = h + k + 1 /\ (\A p \in 1..h : w[p] = head[p]) /\ w[h + k + 1] = SEP[1]
    BY <1>12, <1>15, <1>16, <1>17 DEF Stand
  <1>19. /\ Take(w, max_len) \in Seq(Token) /\ Len(Take(w, max_len)) = Least(max_len, Len(w))
         /\ \A j \in 1..Least(max_len, Len(w)) : Take(w, max_len)[j] = w[j]
         /\ Len(w) <= max_len => Take(w, max_len) = w
    BY TakeType
  <1>20. PICK ids \in Seq(Token) : ids = Take(w, max_len) /\ Len(ids) = Least(max_len, h + k + 1)
    BY <1>18, <1>19
  <1>21. CASE h + 1 <= max_len
    <2>1. room = max_len - (h + 1)
      BY <1>4, <1>21 DEF Less
    <2>2. h + k + 1 <= max_len
      BY <1>9, <1>21, <2>1 DEF Least
    <2>3. ids = w /\ Len(ids) = h + k + 1
      BY <1>18, <1>19, <1>20, <2>2
    <2>4. N(w, of) >= k
      <3>1. h + Len(r) <= Len(w)
        BY <1>11, <1>18, SMTT(30)
      <3>2. \A j \in 1..k : w[h + j] = r[j]
        BY <1>17 DEF Stand
      <3>3. h + Len(r) <= Len(w) /\ \A j \in 1..Len(r) : w[h + j] = r[j]
        BY <1>11, <3>1, <3>2
      <3>4. N(w, of) >= N(r, of)
        BY <3>3, PartCounts
      <3>. QED
        BY <1>11, <3>4
    <2>5. N(w, of) \in Nat
      BY CountConcat
    <2>6. N(ids, of) < t => Len(ids) = max_len
      <3>1. SUFFICES ASSUME N(ids, of) < t PROVE Len(ids) = max_len
        OBVIOUS
      <3>2. k < t
        BY <2>3, <2>4, <2>5, <3>1
      <3>3. k = room
        BY <1>9, <3>2 DEF Least
      <3>. QED
        BY <2>1, <2>3, <3>3
    <2>7. ids[Len(ids)] = SEP[1]
      BY <1>18, <2>3
    <2>. QED
      BY <1>5, <1>8, <1>14, <1>18, <1>19, <1>20, <2>6, <2>7 DEF Window
  <1>22. CASE max_len <= h
    <2>1. room = 0
      BY <1>4, <1>22 DEF Less
    <2>2. Len(ids) = max_len
      BY <1>20, <1>22 DEF Least
    <2>3. ids \in Seq(Stateless)
      <3>1. \A p \in 1..max_len : ids[p] = head[p]
        BY <1>18, <1>19, <1>20, <1>22, <2>2
      <3>2. \A p \in 1..h : head[p] \in Stateless
        BY <1>3, ElementOfSeq
      <3>3. \A p \in 1..max_len : ids[p] \in Stateless
        <4>1. \A p \in 1..max_len : p \in 1..h
          BY <1>22
        <4>. QED
          BY <3>1, <3>2, <4>1
      <3>4. DOMAIN ids = 1..max_len /\ ids = [p \in 1..max_len |-> ids[p]]
        BY <2>2, LenProperties
      <3>5. ids \in [1..max_len -> Stateless]
        BY <3>3, <3>4
      <3>. QED
        BY <3>5, FunctionIsSeq
    <2>4. Only(ids, Of(of)) = << >>
      <3>1. Stateless \cap Of(of) = {}
        BY <1>5 DEF Stateless, Of
      <3>. QED
        BY <2>3, <3>1, OnlyNone
    <2>5. N(ids, of) = 0
      BY <2>4 DEF N
    <2>6. ids \in Seq(Token) /\ Len(ids) = Least(max_len, Len(w))
      BY <1>18, <1>20
    <2>7. \A p \in 1..Len(ids) : ids[p] = w[p]
      BY <1>19, <1>20, <2>6
    <2>8. N(ids, of) < t => Len(ids) = max_len
      BY <2>2
    <2>9. ~(N(ids, of) > 0)
      BY <2>5
    <2>. QED
      BY <1>5, <1>8, <1>14, <1>20, <2>6, <2>7, <2>8, <2>9 DEF Window
  <1>. QED
    BY <1>21, <1>22

\* A row of Laya: its masks are its markers, in the order the options are shown; it
\* uses the window, and keeps what it must of the question.
LayaRow(r, q, text, max_len, n, order) ==
  /\ r \in Row /\ Len(r.ids) <= max_len /\ Len(r.markers) = n
  /\ \A s \in 1..n : /\ r.markers[s] \in 1..Len(r.ids)
                     /\ r.ids[r.markers[s]] = [id |-> "mask", of |-> <<"marker", order[s] + 1>>]
  /\ \A p \in 1..Len(r.ids) : r.ids[p].id = "mask" <=> \E s \in 1..n : p = r.markers[s]
  /\ N(r.ids, <<"state", 0>>) < Len(text) => Len(r.ids) = max_len
  /\ N(r.ids, <<"state", 0>>) > 0 => r.ids[Len(r.ids)] = SEP[1]
  /\ N(r.ids, <<"question", 0>>) >= Least(Less(8, HeadTokens[q.kind]), Len(scrub(q.instructions)))
  /\ \A s \in 1..(n - 1) : N(r.ids, <<"option", order[s] + 1>>)
                             >= Least(3, Len(scrub(render_laya_options(q)[order[s] + 1])))

\* A row that is cut where no marker stands behind keeps all that stands before the
\* last marker.
LEMMA CutKeeps ==
  ASSUME NEW ahead \in Seq(Plain), NEW pieces \in Seq(Seq(Token)), NEW markers,
         NEW n \in Nat, n >= 1, n = Len(pieces), NEW whole, NEW ids, NEW length,
         NEW max_len \in Nat, \A s \in 1..n : Len(pieces[s]) >= 1,
         Placed(whole, ahead, pieces, markers, n), Window(ids, whole, length, max_len),
         \A s \in 1..n : markers[s] <= max_len
  PROVE  /\ \A s \in 1..n : markers[s] \in 1..Len(ids) /\ ids[markers[s]] = pieces[s][1]
         /\ \A p \in 1..Len(ids) : ids[p].id = "mask" <=> \E s \in 1..n : p = markers[s]
         /\ \A x : N(ids, x) >= N(ahead, x)
         /\ \A s \in 1..(n - 1) : \A x : N(ids, x) >= N(pieces[s], x)
PROOF
  <1>1. PICK w \in Nat : w = Len(whole)
    BY LenProperties DEF Placed
  <1>2. PICK m \in Nat : m = Len(ids) /\ m = Least(max_len, w)
    BY <1>1 DEF Window, Least
  <1>3. PICK a \in Nat : a = Len(ahead)
    BY LenProperties
  <1>4. \A s \in 1..n : markers[s] \in 1..m /\ a < markers[s] /\ Len(pieces[s]) \in Nat
    <2>1. SUFFICES ASSUME NEW s \in 1..n
          PROVE markers[s] \in 1..m /\ a < markers[s] /\ Len(pieces[s]) \in Nat
      OBVIOUS
    <2>2. markers[s] \in 1..w /\ a < markers[s]
      BY <1>1, <1>3 DEF Placed
    <2>3. markers[s] <= m
      BY <1>2, <2>2 DEF Least
    <2>4. Len(pieces[s]) \in Nat
      <3>1. pieces[s] \in Seq(Token)
        BY ElementOfSeq
      <3>. QED
        BY <3>1, LenProperties
    <2>. QED
      BY <2>2, <2>3, <2>4
  <1>5. m <= w /\ \A p \in 1..m : ids[p] = whole[p]
    BY <1>1, <1>2 DEF Window, Least
  <1>6. ids \in Seq(Token)
    BY DEF Window
  <1>7. ASSUME NEW s \in 1..n PROVE ids[markers[s]] = pieces[s][1]
    <2>1. 1 \in 1..Len(pieces[s])
      BY <1>4
    <2>2. whole[markers[s] - 1 + 1] = pieces[s][1]
      BY <2>1 DEF Placed
    <2>3. markers[s] - 1 + 1 = markers[s]
      BY <1>4
    <2>. QED
      BY <1>4, <1>5, <2>2, <2>3
  <1>8. ASSUME NEW p \in 1..m PROVE ids[p].id = "mask" <=> \E s \in 1..n : p = markers[s]
    <2>1. p \in 1..Len(whole) /\ ids[p] = whole[p]
      BY <1>1, <1>5
    <2>. QED
      BY <2>1 DEF Placed
  <1>9. ASSUME NEW x PROVE N(ids, x) >= N(ahead, x)
    <2>1. PICK t \in Seq(Token) : t = ahead
      BY SpecialsPlain
    <2>2. a <= m
      <3>1. 1 \in 1..n
        OBVIOUS
      <3>. QED
        <4>1. markers[1] \in Nat /\ markers[1] >= a + 1 /\ markers[1] <= m
          BY <1>4, <3>1
        <4>. QED
          BY <4>1
    <2>3. \A j \in 1..a : ids[j] = t[j]
      <3>1. \A j \in 1..a : whole[j] = ahead[j]
        BY <1>3 DEF Placed
      <3>2. \A j \in 1..a : j \in 1..m
        BY <2>2
      <3>. QED
        BY <1>5, <2>1, <3>1, <3>2
    <2>4. PICK z \in Nat : z = 0
      OBVIOUS
    <2>5. z + Len(t) <= Len(ids) /\ \A j \in 1..Len(t) : ids[z + j] = t[j]
      BY <1>2, <1>3, <2>1, <2>2, <2>3, <2>4
    <2>. QED
      BY <1>6, <2>1, <2>5, PartCounts
  <1>10. ASSUME NEW s \in 1..(n - 1), NEW x PROVE N(ids, x) >= N(pieces[s], x)
    <2>1. s \in 1..n /\ s + 1 \in 1..n
      OBVIOUS
    <2>2. PICK t \in Seq(Token) : t = pieces[s]
      BY <2>1, ElementOfSeq
    <2>3. PICK l \in Nat : l = Len(t)
      BY LenProperties
    <2>4. PICK b \in Nat : b = markers[s] - 1
      BY <1>4, <2>1
    <2>5. markers[s + 1] = b + 1 + l
      <3>1. markers[s] + Len(pieces[s]) = markers[s + 1]
        BY DEF Placed
      <3>2. markers[s] = b + 1
        <4>1. PICK c \in Nat : c = markers[s] /\ c >= 1
          BY <1>4, <2>1
        <4>2. b = c - 1
          BY <2>4, <4>1
        <4>3. c = b + 1
          BY <4>2
        <4>. QED
          BY <4>1, <4>3
      <3>. QED
        BY <2>2, <2>3, <3>1, <3>2
    <2>6. b + l <= m
      BY <1>4, <2>1, <2>5
    <2>7. \A j \in 1..l : ids[b + j] = t[j]
      <3>1. SUFFICES ASSUME NEW j \in 1..l PROVE ids[b + j] = t[j]
        OBVIOUS
      <3>2. whole[markers[s] - 1 + j] = pieces[s][j]
        BY <2>1, <2>2, <2>3 DEF Placed
      <3>3. b + j \in 1..m
        BY <2>6
      <3>. QED
        BY <1>5, <2>2, <2>4, <3>2, <3>3
    <2>8. b + Len(t) <= Len(ids) /\ \A j \in 1..Len(t) : ids[b + j] = t[j]
      BY <1>2, <2>3, <2>6, <2>7
    <2>9. N(ids, x) >= N(t, x)
      BY <1>6, <2>8, PartCounts
    <2>. QED
      BY <2>2, <2>9
  <1>. QED
    BY <1>2, <1>4, <1>7, <1>8, <1>9, <1>10

\* A question of Laya that was validated has one row, or it is too large for the window.
LEMMA LayaRows ==
  ASSUME NEW q \in Question, q.kind # "choice" => q.option_order = {},
         validate_laya_question(q), NEW state \in Seq(Kinds),
         NEW max_len \in Nat, max_len >= 1, NEW h \in Nat,
         NEW n \in Nat, n = Len(render_laya_options(q))
  PROVE  \/ /\ encode_row(q, state, max_len, h) = << >>
            /\ Most(h, 4 * n + 8) + 3 > max_len
         \/ \E r : /\ encode_row(q, state, max_len, h) = <<r>>
                   /\ LayaRow(r, q, scrub(state), max_len, n, ShownOrder(q, n))
PROOF
  <1>1. PICK order : order = ShownOrder(q, n)
    OBVIOUS
  <1>2. PICK head : head = build_laya_head(q, h)
    OBVIOUS
  <1>3. n >= 1
    BY ShownOrderIs
  <1>4. PICK ahead \in Seq(Plain), pieces \in Seq(Seq(Token)) :
           /\ head.ids = ahead \o FlattenSeq(pieces) \o SEP
           /\ head.markers = Places(ahead, pieces) /\ Len(pieces) = n
           /\ \A k \in 1..n : Shows(pieces[k], order[k] + 1, render_laya_options(q)[order[k] + 1])
           /\ N(ahead, <<"question", 0>>) >= Least(Less(8, HeadTokens[q.kind]), Len(scrub(q.instructions)))
           /\ \A k \in 1..n : head.markers[k] <= Most(h, 4 * n + 8) + 3
    <2>1. \E ahead \in Seq(Plain) : \E pieces \in Seq(Seq(Token)) :
            Heads(build_laya_head(q, h), ahead, pieces, q, h, n, ShownOrder(q, n))
      BY HeadIs
    <2>. QED
      BY <1>1, <1>2, <2>1, Zenon DEF Heads
  <1>5. \A k \in 1..n : /\ Len(pieces[k]) >= 1
                        /\ \A j \in 1..Len(pieces[k]) : pieces[k][j].id = "mask" <=> j = 1
    BY <1>4 DEF Shows
  <1>6. \A k \in 1..n : pieces[k][1] = [id |-> "mask", of |-> <<"marker", order[k] + 1>>]
    BY <1>4 DEF Shows
  <1>7. PICK text \in Seq(Kinds) : text = scrub(state)
    BY ScrubType
  <1>8. PICK ids0 \in Seq(Stateless) : ids0 = head.ids
    <2>1. \A k \in 1..Len(pieces) : \A j \in 1..Len(pieces[k]) : pieces[k][j].of # <<"state", 0>>
      BY <1>4 DEF Shows
    <2>2. ahead \o FlattenSeq(pieces) \o SEP \in Seq(Stateless)
      BY <2>1, HeadStateless
    <2>. QED
      BY <1>4, <2>2
  <1>9. PICK rest : rest = Take(Encode(text, <<"state", 0>>), Less(max_len, Len(ids0) + 1))
    OBVIOUS
  <1>10. rest \in Seq(Unmasked)
    <2>1. PICK X : X = Kinds \ {"mask"}
      OBVIOUS
    <2>2. PICK t \in Seq(X) : t = scrub(state)
      BY <2>1, ScrubType
    <2>3. PICK of \in Origin : of = <<"state", 0>>
      BY Origins
    <2>4. X \subseteq Ids /\ "mask" \notin X
      BY <2>1 DEF Ids
    <2>5. /\ Encode(t, of) \in Seq(Unmasked)
          /\ of # <<"state", 0>> => Encode(t, of) \in Seq(Plain)
      BY <2>4, PlainEncoded
    <2>6. PICK e \in Seq(Unmasked) : e = Encode(t, of)
      BY <2>5
    <2>7. PICK l \in Nat : l = Len(ids0)
      BY LenProperties
    <2>8. PICK c \in Nat : c = Less(max_len, l + 1)
      <3>1. PICK d \in Nat : d = l + 1
        OBVIOUS
      <3>2. Less(max_len, d) \in Nat
        BY DEF Less
      <3>. QED
        BY <3>1, <3>2
    <2>9. /\ Take(e, c) \in Seq(Unmasked) /\ Len(Take(e, c)) = Least(c, Len(e))
          /\ \A j \in 1..Least(c, Len(e)) : Take(e, c)[j] = e[j]
          /\ Len(e) <= c => Take(e, c) = e
      BY TakeType
    <2>. QED
      BY <1>7, <1>9, <2>2, <2>3, <2>6, <2>7, <2>8, <2>9
  <1>11. PICK whole : whole = ids0 \o rest \o SEP
    OBVIOUS
  <1>12. Placed(whole, ahead, pieces, head.markers, n)
    <2>1. Placed((ahead \o FlattenSeq(pieces) \o SEP) \o rest \o SEP, ahead, pieces,
                 Places(ahead, pieces), n)
      BY <1>4, <1>5, <1>10, Behind
    <2>. QED
      BY <1>4, <1>8, <1>11, <2>1
  <1>13. Window(Take(whole, max_len), whole, Len(text), max_len)
    BY <1>9, <1>11, WindowCut
  <1>14. PICK ids : ids = Take(whole, max_len)
    OBVIOUS
  <1>15. DOMAIN head.markers = 1..n /\ head.markers \in Seq(Nat) /\ Len(head.markers) = n
    BY <1>12, LenProperties DEF Placed
  <1>16. encode_row(q, state, max_len, h) =
           IF \E s \in 1..n : head.markers[s] > max_len THEN << >>
           ELSE <<[ids |-> ids, markers |-> head.markers]>>
    BY <1>2, <1>7, <1>8, <1>9, <1>11, <1>14, <1>15 DEF encode_row, build_laya_sequence
  <1>17. CASE \E s \in 1..n : head.markers[s] > max_len
    <2>1. PICK s \in 1..n : head.markers[s] > max_len
      BY <1>17
    <2>2. head.markers[s] \in Nat /\ head.markers[s] <= Most(h, 4 * n + 8) + 3
      BY <1>4, <1>15, ElementOfSeq
    <2>3. Most(h, 4 * n + 8) \in Nat
      BY DEF Most
    <2>4. Most(h, 4 * n + 8) + 3 > max_len
      BY <2>1, <2>2, <2>3
    <2>. QED
      BY <1>16, <1>17, <2>4
  <1>18. CASE ~ \E s \in 1..n : head.markers[s] > max_len
    <2>1. \A s \in 1..n : head.markers[s] <= max_len
      <3>1. ASSUME NEW s \in 1..n PROVE head.markers[s] <= max_len
        <4>1. head.markers[s] \in Nat
          BY <1>15, ElementOfSeq
        <4>2. ~ (head.markers[s] > max_len)
          BY <1>18
        <4>. QED
          BY <4>1, <4>2
      <3>. QED
        BY <3>1
    <2>2. /\ \A s \in 1..n : head.markers[s] \in 1..Len(ids) /\ ids[head.markers[s]] = pieces[s][1]
          /\ \A p \in 1..Len(ids) : ids[p].id = "mask" <=> \E s \in 1..n : p = head.markers[s]
          /\ \A x : N(ids, x) >= N(ahead, x)
          /\ \A s \in 1..(n - 1) : \A x : N(ids, x) >= N(pieces[s], x)
      <3>1. PICK markers : markers = head.markers
        OBVIOUS
      <3>2. PICK length : length = Len(text)
        OBVIOUS
      <3>3. /\ \A s \in 1..n : Len(pieces[s]) >= 1
            /\ \A s \in 1..n : markers[s] <= max_len
            /\ Placed(whole, ahead, pieces, markers, n) /\ Window(ids, whole, length, max_len)
        BY <1>5, <1>12, <1>13, <1>14, <2>1, <3>1, <3>2
      <3>4. /\ \A s \in 1..n : markers[s] \in 1..Len(ids) /\ ids[markers[s]] = pieces[s][1]
            /\ \A p \in 1..Len(ids) : ids[p].id = "mask" <=> \E s \in 1..n : p = markers[s]
            /\ \A x : N(ids, x) >= N(ahead, x)
            /\ \A s \in 1..(n - 1) : \A x : N(ids, x) >= N(pieces[s], x)
        BY <1>3, <1>4, <3>3, CutKeeps
      <3>. QED
        BY <3>1, <3>4
    <2>3. PICK r : r = [ids |-> ids, markers |-> head.markers]
      OBVIOUS
    <2>4. r.ids = ids /\ r.markers = head.markers
      BY <2>3
    <2>5. ids \in Seq(Token) /\ Len(ids) <= max_len
      <3>1. PICK l \in Nat : l = Len(whole)
        BY <1>12, LenProperties DEF Placed
      <3>2. ids \in Seq(Token) /\ Len(ids) = Least(max_len, l)
        BY <1>13, <1>14, <3>1 DEF Window
      <3>. QED
        BY <3>2 DEF Least
    <2>6. r \in Row
      BY <1>15, <2>3, <2>5 DEF Row
    <2>7. /\ N(ids, <<"state", 0>>) < Len(scrub(state)) => Len(ids) = max_len
          /\ N(ids, <<"state", 0>>) > 0 => ids[Len(ids)] = SEP[1]
      BY <1>7, <1>13, <1>14 DEF Window
    <2>8. /\ N(ids, <<"question", 0>>) \in Int /\ N(ahead, <<"question", 0>>) \in Int
          /\ Least(Less(8, HeadTokens[q.kind]), Len(scrub(q.instructions))) \in Int
      <3>1. ahead \in Seq(Token) /\ q.instructions \in Seq(Kinds)
        BY SpecialsPlain DEF Question, Text
      <3>2. \A s \in Seq(Token) : \A x : N(s, x) \in Int
        BY OnlyType, LenProperties DEF N
      <3>3. Len(scrub(q.instructions)) \in Nat
        BY <3>1, ScrubType
      <3>4. PICK t \in Nat : t = HeadTokens[q.kind]
        BY HeadTokensAssumption DEF Question
      <3>5. PICK l \in Nat : l = Len(scrub(q.instructions))
        BY <3>3
      <3>6. Least(Less(8, t), l) \in Int
        BY DEF Least, Less
      <3>7. Least(Less(8, HeadTokens[q.kind]), Len(scrub(q.instructions))) \in Int
        BY <3>4, <3>5, <3>6
      <3>. QED
        BY <2>5, <3>1, <3>2, <3>7
    <2>9. N(ids, <<"question", 0>>) >= Least(Less(8, HeadTokens[q.kind]), Len(scrub(q.instructions)))
      BY <1>4, <2>2, <2>8
    <2>10. ASSUME NEW s \in 1..(n - 1)
           PROVE N(ids, <<"option", order[s] + 1>>)
                   >= Least(3, Len(scrub(render_laya_options(q)[order[s] + 1])))
      <3>1. s \in 1..n
        OBVIOUS
      <3>2. PICK x : x = <<"option", order[s] + 1>>
        OBVIOUS
      <3>3. N(pieces[s], x) >= Least(3, Len(scrub(render_laya_options(q)[order[s] + 1])))
        BY <1>4, <3>1, <3>2 DEF Shows
      <3>4. N(ids, x) >= N(pieces[s], x)
        BY <2>2
      <3>5. N(ids, x) \in Int /\ N(pieces[s], x) \in Int
        BY <2>5, <3>1, ElementOfSeq, OnlyType, LenProperties DEF N
      <3>6. Least(3, Len(scrub(render_laya_options(q)[order[s] + 1]))) \in Int
        <4>1. order[s] + 1 \in 1..n
          <5>1. order \in Seq(0..(n - 1)) /\ Len(order) = n
            BY <1>1, ShownOrderIs
          <5>2. order[s] \in 0..(n - 1)
            BY <3>1, <5>1, ElementOfSeq
          <5>. QED
            BY <5>2
        <4>2. render_laya_options(q)[order[s] + 1] \in Seq(Kinds)
          BY <4>1, RenderedLaya, ElementOfSeq
        <4>3. Len(scrub(render_laya_options(q)[order[s] + 1])) \in Nat
          BY <4>2, ScrubType
        <4>. QED
          BY <4>3 DEF Least
      <3>. QED
        BY <3>2, <3>3, <3>4, <3>5, <3>6
    <2>11. LayaRow(r, q, scrub(state), max_len, n, order)
      <3>1. \A s \in 1..n : /\ r.markers[s] \in 1..Len(r.ids)
                           /\ r.ids[r.markers[s]] = [id |-> "mask", of |-> <<"marker", order[s] + 1>>]
        BY <1>6, <2>2, <2>4
      <3>2. \A p \in 1..Len(r.ids) : r.ids[p].id = "mask" <=> \E s \in 1..n : p = r.markers[s]
        BY <2>2, <2>4
      <3>3. r \in Row /\ Len(r.ids) <= max_len /\ Len(r.markers) = n
        BY <1>15, <2>4, <2>5, <2>6
      <3>. QED
        BY <2>4, <2>7, <2>9, <2>10, <3>1, <3>2, <3>3 DEF LayaRow
    <2>. QED
      BY <1>1, <1>16, <1>18, <2>3, <2>11
  <1>. QED
    BY <1>17, <1>18
=============================================================================
