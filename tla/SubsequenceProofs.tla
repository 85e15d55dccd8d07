------------------------- MODULE SubsequenceProofs -------------------------
(***************************************************************************)
(* Induction and recursion on the natural numbers, and with them what the  *)
(* subsequences of module Subsequences are.                                *)
(***************************************************************************)
EXTENDS Subsequences, SequenceTheorems, FiniteSetTheorems, WellFoundedInduction, TLAPS

-----------------------------------------------------------------------------
(* Induction on the natural numbers.  The induction theorems of the library *)
(* take an operator as a parameter; this one takes a set, and can be cited. *)

\* A set of numbers has a least one: its initial segment is minimal, since
\* inclusion of finite sets is well-founded.
LEMMA Least ==
    ASSUME NEW A \in SUBSET Nat, A # {}
    PROVE  \E m \in A : \A n \in A : m <= n
<1> DEFINE Segments == {0..n : n \in A}
<1>1. Segments \subseteq FiniteSubsetsOf(Nat) /\ Segments # {}
  <2>1. \A n \in A : 0..n \in SUBSET Nat /\ IsFiniteSet(0..n)
    BY FS_Interval
  <2> QED BY <2>1 DEF FiniteSubsetsOf
<1>2. \E X \in Segments : \A Y \in Segments : ~ (<<Y, X>> \in StrictSubsetOrdering(Nat))
  <2> HIDE DEF Segments
  <2> QED BY <1>1, FS_StrictSubsetOrderingWellFounded, WFMin
<1>3. PICK m \in A : \A n \in A : ~ (<<0..n, 0..m>> \in StrictSubsetOrdering(Nat))
  BY <1>2
<1>4. \A n \in A : n < m => <<0..n, 0..m>> \in StrictSubsetOrdering(Nat)
  <2> TAKE n \in A
  <2> HAVE n < m
  <2>1. /\ 0..n \in SUBSET Nat /\ 0..m \in SUBSET Nat
        /\ 0..n \subseteq 0..m /\ m \in 0..m /\ m \notin 0..n
    OBVIOUS
  <2> HIDE DEF Segments
  <2>2. 0..n # 0..m
    BY <2>1
  <2> QED BY <2>1, <2>2, Zenon DEF StrictSubsetOrdering
<1>5. \A n \in A : ~(n < m)
  BY <1>3, <1>4
<1> QED BY <1>5

\* Induction, for a set in place of a predicate.
LEMMA Induction ==
    ASSUME NEW A \in SUBSET Nat, 0 \in A, \A n \in A : n + 1 \in A
    PROVE  Nat \subseteq A
<1> SUFFICES ASSUME Nat \ A # {} PROVE FALSE
  OBVIOUS
<1>1. PICK m \in Nat \ A : \A n \in Nat \ A : m <= n
  BY Least
<1>2. m # 0 /\ m - 1 \in Nat
  OBVIOUS
<1>3. m - 1 \in A
  BY <1>1, <1>2
<1> QED BY <1>1, <1>2, <1>3

-----------------------------------------------------------------------------
(* Recursion on an initial segment of the natural numbers.                 *)

\* f starts with start and goes on by step, N times.
Recurs(f, S, start, N, step) ==
    f \in [0..N -> S] /\ f[0] = start /\ \A n \in 1..N : f[n] = step[n][f[n - 1]]

\* Steps on a set define a function, one value after the other.
LEMMA Recursion ==
    ASSUME NEW S, NEW start \in S, NEW N \in Nat, NEW step \in [1..N -> [S -> S]]
    PROVE  \E f : Recurs(f, S, start, N, step)
<1> DEFINE Good == {m \in Nat : m <= N => \E f : Recurs(f, S, start, m, step)}
<1>1. 0 \in Good
  <2> DEFINE f == [n \in 0..0 |-> start]
  <2>1. f \in [0..0 -> S] /\ f[0] = start /\ 1..0 = {}
    OBVIOUS
  <2> HIDE DEF f
  <2>2. Recurs(f, S, start, 0, step)
    BY <2>1 DEF Recurs
  <2> QED BY <2>2
<1>2. ASSUME NEW m \in Good PROVE m + 1 \in Good
  <2> SUFFICES ASSUME m + 1 <= N PROVE \E f : Recurs(f, S, start, m + 1, step)
    OBVIOUS
  <2>1. m \in Nat /\ m + 1 \in 1..N
    OBVIOUS
  <2>2. PICK f : Recurs(f, S, start, m, step)
    BY <2>1
  <2>3. f \in [0..m -> S] /\ f[0] = start /\ \A n \in 1..m : f[n] = step[n][f[n - 1]]
    BY <2>2 DEF Recurs
  <2> HIDE DEF Good
  <2>4. PICK next \in S : next = step[m + 1][f[m]]
    BY <2>1, <2>3
  <2>5. PICK g : g = [n \in 0..(m + 1) |-> IF n = m + 1 THEN next ELSE f[n]]
    OBVIOUS
  <2>6. /\ \A n \in 0..m : g[n] = f[n]
        /\ g[m + 1] = next
        /\ g \in [0..(m + 1) -> S]
    <3>1. \A n \in 0..(m + 1) : n = m + 1 \/ n \in 0..m
      BY <2>1
    <3>2. \A n \in 0..(m + 1) : (IF n = m + 1 THEN next ELSE f[n]) \in S
      BY <2>3, <2>4, <3>1
    <3>3. g \in [0..(m + 1) -> S]
      BY <2>5, <3>2
    <3>4. m + 1 \in 0..(m + 1) /\ \A n \in 0..m : n \in 0..(m + 1) /\ n # m + 1
      BY <2>1
    <3>5. g[m + 1] = next /\ \A n \in 0..m : g[n] = f[n]
      BY <2>5, <3>4, Zenon
    <3> QED BY <3>3, <3>5
  <2>7. \A n \in 1..(m + 1) : g[n] = step[n][g[n - 1]]
    <3> TAKE n \in 1..(m + 1)
    <3>1. CASE n = m + 1
      <4>1. n - 1 = m /\ m \in 0..m
        BY <2>1, <3>1
      <4> QED BY <2>4, <2>6, <3>1, <4>1
    <3>2. CASE n # m + 1
      <4>1. n \in 1..m /\ n \in 0..m /\ n - 1 \in 0..m
        BY <2>1, <3>2
      <4> QED BY <2>3, <2>6, <4>1
    <3> QED BY <3>1, <3>2
  <2>8. 0 \in 0..m
    BY <2>1
  <2> QED BY <2>3, <2>6, <2>7, <2>8 DEF Recurs
<1>3. Good \subseteq Nat
  OBVIOUS
<1> HIDE DEF Good
<1>4. N \in Good
  BY <1>1, <1>2, <1>3, Induction
<1> QED BY <1>4 DEF Good

\* A function with those values is the one the steps define.
LEMMA RecursionTyped ==
    ASSUME NEW S, NEW start \in S, NEW N \in Nat, NEW step \in [1..N -> [S -> S]], NEW g,
           g = [n \in 0..N |-> g[n]], g[0] = start,
           \A n \in 1..N : g[n - 1] \in S => g[n] = step[n][g[n - 1]]
    PROVE  Recurs(g, S, start, N, step)
<1> DEFINE Good == {n \in Nat : n <= N => g[n] \in S}
<1>1. 0 \in Good
  OBVIOUS
<1>2. ASSUME NEW n \in Good PROVE n + 1 \in Good
  <2> SUFFICES ASSUME n + 1 <= N PROVE g[n + 1] \in S
    OBVIOUS
  <2>1. g[n] \in S /\ n + 1 \in 1..N /\ (n + 1) - 1 = n
    OBVIOUS
  <2> HIDE DEF Good
  <2>2. g[n + 1] = step[n + 1][g[n]]
    BY <2>1
  <2>3. step[n + 1] \in [S -> S]
    BY <2>1
  <2> QED BY <2>1, <2>2, <2>3
<1>3. Good \subseteq Nat
  OBVIOUS
<1> HIDE DEF Good
<1>4. \A n \in 0..N : g[n] \in S
  <2>1. Nat \subseteq Good
    BY <1>1, <1>2, <1>3, Induction
  <2> QED BY <2>1 DEF Good
<1>5. g \in [0..N -> S]
  BY <1>4
<1>6. \A n \in 1..N : n - 1 \in 0..N
  OBVIOUS
<1> QED BY <1>4, <1>5, <1>6 DEF Recurs

-----------------------------------------------------------------------------
(* Subsequences.                                                           *)

\* One step of the recursion in At.
AtStep(s, P, at, n) ==
    IF n = 0 THEN <<>>
    ELSE IF n \in P THEN Append(at[n - 1], s[n]) ELSE at[n - 1]

\* There is a function that meets the recursive definition in At.
LEMMA AtExists ==
    ASSUME NEW s, NEW P, Len(s) \in Nat
    PROVE  \E at : at = [n \in 0..Len(s) |-> AtStep(s, P, at, n)]
<1> DEFINE Good == {m \in Nat : \E at : at = [n \in 0..m |-> AtStep(s, P, at, n)]}
<1>1. 0 \in Good
  <2>1. [n \in 0..0 |-> <<>>] = [n \in 0..0 |-> AtStep(s, P, [i \in 0..0 |-> <<>>], n)]
    BY DEF AtStep
  <2> QED BY <2>1
<1>2. ASSUME NEW m \in Good PROVE m + 1 \in Good
  <2>1. m \in Nat
    OBVIOUS
  <2>2. PICK at : at = [n \in 0..m |-> AtStep(s, P, at, n)]
    OBVIOUS
  <2> DEFINE more == [n \in 0..(m + 1) |-> IF n \in 0..m THEN at[n] ELSE AtStep(s, P, at, m + 1)]
  <2>3. \A n \in 0..(m + 1) : AtStep(s, P, more, n) = AtStep(s, P, at, n)
    BY <2>1 DEF AtStep
  <2>4. \A n \in 0..m : at[n] = AtStep(s, P, at, n)
    BY <2>2
  <2>5. \A n \in 0..(m + 1) : more[n] = AtStep(s, P, more, n)
    <3> TAKE n \in 0..(m + 1)
    <3> HIDE DEF more
    <3>1. more[n] = IF n \in 0..m THEN at[n] ELSE AtStep(s, P, at, m + 1)
      BY DEF more
    <3>2. n \in 0..m \/ n = m + 1
      BY <2>1
    <3> QED BY <2>1, <2>3, <2>4, <3>1, <3>2
  <2>6. more = [n \in 0..(m + 1) |-> AtStep(s, P, more, n)]
    <3> DEFINE rhs == [n \in 0..(m + 1) |-> AtStep(s, P, more, n)]
    <3> HIDE DEF more
    <3>1. DOMAIN rhs = 0..(m+1) /\ \A n \in 0..(m + 1) : rhs[n] = AtStep(s, P, more, n)
      OBVIOUS
    <3>3. more = [n \in 0..(m + 1) |-> more[n]]
      BY Zenon DEF more
    <3> QED BY <2>5, <3>3, Zenon
  <2> HIDE DEF more
  <2>7. m + 1 \in Nat
    BY <2>1
  <2> QED BY <2>6, <2>7
<1> HIDE DEF Good
<1>3. Nat \subseteq Good
  BY <1>1, <1>2, Induction DEF Good
<1> QED BY <1>3 DEF Good

\* At is the last value of such a function.
LEMMA AtEquation ==
    ASSUME NEW s, NEW P, Len(s) \in Nat
    PROVE  \E at : /\ At(s, P) = at[Len(s)]
                     /\ \A n \in 0..Len(s) : at[n] = AtStep(s, P, at, n)
<1> DEFINE at == CHOOSE at : at = [n \in 0..Len(s) |-> AtStep(s, P, at, n)]
<1>1. At(s, P) = at[Len(s)]
  BY DEF At, AtStep
<1>2. at = [n \in 0..Len(s) |-> AtStep(s, P, at, n)]
  BY AtExists
<1> HIDE DEF at
<1>3. \A n \in 0..Len(s) : at[n] = AtStep(s, P, at, n)
  BY <1>2
<1> QED BY <1>1, <1>3

\* k is the first n elements of s that are at positions in P, through g.
Embeds(s, P, n, k, g) ==
    /\ g \in [1..Len(k) -> 1..n]
    /\ \A i, j \in 1..Len(k) : i < j => g[i] < g[j]
    /\ \A i \in 1..Len(k) : k[i] = s[g[i]] /\ g[i] \in P
    /\ \A i \in 1..n : i \in P => \E j \in 1..Len(k) : g[j] = i

\* At is the subsequence of the elements in a set.
LEMMA AtIsSubsequence ==
    ASSUME NEW B, NEW s \in Seq(B), NEW P
    PROVE  /\ At(s, P) \in Seq(B)
           /\ \E g : Embeds(s, P, Len(s), At(s, P), g)
           /\ Len(At(s, P)) <= Len(s)
           /\ (\E i \in 1..Len(s) : i \notin P) => Len(At(s, P)) < Len(s)
<1>1. PICK at : /\ At(s, P) = at[Len(s)]
                  /\ \A n \in 0..Len(s) : at[n] = AtStep(s, P, at, n)
  BY AtEquation
<1> DEFINE Right(n) ==
             /\ at[n] \in Seq(B)
             /\ \E g : Embeds(s, P, n, at[n], g)
             /\ Len(at[n]) <= n
             /\ (\E i \in 1..n : i \notin P) => Len(at[n]) < n
           Good == {n \in Nat : n <= Len(s) => Right(n)}
<1>2. 0 \in Good
  <2>1. at[0] = <<>>
    BY <1>1 DEF AtStep
  <2>2. Embeds(s, P, 0, <<>>, <<>>)
    BY DEF Embeds
  <2>3. Right(0)
    <3>1. <<>> \in Seq(B) /\ Len(<<>>) = 0
      OBVIOUS
    <3> QED BY <2>1, <2>2, <3>1
  <2> QED BY <2>3
<1>3. ASSUME NEW n \in Good PROVE n + 1 \in Good
  <2>1. n \in Nat
    OBVIOUS
  <2> SUFFICES ASSUME n + 1 <= Len(s) PROVE Right(n + 1)
    BY <2>1
  <2>2. Right(n)
    BY <2>1
  <2>3. PICK g : Embeds(s, P, n, at[n], g)
    BY <2>2
  <2>4. at[n + 1] = IF n + 1 \in P THEN Append(at[n], s[n + 1]) ELSE at[n]
    BY <1>1, <2>1 DEF AtStep
  <2>5. PICK old \in Seq(B) : old = at[n]
    BY <2>2
  <2>6. PICK new : new = at[n + 1]
    OBVIOUS
  <2>7. s[n + 1] \in B /\ Len(old) <= n /\ Embeds(s, P, n, old, g)
        /\ ((\E i \in 1..n : i \notin P) => Len(old) < n)
    BY <2>1, <2>2, <2>3, <2>5
  <2>8. new = IF n + 1 \in P THEN Append(old, s[n + 1]) ELSE old
    BY <2>4, <2>5, <2>6
  <2> SUFFICES /\ new \in Seq(B)
               /\ \E h : Embeds(s, P, n + 1, new, h)
               /\ Len(new) <= n + 1
               /\ (\E i \in 1..(n + 1) : i \notin P) => Len(new) < n + 1
    BY <2>6
  <2> HIDE DEF Good, Right
  <2>9. CASE n + 1 \in P
    <3>1. /\ new \in Seq(B) /\ Len(new) = Len(old) + 1
          /\ \A i \in 1..Len(old) : new[i] = old[i]
          /\ new[Len(old) + 1] = s[n + 1]
      BY <2>7, <2>8, <2>9
    <3> DEFINE h == [i \in 1..(Len(old) + 1) |-> IF i = Len(old) + 1 THEN n + 1 ELSE g[i]]
    <3>2. Embeds(s, P, n + 1, new, h)
      <4>1. \A i \in 1..Len(old) : h[i] = g[i] /\ g[i] \in 1..n
        BY <2>7 DEF Embeds
      <4>2. h[Len(old) + 1] = n + 1 /\ DOMAIN h = 1..(Len(old) + 1)
        OBVIOUS
      <4>h. h = [i \in 1..(Len(old) + 1) |-> h[i]]
        BY Zenon
      <4> HIDE DEF h
      <4>3. h \in [1..Len(new) -> 1..(n + 1)]
        <5>1. \A i \in 1..(Len(old) + 1) : h[i] \in 1..(n + 1)
          BY <4>1, <4>2, <2>1
        <5> QED BY <5>1, <4>h, <3>1
      <4>4. \A i, j \in 1..Len(new) : i < j => h[i] < h[j]
        <5> SUFFICES ASSUME NEW i \in 1..(Len(old) + 1), NEW j \in 1..(Len(old) + 1), i < j
                     PROVE  h[i] < h[j]
          BY <3>1
        <5>1. i \in 1..Len(old) /\ h[i] = g[i] /\ g[i] \in 1..n
          BY <4>1, <2>7
        <5>2. CASE j \in 1..Len(old)
          BY <5>1, <5>2, <4>1, <2>7 DEF Embeds
        <5>3. CASE j = Len(old) + 1
          BY <5>1, <5>3, <4>2, <2>1
        <5> QED BY <5>2, <5>3, <2>7
      <4>5. \A i \in 1..Len(new) : new[i] = s[h[i]] /\ h[i] \in P
        <5>1. \A i \in 1..Len(old) : old[i] = s[g[i]] /\ g[i] \in P
          BY <2>7 DEF Embeds
        <5>2. Len(old) \in Nat
          OBVIOUS
        <5> SUFFICES ASSUME NEW i \in 1..Len(new) PROVE new[i] = s[h[i]] /\ h[i] \in P
          OBVIOUS
        <5>3. i \in 1..Len(old) \/ i = Len(old) + 1
          BY <3>1, <5>2
        <5> QED BY <3>1, <4>1, <4>2, <5>1, <5>3, <2>9
      <4>6. \A i \in 1..(n + 1) : i \in P => \E j \in 1..Len(new) : h[j] = i
        BY <3>1, <4>1, <4>2, <2>7, <2>1 DEF Embeds
      <4> QED BY <4>3, <4>4, <4>5, <4>6 DEF Embeds
    <3> HIDE DEF h
    <3>3. (\E i \in 1..(n + 1) : i \notin P) => \E i \in 1..n : i \notin P
      BY <2>9, <2>1
    <3> QED BY <3>1, <3>2, <3>3, <2>7, <2>1
  <2>10. CASE n + 1 \notin P
    <3>1. Embeds(s, P, n + 1, old, g)
      <4>1. \A i \in 1..Len(old) : g[i] \in 1..(n + 1)
        BY <2>7, <2>1 DEF Embeds
      <4> QED BY <4>1, <2>7, <2>10, <2>1 DEF Embeds
    <3> QED BY <3>1, <2>7, <2>8, <2>10, <2>1
  <2> QED BY <2>9, <2>10
<1> HIDE DEF Good
<1>4. Good \subseteq Nat
  BY DEF Good
<1>5. Nat \subseteq Good
  BY <1>2, <1>3, <1>4, Induction
<1>6. Len(s) \in Nat
  OBVIOUS
<1>7. Right(Len(s))
  BY <1>5, <1>6 DEF Good
<1> QED BY <1>1, <1>7 DEF Right

\* All positions: the sequence as it is.
LEMMA AtAll ==
    ASSUME NEW B, NEW s \in Seq(B), NEW P, \A i \in 1..Len(s) : i \in P
    PROVE  At(s, P) = s
<1>1. PICK at : /\ At(s, P) = at[Len(s)]
                  /\ \A n \in 0..Len(s) : at[n] = AtStep(s, P, at, n)
  BY AtEquation
<1> DEFINE Good == {n \in Nat : n <= Len(s) => at[n] = SubSeq(s, 1, n)}
<1>2. 0 \in Good
  <2>1. at[0] = <<>>
    <3> HIDE DEF Good
    <3>1. 0 \in 0..Len(s) /\ AtStep(s, P, at, 0) = <<>>
      BY DEF AtStep
    <3> QED BY <1>1, <3>1
  <2>2. SubSeq(s, 1, 0) = <<>>
    <3> HIDE DEF Good
    <3>1. 1 \in Int /\ 0 \in Int /\ 0 < 1
      OBVIOUS
    <3> QED BY <3>1, SubSeqEmpty
  <2> QED BY <2>1, <2>2
<1>3. ASSUME NEW n \in Good PROVE n + 1 \in Good
  <2> SUFFICES ASSUME n + 1 <= Len(s) PROVE at[n + 1] = SubSeq(s, 1, n + 1)
    OBVIOUS
  <2>1. n \in Nat /\ at[n] = SubSeq(s, 1, n)
    OBVIOUS
  <2> HIDE DEF Good
  <2>3. \A i \in 1..(n + 1) : i \in 1..Len(s) /\ s[i] \in B
    BY <2>1
  <2>2. at[n + 1] = Append(SubSeq(s, 1, n), s[n + 1])
    <3>1. n + 1 \in 0..Len(s) /\ n + 1 # 0 /\ n + 1 \in P /\ (n + 1) - 1 = n
      BY <2>1, <2>3
    <3>2. at[n + 1] = AtStep(s, P, at, n + 1)
      BY <1>1, <3>1, Zenon
    <3>3. AtStep(s, P, at, n + 1) = Append(at[(n + 1) - 1], s[n + 1])
      <4>1. \A m : m # 0 /\ m \in P => AtStep(s, P, at, m) = Append(at[m - 1], s[m])
        BY DEF AtStep
      <4> QED BY <3>1, <4>1, Zenon
    <3>4. at[(n + 1) - 1] = at[n]
      BY <3>1, Zenon
    <3> QED BY <2>1, <3>2, <3>3, <3>4, Zenon
  <2>4. PICK x \in Seq(B) : /\ x = SubSeq(s, 1, n) /\ Len(x) = n
                            /\ \A i \in 1..n : x[i] = s[i]
    <3>1. \A i \in 1..n : i \in 1..Len(s)
      BY <2>1, <2>3
    <3>2. SubSeq(s, 1, n) \in Seq(B)
      BY <3>1, <2>1, SubSeqProperties
    <3>3. \A m \in Nat : m <= Len(s) =>
             Len(SubSeq(s, 1, m)) = m /\ \A i \in 1..m : SubSeq(s, 1, m)[i] = s[i]
      OBVIOUS
    <3>4. n <= Len(s)
      BY <2>1
    <3> QED BY <2>1, <3>2, <3>3, <3>4
  <2>5. PICK y \in Seq(B) : /\ y = SubSeq(s, 1, n + 1) /\ Len(y) = n + 1
                            /\ \A i \in 1..(n + 1) : y[i] = s[i]
    <3>1. 1 \in 1..Len(s) + 1 /\ n + 1 \in 0..Len(s) /\ 1 <= n + 1 + 1
      BY <2>1
    <3>2. \A i \in 1..(n + 1) : i \in 1..Len(s)
      BY <2>3
    <3>3. SubSeq(s, 1, n + 1) \in Seq(B)
      BY <2>3, <2>1, SubSeqProperties
    <3>4. \A m \in Nat : m <= Len(s) => 
             Len(SubSeq(s, 1, m)) = m /\ \A i \in 1..m : SubSeq(s, 1, m)[i] = s[i]
      OBVIOUS
    <3>5. n + 1 \in Nat
      BY <2>1
    <3> QED BY <3>3, <3>4, <3>5
  <2>6. Append(x, s[n + 1]) = y
    BY <2>1, <2>3, <2>4, <2>5
  <2> QED BY <2>2, <2>4, <2>5, <2>6
<1> HIDE DEF Good
<1>4. Good \subseteq Nat /\ Len(s) \in Nat
  BY DEF Good
<1>5. Len(s) \in Good
  BY <1>2, <1>3, <1>4, Induction
<1>6. SubSeq(s, 1, Len(s)) = s
  OBVIOUS
<1> QED BY <1>1, <1>5, <1>6 DEF Good

\* What Kept keeps are the elements in the set, in their order.
LEMMA KeptIsSubsequence ==
    ASSUME NEW B, NEW s \in Seq(B), NEW A
    PROVE  /\ Kept(s, A) \in Seq(B)
           /\ \E g : Embeds(s, {i \in DOMAIN s : s[i] \in A}, Len(s), Kept(s, A), g)
           /\ Len(Kept(s, A)) <= Len(s)
           /\ (\E i \in 1..Len(s) : s[i] \notin A) => Len(Kept(s, A)) < Len(s)
<1>1. PICK P : P = {i \in DOMAIN s : s[i] \in A}
  OBVIOUS
<1>2. \A i \in 1..Len(s) : s[i] \notin A => i \notin P
  BY <1>1
<1>3. /\ At(s, P) \in Seq(B)
      /\ \E g : Embeds(s, P, Len(s), At(s, P), g)
      /\ Len(At(s, P)) <= Len(s)
      /\ (\E i \in 1..Len(s) : i \notin P) => Len(At(s, P)) < Len(s)
  BY AtIsSubsequence
<1>4. Kept(s, A) = At(s, P)
  BY <1>1 DEF Kept
<1> QED BY <1>1, <1>2, <1>3, <1>4

\* What is left is a sequence of what was there and is in the set.
LEMMA KeptElements ==
    ASSUME NEW B, NEW s \in Seq(B), NEW A
    PROVE  /\ \A i \in DOMAIN Kept(s, A) :
                 Kept(s, A)[i] \in A /\ \E j \in DOMAIN s : s[j] = Kept(s, A)[i]
           /\ \A j \in DOMAIN s : s[j] \in A =>
                 \E i \in DOMAIN Kept(s, A) : Kept(s, A)[i] = s[j]
<1>a. PICK k \in Seq(B) : k = Kept(s, A)
  BY KeptIsSubsequence
<1>b. PICK g : Embeds(s, {i \in DOMAIN s : s[i] \in A}, Len(s), k, g)
  BY <1>a, KeptIsSubsequence
<1>3. DOMAIN s = 1..Len(s) /\ DOMAIN k = 1..Len(k)
  OBVIOUS
<1>1. \A i \in 1..Len(k) : k[i] \in A /\ g[i] \in 1..Len(s) /\ k[i] = s[g[i]]
  BY <1>b DEF Embeds
<1>2. \A j \in 1..Len(s) : s[j] \in A => \E i \in 1..Len(k) : k[i] = s[j]
  BY <1>1, <1>3, <1>b DEF Embeds
<1> QED BY <1>a, <1>1, <1>2, <1>3

\* Elements that are kept stay in their order.
LEMMA KeptOrder ==
    ASSUME NEW B, NEW s \in Seq(B), NEW A,
           NEW i \in DOMAIN Kept(s, A), NEW j \in DOMAIN Kept(s, A), i < j
    PROVE  \E m, n \in DOMAIN s : m < n /\ s[m] = Kept(s, A)[i] /\ s[n] = Kept(s, A)[j]
<1>a. PICK k \in Seq(B) : k = Kept(s, A)
  BY KeptIsSubsequence
<1>b. PICK g : Embeds(s, {m \in DOMAIN s : s[m] \in A}, Len(s), k, g)
  BY <1>a, KeptIsSubsequence
<1>1. i \in 1..Len(k) /\ j \in 1..Len(k) /\ DOMAIN s = 1..Len(s)
  BY <1>a
<1>2. /\ g[i] \in 1..Len(s) /\ g[j] \in 1..Len(s) /\ g[i] < g[j]
      /\ k[i] = s[g[i]] /\ k[j] = s[g[j]]
  BY <1>1, <1>b DEF Embeds
<1> QED BY <1>a, <1>1, <1>2

\* Two elements that are kept stay two.
LEMMA KeptApart ==
    ASSUME NEW B, NEW s \in Seq(B), NEW A, NEW m \in DOMAIN s, NEW n \in DOMAIN s,
           m # n, s[m] \in A, s[n] \in A
    PROVE  \E i, j \in DOMAIN Kept(s, A) : i # j /\ Kept(s, A)[i] = s[m] /\ Kept(s, A)[j] = s[n]
<1>a. PICK k \in Seq(B) : k = Kept(s, A)
  BY KeptIsSubsequence
<1>b. PICK g : Embeds(s, {l \in DOMAIN s : s[l] \in A}, Len(s), k, g)
  BY <1>a, KeptIsSubsequence
<1>1. DOMAIN s = 1..Len(s) /\ DOMAIN k = 1..Len(k)
  OBVIOUS
<1>2. PICK i \in 1..Len(k) : g[i] = m
  BY <1>1, <1>b DEF Embeds
<1>3. PICK j \in 1..Len(k) : g[j] = n
  BY <1>1, <1>b DEF Embeds
<1>4. i # j /\ k[i] = s[m] /\ k[j] = s[n]
  BY <1>2, <1>3, <1>b DEF Embeds
<1> QED BY <1>a, <1>1, <1>4

\* What is all in the set is kept as it is.
LEMMA KeptAll ==
    ASSUME NEW B, NEW s \in Seq(B), NEW A, \A i \in 1..Len(s) : s[i] \in A
    PROVE  Kept(s, A) = s
BY AtAll DEF Kept

\* The elements of a sequence.
Values(s) == {s[i] : i \in DOMAIN s}

\* The elements of a subsequence are the ones at its positions.
LEMMA AtElements ==
    ASSUME NEW B, NEW s \in Seq(B), NEW P, P \subseteq 1..Len(s)
    PROVE  Values(At(s, P)) = {s[i] : i \in P}
<1>1. PICK k \in Seq(B) : k = At(s, P)
  BY AtIsSubsequence
<1>2. PICK g : Embeds(s, P, Len(s), k, g)
  BY <1>1, AtIsSubsequence
<1>3. DOMAIN k = 1..Len(k)
  OBVIOUS
<1>4. \A i \in 1..Len(k) : k[i] = s[g[i]] /\ g[i] \in P
  BY <1>2 DEF Embeds
<1>5. \A i \in P : \E j \in 1..Len(k) : g[j] = i
  BY <1>2 DEF Embeds
<1>6. \A i \in P : \E j \in 1..Len(k) : k[j] = s[i]
  BY <1>4, <1>5
<1>7. \A i \in 1..Len(k) : \E j \in P : k[i] = s[j]
  BY <1>4
<1>8. Values(k) = {s[i] : i \in P}
  BY <1>3, <1>6, <1>7 DEF Values
<1> QED BY <1>1, <1>8

\* at[n] is what At takes from the first n elements.
IsAt(at, s, P) ==
    /\ at[0] = <<>>
    /\ \A n \in 1..Len(s) : at[n] = IF n \in P THEN Append(at[n - 1], s[n]) ELSE at[n - 1]

\* The recursive definition in At is met.
LEMMA AtUnfolds ==
    ASSUME NEW s, NEW P, Len(s) \in Nat
    PROVE  \E at : IsAt(at, s, P) /\ At(s, P) = at[Len(s)]
<1>1. PICK at : /\ At(s, P) = at[Len(s)]
                /\ \A n \in 0..Len(s) : at[n] = AtStep(s, P, at, n)
  BY AtEquation
<1>2. 0 \in 0..Len(s) /\ \A n \in 1..Len(s) : n \in 0..Len(s) /\ n # 0
  OBVIOUS
<1>3. IsAt(at, s, P)
  BY <1>1, <1>2, Zenon DEF IsAt, AtStep
<1> QED BY <1>1, <1>3

\* Later elements come behind what the first m have left.
Extends(old, new, s, m, n) ==
    /\ Len(old) <= Len(new)
    /\ \A i \in 1..Len(old) : new[i] = old[i]
    /\ \A i \in (Len(old) + 1)..Len(new) : \E j \in (m + 1)..n : new[i] = s[j]

\* What At takes later comes behind what it took before.
LEMMA AtExtends ==
    ASSUME NEW B, NEW s \in Seq(B), NEW P, NEW at, IsAt(at, s, P),
           NEW m \in Nat, m <= Len(s), at[m] \in Seq(B)
    PROVE  at[Len(s)] \in Seq(B) /\ Extends(at[m], at[Len(s)], s, m, Len(s))
<1> DEFINE Right(n) == at[n] \in Seq(B) /\ Extends(at[m], at[n], s, m, n)
           Good == {n \in Nat : m <= n /\ n <= Len(s) => Right(n)}
<1>0. PICK old \in Seq(B) : old = at[m]
  OBVIOUS
<1>1. Right(m)
  BY <1>0 DEF Extends
<1>2. 0 \in Good
  BY <1>1
<1>3. ASSUME NEW n \in Good PROVE n + 1 \in Good
  <2>0. n \in Nat
    OBVIOUS
  <2> SUFFICES ASSUME m <= n + 1, n + 1 <= Len(s) PROVE Right(n + 1)
    BY <2>0
  <2>1. CASE m = n + 1
    BY <1>1, <2>1
  <2>2. CASE m # n + 1
    <3>1. Right(n) /\ n + 1 \in 1..Len(s) /\ (n + 1) - 1 = n
      BY <2>0, <2>2
    <3>2. PICK new \in Seq(B) : new = at[n]
      BY <3>1
    <3>3. Extends(old, new, s, m, n)
      BY <1>0, <3>1, <3>2
    <3> HIDE DEF Good, Right
    <3>4. at[n + 1] = IF n + 1 \in P THEN Append(new, s[n + 1]) ELSE new
      BY <3>1, <3>2 DEF IsAt
    <3>5. s[n + 1] \in B
      BY <3>1
    <3>6. CASE n + 1 \in P
      <4>1. PICK more \in Seq(B) : more = Append(new, s[n + 1])
        <5>1. Append(new, s[n + 1]) \in Seq(B)
          BY <3>5
        <5> QED BY <5>1
      <4>2. /\ Len(more) = Len(new) + 1 /\ more[Len(new) + 1] = s[n + 1]
            /\ \A i \in 1..Len(new) : more[i] = new[i]
            /\ Len(new) \in Nat /\ Len(old) \in Nat
        BY <3>5, <4>1
      <4>3. Len(old) <= Len(more) /\ \A i \in 1..Len(old) : more[i] = old[i]
        BY <3>3, <4>2 DEF Extends
      <4>4. ASSUME NEW i \in (Len(old) + 1)..Len(more)
            PROVE  \E j \in (m + 1)..(n + 1) : more[i] = s[j]
        <5>1. CASE i = Len(new) + 1
          <6>1. n + 1 \in (m + 1)..(n + 1)
            BY <2>0, <2>2
          <6> QED BY <4>2, <5>1, <6>1
        <5>2. CASE i # Len(new) + 1
          <6>1. i \in (Len(old) + 1)..Len(new) /\ i \in 1..Len(new)
            BY <4>2, <5>2
          <6>2. PICK j \in (m + 1)..n : new[i] = s[j]
            BY <3>3, <6>1 DEF Extends
          <6>3. j \in (m + 1)..(n + 1)
            BY <2>0
          <6> QED BY <4>2, <6>1, <6>2, <6>3
        <5> QED BY <5>1, <5>2
      <4>5. Extends(old, more, s, m, n + 1)
        BY <4>3, <4>4 DEF Extends
      <4> QED BY <1>0, <3>4, <3>6, <4>1, <4>5 DEF Right
    <3>7. CASE n + 1 \notin P
      <4>1. \A j \in (m + 1)..n : j \in (m + 1)..(n + 1)
        BY <2>0
      <4>2. Extends(old, new, s, m, n + 1)
        BY <3>3, <4>1 DEF Extends
      <4> QED BY <1>0, <3>2, <3>4, <3>7, <4>2 DEF Right
    <3> QED BY <3>6, <3>7
  <2> QED BY <2>1, <2>2
<1>4. Good \subseteq Nat
  OBVIOUS
<1> HIDE DEF Good
<1>5. Len(s) \in Nat
  OBVIOUS
<1>6. Len(s) \in Good
  BY <1>2, <1>3, <1>4, <1>5, Induction
<1> QED BY <1>5, <1>6 DEF Good, Right

\* Sequences that agree in their first m elements, and in which of these are
\* taken, agree in what these leave.
LEMMA AtAgree ==
    ASSUME NEW B, NEW s \in Seq(B), NEW t \in Seq(B), NEW P, NEW Q,
           NEW m \in Nat, m <= Len(s), m <= Len(t),
           \A i \in 1..m : (i \in P <=> i \in Q) /\ s[i] = t[i]
    PROVE  \E old \in Seq(B) : /\ Extends(old, At(s, P), s, m, Len(s))
                              /\ Extends(old, At(t, Q), t, m, Len(t))
<1>1. PICK a : IsAt(a, s, P) /\ At(s, P) = a[Len(s)]
  BY AtUnfolds
<1>2. PICK b : IsAt(b, t, Q) /\ At(t, Q) = b[Len(t)]
  BY AtUnfolds
<1> DEFINE Same == {n \in Nat : n <= m => a[n] = b[n] /\ a[n] \in Seq(B)}
<1>3. 0 \in Same
  BY <1>1, <1>2, EmptySeq DEF IsAt
<1>4. ASSUME NEW n \in Same PROVE n + 1 \in Same
  <2> SUFFICES ASSUME n + 1 <= m PROVE a[n + 1] = b[n + 1] /\ a[n + 1] \in Seq(B)
    OBVIOUS
  <2>1. /\ n + 1 \in 1..m /\ n + 1 \in 1..Len(s) /\ n + 1 \in 1..Len(t) /\ (n + 1) - 1 = n
        /\ a[n] = b[n] /\ a[n] \in Seq(B)
    OBVIOUS
  <2>2. PICK x \in Seq(B) : x = a[n] /\ x = b[n]
    BY <2>1
  <2> HIDE DEF Same
  <2>3. a[n + 1] = IF n + 1 \in P THEN Append(x, s[n + 1]) ELSE x
    BY <1>1, <2>1, <2>2 DEF IsAt
  <2>4. b[n + 1] = IF n + 1 \in Q THEN Append(x, t[n + 1]) ELSE x
    BY <1>2, <2>1, <2>2 DEF IsAt
  <2>5. (n + 1 \in P <=> n + 1 \in Q) /\ s[n + 1] = t[n + 1] /\ s[n + 1] \in B
    BY <2>1
  <2>6. Append(x, s[n + 1]) \in Seq(B)
    BY <2>5
  <2> QED BY <2>3, <2>4, <2>5, <2>6
<1>5. Same \subseteq Nat
  OBVIOUS
<1> HIDE DEF Same
<1>6. m \in Same
  BY <1>3, <1>4, <1>5, Induction
<1>7. PICK old \in Seq(B) : old = a[m] /\ old = b[m]
  BY <1>6 DEF Same
<1>8. Extends(old, At(s, P), s, m, Len(s))
  BY <1>1, <1>7, AtExtends
<1>9. Extends(old, At(t, Q), t, m, Len(t))
  BY <1>2, <1>7, AtExtends
<1> QED BY <1>8, <1>9

\* The first m elements.
LEMMA AtStart ==
    ASSUME NEW B, NEW s \in Seq(B), NEW P, NEW m \in Nat, m <= Len(s),
           \A i \in 1..Len(s) : i \in P <=> i <= m
    PROVE  Len(At(s, P)) = m /\ \A i \in 1..m : At(s, P)[i] = s[i]
<1>1. PICK a : IsAt(a, s, P) /\ At(s, P) = a[Len(s)]
  BY AtUnfolds
<1> DEFINE Right(n) == /\ a[n] \in Seq(B)
                       /\ Len(a[n]) = IF n <= m THEN n ELSE m
                       /\ \A i \in 1..Len(a[n]) : a[n][i] = s[i]
           Good == {n \in Nat : n <= Len(s) => Right(n)}
<1>2. 0 \in Good
  <2>1. PICK none \in Seq(B) : none = a[0] /\ Len(none) = 0
    BY <1>1, EmptySeq DEF IsAt
  <2>2. Right(0)
    BY <2>1
  <2> HIDE DEF Right
  <2> QED BY <2>2
<1>3. ASSUME NEW n \in Good PROVE n + 1 \in Good
  <2>0. n \in Nat
    OBVIOUS
  <2> SUFFICES ASSUME n + 1 <= Len(s) PROVE Right(n + 1)
    BY <2>0
  <2>1. Right(n) /\ n + 1 \in 1..Len(s) /\ (n + 1) - 1 = n
    BY <2>0
  <2>2. PICK x \in Seq(B) : /\ x = a[n] /\ Len(x) = (IF n <= m THEN n ELSE m)
                            /\ \A i \in 1..Len(x) : x[i] = s[i]
    BY <2>1
  <2> HIDE DEF Good, Right
  <2>3. a[n + 1] = IF n + 1 \in P THEN Append(x, s[n + 1]) ELSE x
    BY <1>1, <2>1, <2>2 DEF IsAt
  <2>4. CASE n + 1 <= m
    <3>1. PICK y : y = Append(x, s[n + 1])
      OBVIOUS
    <3>2. s[n + 1] \in B /\ Len(x) = n
      BY <2>0, <2>1, <2>2, <2>4
    <3>3. y \in Seq(B) /\ Len(y) = n + 1 /\ y[n + 1] = s[n + 1] /\ \A i \in 1..n : y[i] = x[i]
      BY <2>0, <3>1, <3>2
    <3>4. \A i \in 1..(n + 1) : y[i] = s[i]
      <4>1. \A i \in 1..(n + 1) : i = n + 1 \/ i \in 1..n
        BY <2>0
      <4> QED BY <2>2, <3>2, <3>3, <4>1
    <3>5. a[n + 1] = y
      BY <2>1, <2>3, <2>4, <3>1
    <3> QED BY <2>4, <3>3, <3>4, <3>5 DEF Right
  <2>5. CASE ~ (n + 1 <= m)
    <3>1. a[n + 1] = x /\ Len(x) = m
      BY <2>0, <2>1, <2>2, <2>3, <2>5
    <3> QED BY <2>2, <2>5, <3>1 DEF Right
  <2> QED BY <2>4, <2>5
<1>4. Good \subseteq Nat
  OBVIOUS
<1> HIDE DEF Good
<1>5. Len(s) \in Nat
  OBVIOUS
<1>6. Len(s) \in Good
  BY <1>2, <1>3, <1>4, <1>5, Induction
<1>7. Right(Len(s))
  BY <1>5, <1>6 DEF Good
<1>8. PICK x : x = a[Len(s)]
  OBVIOUS
<1>9. Len(x) = (IF Len(s) <= m THEN Len(s) ELSE m) /\ \A i \in 1..Len(x) : x[i] = s[i]
  BY <1>7, <1>8
<1>10. Len(x) = m
  BY <1>5, <1>9
<1> QED BY <1>1, <1>8, <1>9, <1>10

=============================================================================
