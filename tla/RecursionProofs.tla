-------------------------- MODULE RecursionProofs --------------------------
(***************************************************************************)
(* Induction over the naturals, stated with sets and functions, and what   *)
(* follows from it about functions that are defined by recursion: there is *)
(* one, so that the equation that defines it holds of it.  And of one such *)
(* function, that puts a list of lists together.                           *)
(***************************************************************************)
EXTENDS Integers, SequencesExt, FiniteSetTheorems, SequenceTheorems, WellFoundedInduction, TLAPS

(***************************************************************************)
(* A set of natural numbers that is not empty has a least element.         *)
(***************************************************************************)
LEMMA Least ==
  ASSUME NEW T \in SUBSET Nat, T # {}
  PROVE  \E x \in T : \A y \in T : x <= y
<1> DEFINE R == OpToRel(<, Nat)
<1>1. IsWellFoundedOn(R, Nat) BY NatLessThanWellFounded, Zenon
<1>2. \A x, y \in Nat : x < y => <<x, y>> \in R BY DEF OpToRel
<1> HIDE DEF R
<1>3. PICK x \in T : \A y \in T : ~ (<<y, x>> \in R) BY <1>1, WFMin
<1>4. \A y \in T : ~ (y < x) BY <1>2, <1>3
<1>5. \A y \in T : x <= y BY <1>4
<1> QED BY <1>5

(***************************************************************************)
(* Induction: a set that has 0, and with each number the next, has all.    *)
(***************************************************************************)
LEMMA Naturals ==
  ASSUME NEW S, 0 \in S, \A n \in Nat : n \in S => n + 1 \in S
  PROVE  \A n \in Nat : n \in S
<1> DEFINE T == Nat \ S
<1> SUFFICES ASSUME T # {} PROVE FALSE OBVIOUS
<1>1. PICK x \in T : \A y \in T : x <= y BY Least
<1>2. x # 0 OBVIOUS
<1>3. x - 1 \in Nat /\ x - 1 \notin T BY <1>1, <1>2
<1> QED BY <1>3

\* The sets that have the number before each of theirs.
Initial(D) == D \in SUBSET Nat /\ 0 \in D /\ \A n \in D : n # 0 => n - 1 \in D

\* What is defined by the value at 0 and a step from each value to the next.
Follows(f, D, start, step) ==
  f = [n \in D |-> IF n = 0 THEN start ELSE step[<<n, f[n - 1]>>]]

(***************************************************************************)
(* A definition by recursion has one function that satisfies it.           *)
(***************************************************************************)
LEMMA Recursion ==
  ASSUME NEW D, Initial(D), NEW V, NEW start \in V, NEW step \in [Nat \X V -> V]
  PROVE  \E f \in [D -> V] : Follows(f, D, start, step)
<1> DEFINE Upto(n) == {k \in D : k <= n}
           Has(n, f) == f \in [Upto(n) -> V] /\ Follows(f, Upto(n), start, step)
           S == {n \in Nat : n \in D => \E f : Has(n, f)}
<1>0. D \in SUBSET Nat /\ 0 \in D /\ \A n \in D : n # 0 => n - 1 \in D BY DEF Initial
<1>1. 0 \in S
  <2>1. Upto(0) = {0}
    <3>1. \A k \in D : k \in Nat BY <1>0
    <3>2. \A k \in D : k <= 0 <=> k = 0 BY <3>1
    <3> QED BY <3>2, <1>0
  <2> DEFINE f == [n \in Upto(0) |-> start]
  <2>2. f \in [Upto(0) -> V] OBVIOUS
  <2>3. f = [n \in Upto(0) |-> IF n = 0 THEN start ELSE step[<<n, f[n - 1]>>]]
    BY <2>1
  <2>4. Has(0, f) BY <2>2, <2>3 DEF Follows
  <2> HIDE DEF f, Has
  <2> QED BY <2>4
<1>2. ASSUME NEW n \in Nat, n \in S PROVE n + 1 \in S
  <2> SUFFICES ASSUME n + 1 \in D PROVE \E f : Has(n + 1, f)
    <3> HIDE DEF Has
    <3> QED OBVIOUS
  <2>1. n \in D BY <1>0
  <2>2. PICK f : Has(n, f) BY <1>2, <2>1
  <2> DEFINE g == [k \in Upto(n + 1) |-> IF k = n + 1 THEN step[<<n + 1, f[n]>>] ELSE f[k]]
  <2>3. \A k \in Upto(n + 1) : k = n + 1 \/ k \in Upto(n) BY <1>0
  <2>4. n \in Upto(n) /\ n + 1 \in Upto(n + 1) BY <1>0, <2>1
  <2>5. f \in [Upto(n) -> V] /\ f[n] \in V BY <2>2, <2>4
  <2>6. g \in [Upto(n + 1) -> V] BY <2>3, <2>5
  <2>7. ASSUME NEW k \in Upto(n + 1)
        PROVE  g[k] = IF k = 0 THEN start ELSE step[<<k, g[k - 1]>>]
    <3>1. CASE k = n + 1
      <4>1. n \in Upto(n + 1) /\ n # n + 1 BY <1>0, <2>1
      <4>2. g[n] = f[n] BY <4>1
      <4>3. g[k] = step[<<n + 1, f[n]>>] BY <3>1, <2>4
      <4>4. k # 0 /\ k - 1 = n BY <3>1
      <4> QED BY <4>2, <4>3, <4>4, <3>1
    <3>2. CASE k # n + 1
      <4>1. k \in Upto(n) BY <3>2, <2>3
      <4>2. f[k] = IF k = 0 THEN start ELSE step[<<k, f[k - 1]>>]
        BY <4>1, <2>2 DEF Follows
      <4>3. g[k] = f[k] BY <3>2
      <4>4. ASSUME k # 0 PROVE g[k - 1] = f[k - 1]
        BY <4>1, <4>4, <1>0
      <4> QED BY <4>2, <4>3, <4>4
    <3> QED BY <3>1, <3>2
  <2>8. g = [k \in Upto(n + 1) |-> IF k = 0 THEN start ELSE step[<<k, g[k - 1]>>]]
    <3> HIDE DEF g
    <3> QED BY <2>6, <2>7
  <2>9. Has(n + 1, g) BY <2>6, <2>8 DEF Follows
  <2> HIDE DEF Has, g
  <2> QED BY <2>9
<1>3. \A n \in Nat : n \in S
  <2> HIDE DEF S
  <2> QED BY <1>1, <1>2, Naturals
<1> DEFINE F(n) == CHOOSE f : Has(n, f)
           h == [n \in D |-> F(n)[n]]
<1>4. ASSUME NEW n \in D PROVE Has(n, F(n))
  <2>1. \E f : Has(n, f) BY <1>0, <1>3
  <2> HIDE DEF Has
  <2> QED BY <2>1
<1>5. ASSUME NEW n \in D PROVE F(n)[n] \in V
  <2>1. F(n) \in [Upto(n) -> V] BY <1>4
  <2>2. n \in Upto(n) BY <1>0
  <2> HIDE DEF F
  <2> QED BY <2>1, <2>2
<1>6. ASSUME NEW n \in D, n # 0
      PROVE  \A k \in Upto(n - 1) : F(n)[k] = F(n - 1)[k]
  <2> DEFINE f == F(n)
             g == F(n - 1)
             A == {k \in Nat : k \in Upto(n - 1) => f[k] = g[k]}
  <2>1. n - 1 \in D BY <1>0, <1>6
  <2>2. Has(n, f) BY <1>4
  <2>3. Has(n - 1, g) BY <1>4, <2>1
  <2>4. \A k \in Upto(n - 1) : k \in Upto(n) BY <1>0
  <2> HIDE DEF f, g
  <2>5. \A k \in Upto(n) : f[k] = IF k = 0 THEN start ELSE step[<<k, f[k - 1]>>]
    BY <2>2 DEF Follows
  <2>6. \A k \in Upto(n - 1) : g[k] = IF k = 0 THEN start ELSE step[<<k, g[k - 1]>>]
    BY <2>3 DEF Follows
  <2>7. 0 \in A BY <2>4, <2>5, <2>6
  <2>8. ASSUME NEW k \in Nat, k \in A PROVE k + 1 \in A
    <3> SUFFICES ASSUME k + 1 \in Upto(n - 1) PROVE f[k + 1] = g[k + 1] OBVIOUS
    <3>1. k \in Upto(n - 1) BY <1>0
    <3>2. f[k] = g[k] BY <3>1, <2>8
    <3>3. k + 1 # 0 /\ (k + 1) - 1 = k OBVIOUS
    <3>4. f[k + 1] = step[<<k + 1, f[(k + 1) - 1]>>] BY <2>4, <2>5, <3>3
    <3>5. g[k + 1] = step[<<k + 1, g[(k + 1) - 1]>>] BY <2>6, <3>3
    <3> QED BY <3>2, <3>3, <3>4, <3>5
  <2>9. \A k \in Nat : k \in A
    <3> HIDE DEF A
    <3> QED BY <2>7, <2>8, Naturals
  <2> QED BY <2>9, <1>0 DEF f, g
<1>7. ASSUME NEW n \in D
      PROVE  h[n] = IF n = 0 THEN start ELSE step[<<n, h[n - 1]>>]
  <2>1. n \in Upto(n) BY <1>0
  <2>2. Has(n, F(n)) BY <1>4
  <2>3. F(n)[n] = IF n = 0 THEN start ELSE step[<<n, F(n)[n - 1]>>]
    <3> HIDE DEF F
    <3> QED BY <2>1, <2>2 DEF Follows
  <2>4. ASSUME n # 0 PROVE F(n)[n - 1] = F(n - 1)[n - 1] /\ n - 1 \in D
    <3>1. n - 1 \in D BY <1>0, <2>4
    <3>2. n - 1 \in Upto(n - 1) BY <3>1, <1>0
    <3> HIDE DEF F, Upto
    <3> QED BY <3>1, <3>2, <1>6, <2>4
  <2> HIDE DEF F
  <2> QED BY <2>3, <2>4
<1>8. h \in [D -> V] BY <1>5
<1>9. h = [n \in D |-> IF n = 0 THEN start ELSE step[<<n, h[n - 1]>>]]
  <2> HIDE DEF h
  <2> QED BY <1>7, <1>8
<1> HIDE DEF h
<1> QED BY <1>8, <1>9 DEF Follows

-----------------------------------------------------------------------------
(***************************************************************************)
(* What FlattenSeq makes of a list of lists.                               *)
(***************************************************************************)
Flattens(f, s) == f = [i \in 1 .. Len(s) |-> IF i = 1 THEN s[i] ELSE f[i - 1] \o s[i]]

Flattened(s) == CHOOSE f : Flattens(f, s)

LEMMA FlattenedSteps ==
  ASSUME NEW S, NEW s \in Seq(Seq(S)), Len(s) # 0
  PROVE  /\ FlattenSeq(s) = Flattened(s)[Len(s)]
         /\ Flattened(s)[1] = s[1]
         /\ \A i \in 2 .. Len(s) : Flattened(s)[i] = Flattened(s)[i - 1] \o s[i]
         /\ \A i \in 1 .. Len(s) : Flattened(s)[i] \in Seq(S)
<1> DEFINE n == Len(s)
           D == 0 .. n - 1
           L == Seq(S)
           step == [x \in Nat \X L |-> IF x[1] + 1 \in 1 .. n THEN x[2] \o s[x[1] + 1] ELSE x[2]]
<1>1. n \in Nat /\ n # 0 /\ \A i \in 1 .. n : s[i] \in L BY ElementOfSeq, LenProperties
<1>2. step \in [Nat \X L -> L]
  <2>1. ASSUME NEW x \in Nat \X L
        PROVE  (IF x[1] + 1 \in 1 .. n THEN x[2] \o s[x[1] + 1] ELSE x[2]) \in L
    <3>1. CASE x[1] + 1 \in 1 .. n
      <4>1. s[x[1] + 1] \in Seq(S) /\ x[2] \in Seq(S) BY <1>1, <3>1
      <4> QED BY <3>1, <4>1, ConcatProperties
    <3> QED BY <3>1
  <2> QED BY <2>1
<1>3. Initial(D) BY <1>1 DEF Initial
<1>4. s[1] \in L BY <1>1
<1>5. PICK g \in [D -> L] : Follows(g, D, s[1], step)
  <2> HIDE DEF step, D, L
  <2> QED BY <1>2, <1>3, <1>4, Recursion
<1>6. \A k \in D : g[k] = IF k = 0 THEN s[1] ELSE step[<<k, g[k - 1]>>]
  BY <1>5 DEF Follows
<1> DEFINE f == [i \in 1 .. n |-> g[i - 1]]
<1>7. ASSUME NEW i \in 1 .. n PROVE f[i] = IF i = 1 THEN s[i] ELSE f[i - 1] \o s[i]
  <2>1. i - 1 \in D BY <1>1
  <2>2. CASE i = 1
    <3>1. i - 1 = 0 /\ 0 \in D BY <1>1, <2>2
    <3>2. f[i] = g[i - 1] OBVIOUS
    <3> HIDE DEF f, step, D
    <3>3. g[0] = s[1] BY <1>6, <3>1
    <3> QED BY <2>2, <3>1, <3>2, <3>3
  <2>3. CASE i # 1
    <3>0. i \in Nat /\ 2 <= i /\ i <= n BY <1>1, <2>3
    <3>1. /\ i - 1 # 0 /\ i - 1 - 1 \in D /\ i - 1 \in 1 .. n
          /\ (i - 1) + 1 = i /\ i - 1 \in Nat
      BY <1>1, <3>0
    <3>2. g[i - 1 - 1] \in L BY <1>5, <3>1
    <3> DEFINE j == i - 1
               z == g[j - 1]
    <3>3. f[j] = z /\ f[i] = g[j] BY <3>1
    <3>4. step[<<j, z>>] = z \o s[i]
      <4>1. <<j, z>> \in Nat \X L BY <3>1, <3>2
      <4>2. j + 1 = i /\ i \in 1 .. n BY <3>1
      <4> HIDE DEF j, z, D, L, f
      <4> QED BY <4>1, <4>2
    <3>5. g[j] = step[<<j, z>>]
      <4> HIDE DEF step, D, f
      <4> QED BY <1>6, <2>1, <3>1
    <3> HIDE DEF f, step, D, z
    <3> QED BY <2>3, <3>3, <3>4, <3>5
  <2> QED BY <2>2, <2>3
<1>8. Flattens(f, s)
  <2>1. f = [i \in 1 .. n |-> f[i]] OBVIOUS
  <2> DEFINE e(i) == IF i = 1 THEN s[i] ELSE f[i - 1] \o s[i]
  <2>2. \A i \in 1 .. n : f[i] = e(i) BY <1>7
  <2>3. f = [i \in 1 .. n |-> e(i)]
    <3> HIDE DEF f, e
    <3> QED BY <2>1, <2>2
  <2> HIDE DEF f
  <2> QED BY <2>3 DEF Flattens
<1> HIDE DEF f
<1>9. Flattens(Flattened(s), s) BY <1>8 DEF Flattened
<1> DEFINE h == Flattened(s)
<1>10. FlattenSeq(s) = h[n] BY <1>1 DEF FlattenSeq, Flattened, Flattens
<1> HIDE DEF h
<1>11. \A i \in 1 .. n : h[i] = IF i = 1 THEN s[i] ELSE h[i - 1] \o s[i]
  BY <1>9 DEF Flattens, h
<1> DEFINE A == {k \in Nat : k + 1 \in 1 .. n => h[k + 1] \in L}
<1>12. 0 \in A
  <2>1. 1 \in 1 .. n /\ s[1] \in L BY <1>1
  <2>2. h[1] = s[1] BY <1>11, <2>1
  <2>3. h[0 + 1] \in L BY <2>1, <2>2
  <2> QED BY <2>3
<1>13. ASSUME NEW k \in Nat, k \in A PROVE k + 1 \in A
  <2> SUFFICES ASSUME (k + 1) + 1 \in 1 .. n PROVE h[(k + 1) + 1] \in L OBVIOUS
  <2> DEFINE i == (k + 1) + 1
  <2>1. i \in 1 .. n /\ i # 1 /\ i - 1 = k + 1 /\ k + 1 \in 1 .. n BY <1>1
  <2> HIDE DEF i
  <2>2. h[i] = h[k + 1] \o s[i] BY <1>11, <2>1
  <2>3. h[k + 1] \in Seq(S) /\ s[i] \in Seq(S) BY <1>1, <1>13, <2>1
  <2> QED BY <2>2, <2>3, ConcatProperties DEF i
<1>14. \A k \in Nat : k \in A
  <2> HIDE DEF A
  <2> QED BY <1>12, <1>13, Naturals
<1>15. ASSUME NEW i \in 1 .. n PROVE h[i] \in L
  <2>1. i - 1 \in Nat /\ (i - 1) + 1 = i BY <1>1
  <2>2. i - 1 \in A BY <1>14, <2>1
  <2> QED BY <2>1, <2>2
<1>16. ASSUME NEW i \in 2 .. n PROVE h[i] = h[i - 1] \o s[i]
  <2>1. i \in 1 .. n /\ i # 1 BY <1>1
  <2> QED BY <1>11, <2>1
<1>17. h[1] = s[1] BY <1>1, <1>11
<1> QED BY <1>10, <1>15, <1>16, <1>17 DEF h

LEMMA FlattenNone == FlattenSeq(<< >>) = << >>
BY DEF FlattenSeq

\* The last list comes last.
OneLonger(S, s, t, last) ==
  /\ s \in Seq(Seq(S)) /\ t \in Seq(Seq(S)) /\ last \in Seq(S)
  /\ Len(t) = Len(s) + 1
  /\ \A i \in 1 .. Len(s) : t[i] = s[i]
  /\ t[Len(s) + 1] = last

LEMMA FlattenLast ==
  ASSUME NEW S, NEW s, NEW t, NEW last, OneLonger(S, s, t, last)
  PROVE  /\ FlattenSeq(t) = FlattenSeq(s) \o last
         /\ FlattenSeq(s) \in Seq(S)
<1> DEFINE f == Flattened(s)
           h == Flattened(t)
           n == Len(s)
<1>a. /\ s \in Seq(Seq(S)) /\ t \in Seq(Seq(S)) /\ last \in Seq(S)
      /\ n \in Nat /\ Len(s) = n /\ Len(t) = n + 1
      /\ (\A i \in 1 .. n : t[i] = s[i]) /\ t[n + 1] = last
  <2>1. s \in Seq(Seq(S)) BY DEF OneLonger
  <2>2. Len(s) \in Nat BY <2>1, LenProperties
  <2> QED BY <2>2 DEF OneLonger
<1> HIDE DEF n
<1> USE <1>a
<1>0. Len(t) # 0 OBVIOUS
<1>1. /\ FlattenSeq(t) = h[n + 1] /\ h[1] = t[1]
      /\ \A i \in 2 .. n + 1 : h[i] = h[i - 1] \o t[i]
  <2>1. /\ FlattenSeq(t) = h[Len(t)] /\ h[1] = t[1]
        /\ \A i \in 2 .. Len(t) : h[i] = h[i - 1] \o t[i]
    BY <1>0, FlattenedSteps
  <2> QED BY <2>1
<1> HIDE DEF f, h
<1>2. CASE n = 0
  <2>1. s = << >> BY <1>2, EmptySeq
  <2>2. FlattenSeq(s) = << >> /\ FlattenSeq(s) \in Seq(S)
    <3>1. << >> \in Seq(S) BY EmptySeq
    <3> QED BY <2>1, <3>1, FlattenNone
  <2>3. FlattenSeq(t) = last BY <1>1, <1>2
  <2> QED BY <2>2, <2>3, ConcatEmptySeq
<1>3. CASE n # 0
  <2>1. /\ FlattenSeq(s) = f[n] /\ f[1] = s[1]
        /\ \A i \in 2 .. n : f[i] = f[i - 1] \o s[i]
        /\ \A i \in 1 .. n : f[i] \in Seq(S)
    <3>1. Len(s) # 0 BY <1>3
    <3> QED BY <3>1, FlattenedSteps DEF f
  <2> DEFINE A == {k \in Nat : k + 1 \in 1 .. n => h[k + 1] = f[k + 1]}
  <2>2. 0 \in A BY <1>1, <1>3, <2>1
  <2>3. ASSUME NEW k \in Nat, k \in A PROVE k + 1 \in A
    <3> SUFFICES ASSUME (k + 1) + 1 \in 1 .. n PROVE h[(k + 1) + 1] = f[(k + 1) + 1] OBVIOUS
    <3> DEFINE i == (k + 1) + 1
    <3>1. i \in 1 .. n /\ i \in 2 .. n /\ i \in 2 .. n + 1 /\ i - 1 = k + 1 /\ k + 1 \in 1 .. n
      OBVIOUS
    <3> HIDE DEF i
    <3>2. h[i] = h[k + 1] \o t[i] /\ f[i] = f[k + 1] \o s[i] BY <1>1, <2>1, <3>1
    <3>3. h[k + 1] = f[k + 1] /\ t[i] = s[i] BY <2>3, <3>1
    <3> QED BY <3>2, <3>3 DEF i
  <2>4. \A k \in Nat : k \in A
    <3> HIDE DEF A
    <3> QED BY <2>2, <2>3, Naturals
  <2>5. h[n] = f[n]
    <3>1. n - 1 \in Nat /\ (n - 1) + 1 = n /\ n \in 1 .. n BY <1>3
    <3>2. n - 1 \in A BY <2>4, <3>1
    <3> QED BY <3>1, <3>2
  <2>6. n + 1 \in 2 .. n + 1 /\ (n + 1) - 1 = n /\ n \in 1 .. n BY <1>3
  <2>7. h[n + 1] = h[n] \o t[n + 1] BY <1>1, <2>6
  <2> QED BY <1>1, <2>1, <2>5, <2>6, <2>7
<1> QED BY <1>2, <1>3

\* One list, and two.
LEMMA FlattenTwo ==
  ASSUME NEW S, NEW u \in Seq(S), NEW v \in Seq(S)
  PROVE  FlattenSeq(<<u>>) = u /\ FlattenSeq(<<u, v>>) = u \o v
<1> DEFINE a == <<u>>
           b == <<u, v>>
<1>1. << >> \in Seq(Seq(S)) /\ Len(<< >>) = 0 OBVIOUS
<1>2. a \in Seq(Seq(S)) /\ Len(a) = 0 + 1 /\ a[1] = u OBVIOUS
<1>3. b \in Seq(Seq(S)) /\ Len(b) = 1 + 1 /\ b[1] = u /\ b[2] = v OBVIOUS
<1> HIDE DEF a, b
<1>4. OneLonger(S, << >>, a, u) BY <1>1, <1>2 DEF OneLonger
<1>5. FlattenSeq(a) = FlattenSeq(<< >>) \o u BY <1>4, FlattenLast
<1>6. FlattenSeq(a) = u BY <1>5, FlattenNone, ConcatEmptySeq
<1>7. OneLonger(S, a, b, v) BY <1>2, <1>3 DEF OneLonger
<1>a. FlattenSeq(b) = FlattenSeq(a) \o v BY <1>7, FlattenLast
<1>8. FlattenSeq(b) = u \o v BY <1>6, <1>a
<1> QED BY <1>6, <1>8 DEF a, b

LEMMA FlattenType ==
  ASSUME NEW S, NEW s \in Seq(Seq(S))
  PROVE  FlattenSeq(s) \in Seq(S)
<1> DEFINE t == Append(s, << >>)
<1>1. /\ << >> \in Seq(S) /\ t \in Seq(Seq(S)) /\ Len(t) = Len(s) + 1 /\ t[Len(s) + 1] = << >>
      /\ \A i \in 1 .. Len(s) : t[i] = s[i]
  BY AppendProperties
<1> HIDE DEF t
<1>2. OneLonger(S, s, t, << >>) BY <1>1 DEF OneLonger
<1> QED BY <1>2, FlattenLast

\* Lists of lists, one after the other.
LEMMA FlattenConcat ==
  ASSUME NEW S, NEW s \in Seq(Seq(S)), NEW t \in Seq(Seq(S))
  PROVE  FlattenSeq(s \o t) = FlattenSeq(s) \o FlattenSeq(t)
<1> DEFINE Holds(u) == FlattenSeq(s \o u) = FlattenSeq(s) \o FlattenSeq(u)
           A == {n \in Nat : \A u \in Seq(Seq(S)) : Len(u) = n => Holds(u)}
<1>0. FlattenSeq(s) \in Seq(S) BY FlattenType
<1>1. 0 \in A
  <2> SUFFICES ASSUME NEW u \in Seq(Seq(S)), Len(u) = 0 PROVE Holds(u) OBVIOUS
  <2>1. u = << >> BY EmptySeq
  <2>2. s \o << >> = s BY ConcatEmptySeq
  <2>3. FlattenSeq(s) \o << >> = FlattenSeq(s) BY <1>0, ConcatEmptySeq
  <2> QED BY <2>1, <2>2, <2>3, FlattenNone
<1>2. ASSUME NEW n \in Nat, n \in A PROVE n + 1 \in A
  <2> SUFFICES ASSUME NEW u \in Seq(Seq(S)), Len(u) = n + 1 PROVE Holds(u)
    <3> HIDE DEF Holds
    <3> QED OBVIOUS
  <2> DEFINE v == SubSeq(u, 1, n)
             last == u[n + 1]
  <2>1. /\ v \in Seq(Seq(S)) /\ Len(v) = n
        /\ \A i \in 1 .. n : v[i] = u[i]
    BY SubSeqProperties
  <2>2. last \in Seq(S) BY ElementOfSeq
  <2>3. FlattenSeq(s \o v) = FlattenSeq(s) \o FlattenSeq(v) BY <1>2, <2>1
  <2> HIDE DEF v, last
  <2>4. OneLonger(S, v, u, last) BY <2>1, <2>2 DEF OneLonger, last
  <2>5. FlattenSeq(u) = FlattenSeq(v) \o last /\ FlattenSeq(v) \in Seq(S)
    BY <2>4, FlattenLast
  <2>6. OneLonger(S, s \o v, s \o u, last)
    <3> DEFINE m == Len(s)
    <3>0. m \in Nat BY LenProperties
    <3>1. /\ s \o v \in Seq(Seq(S)) /\ Len(s \o v) = m + n
          /\ \A i \in 1 .. m + n : (s \o v)[i] = IF i <= m THEN s[i] ELSE v[i - m]
      BY <2>1, <3>0, ConcatProperties
    <3> DEFINE l == n + 1
    <3>a. Len(u) = l /\ l \in Nat OBVIOUS
    <3> HIDE DEF l
    <3>b. /\ s \o u \in Seq(Seq(S)) /\ Len(s \o u) = m + l
          /\ \A i \in 1 .. m + l : (s \o u)[i] = IF i <= m THEN s[i] ELSE u[i - m]
      BY <3>0, <3>a, ConcatProperties
    <3>2. /\ s \o u \in Seq(Seq(S)) /\ Len(s \o u) = m + (n + 1)
          /\ \A i \in 1 .. m + (n + 1) : (s \o u)[i] = IF i <= m THEN s[i] ELSE u[i - m]
      BY <3>b DEF l
    <3> DEFINE p == s \o v
               q == s \o u
    <3> HIDE DEF p, q, m
    <3>3. ASSUME NEW i \in 1 .. m + n PROVE q[i] = p[i]
      <4>1. i \in 1 .. m + (n + 1) /\ (~ (i <= m) => i - m \in 1 .. n) BY <3>0
      <4> QED BY <4>1, <3>1, <3>2, <2>1 DEF p, q
    <3>4. q[(m + n) + 1] = last
      <4>1. /\ (m + n) + 1 \in 1 .. m + (n + 1) /\ ~ ((m + n) + 1 <= m)
            /\ ((m + n) + 1) - m = n + 1
        BY <3>0
      <4>2. q[(m + n) + 1] = u[((m + n) + 1) - m] BY <4>1, <3>2 DEF q
      <4> QED BY <4>1, <4>2 DEF last
    <3>5. Len(q) = Len(p) + 1 BY <3>0, <3>1, <3>2 DEF p, q
    <3> QED BY <3>1, <3>2, <3>3, <3>4, <3>5, <2>2 DEF OneLonger, p, q
  <2>7. FlattenSeq(s \o u) = FlattenSeq(s \o v) \o last BY <2>6, FlattenLast
  <2> DEFINE fs == FlattenSeq(s)
             fv == FlattenSeq(v)
  <2>8. fs \in Seq(S) /\ fv \in Seq(S) BY <1>0, <2>5
  <2> HIDE DEF fs, fv
  <2>9. (fs \o fv) \o last = fs \o (fv \o last)
    <3>1. ASSUME NEW x \in Seq(S), NEW y \in Seq(S), NEW z \in Seq(S)
          PROVE  (x \o y) \o z = x \o (y \o z)
      BY ConcatAssociative, SMTT(30)
    <3> QED BY <2>2, <2>8, <3>1, Zenon
  <2> QED BY <2>3, <2>5, <2>7, <2>9 DEF fs, fv
<1>3. \A n \in Nat : n \in A
  <2> HIDE DEF A
  <2> QED BY <1>1, <1>2, Naturals
<1>4. Len(t) \in A BY <1>3, LenProperties
<1> QED BY <1>4
=============================================================================
