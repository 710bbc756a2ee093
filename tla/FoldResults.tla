----------------------------- MODULE FoldResults -----------------------------
(***************************************************************************)
(* What the kernels of Reduce and of Scan compute, over several launches:  *)
(* each item, and each round, puts together what others have left, so that *)
(* in the end nothing of the input is missing and nothing is taken twice.  *)
(***************************************************************************)
EXTENDS KernelResults

-----------------------------------------------------------------------------
(***************************************************************************)
(* Lists in which nothing occurs twice.                                    *)
(***************************************************************************)
Distinct(v) == \A i, j \in DOMAIN v : v[i] = v[j] => i = j

Disjoint(u, v) == \A y \in Range(u) : y \notin Range(v)

LEMMA InRange ==
  ASSUME NEW S, NEW u \in Seq(S), NEW y
  PROVE  y \in Range(u) <=> \E i \in 1 .. Len(u) : u[i] = y
<1>1. DOMAIN u = 1 .. Len(u) BY LenProperties
<1> QED BY <1>1 DEF Range

LEMMA ConcatRange ==
  ASSUME NEW S, NEW u \in Seq(S), NEW v \in Seq(S)
  PROVE  /\ u \o v \in Seq(S) /\ Len(u \o v) = Len(u) + Len(v)
         /\ \A y : y \in Range(u \o v) <=> y \in Range(u) \/ y \in Range(v)
<1> DEFINE w == u \o v
           m == Len(u)
           n == Len(v)
<1>1. m \in Nat /\ n \in Nat BY LenProperties
<1>2. /\ w \in Seq(S) /\ Len(w) = m + n
      /\ \A i \in 1 .. m + n : w[i] = IF i <= m THEN u[i] ELSE v[i - m]
  BY ConcatProperties
<1> HIDE DEF w
<1>3. ASSUME NEW y, y \in Range(w) PROVE y \in Range(u) \/ y \in Range(v)
  <2>1. PICK i \in 1 .. m + n : w[i] = y BY <1>2, <1>3, InRange
  <2>2. CASE i <= m
    <3>1. i \in 1 .. m /\ u[i] = y BY <1>1, <1>2, <2>1, <2>2
    <3> QED BY <3>1, InRange
  <2>3. CASE ~ (i <= m)
    <3>1. i - m \in 1 .. n /\ v[i - m] = y BY <1>1, <1>2, <2>1, <2>3
    <3> QED BY <3>1, InRange
  <2> QED BY <2>2, <2>3
<1>4. ASSUME NEW y, y \in Range(u) PROVE y \in Range(w)
  <2>1. PICK i \in 1 .. m : u[i] = y BY <1>4, InRange
  <2>2. i \in 1 .. m + n /\ w[i] = y BY <1>1, <1>2, <2>1
  <2> QED BY <1>2, <2>2, InRange
<1>5. ASSUME NEW y, y \in Range(v) PROVE y \in Range(w)
  <2>1. PICK i \in 1 .. n : v[i] = y BY <1>5, InRange
  <2>2. i + m \in 1 .. m + n /\ ~ (i + m <= m) /\ (i + m) - m = i BY <1>1, <2>1
  <2>3. w[i + m] = y BY <1>2, <2>1, <2>2
  <2> QED BY <1>2, <2>2, <2>3, InRange
<1> QED BY <1>2, <1>3, <1>4, <1>5 DEF w

LEMMA ConcatDistinct ==
  ASSUME NEW S, NEW u \in Seq(S), NEW v \in Seq(S), Distinct(u), Distinct(v), Disjoint(u, v)
  PROVE  Distinct(u \o v)
<1> DEFINE w == u \o v
           m == Len(u)
           n == Len(v)
<1>1. m \in Nat /\ n \in Nat /\ DOMAIN u = 1 .. m /\ DOMAIN v = 1 .. n BY LenProperties
<1>2. /\ w \in Seq(S) /\ Len(w) = m + n
      /\ \A i \in 1 .. m + n : w[i] = IF i <= m THEN u[i] ELSE v[i - m]
  BY ConcatProperties
<1>3. DOMAIN w = 1 .. m + n BY <1>2, LenProperties
<1>4. \A i \in 1 .. m, j \in 1 .. n : u[i] # v[j]
  <2> SUFFICES ASSUME NEW i \in 1 .. m, NEW j \in 1 .. n PROVE u[i] # v[j] OBVIOUS
  <2>1. u[i] \in Range(u) /\ v[j] \in Range(v) BY InRange
  <2> QED BY <2>1 DEF Disjoint
<1> HIDE DEF w, m, n
<1> SUFFICES ASSUME NEW i \in 1 .. m + n, NEW j \in 1 .. m + n, w[i] = w[j] PROVE i = j
  BY <1>3 DEF Distinct, w
<1>5. CASE i <= m /\ j <= m
  <2>1. i \in 1 .. m /\ j \in 1 .. m /\ u[i] = u[j] BY <1>1, <1>2, <1>5
  <2> QED BY <1>1, <2>1 DEF Distinct
<1>6. CASE ~ (i <= m) /\ ~ (j <= m)
  <2>1. i - m \in 1 .. n /\ j - m \in 1 .. n /\ v[i - m] = v[j - m] BY <1>1, <1>2, <1>6
  <2>2. i - m = j - m BY <1>1, <2>1 DEF Distinct
  <2> QED BY <1>1, <2>2
<1>7. CASE i <= m /\ ~ (j <= m)
  <2>1. i \in 1 .. m /\ j - m \in 1 .. n /\ u[i] = v[j - m] BY <1>1, <1>2, <1>7
  <2> QED BY <1>4, <2>1
<1>8. CASE ~ (i <= m) /\ j <= m
  <2>1. j \in 1 .. m /\ i - m \in 1 .. n /\ u[j] = v[i - m] BY <1>1, <1>2, <1>8
  <2> QED BY <1>4, <2>1
<1> QED BY <1>5, <1>6, <1>7, <1>8

\* The list has as many elements as its range.
LEMMA DistinctLen ==
  ASSUME NEW v \in Seq(Int), Distinct(v), NEW n \in Nat, \A y : y \in Range(v) <=> y \in 1 .. n
  PROVE  Len(v) = n /\ Range(v) = 1 .. n
<1> DEFINE D == 1 .. Len(v)
<1>1. Range(v) = 1 .. n OBVIOUS
<1>2. Len(v) \in Nat /\ DOMAIN v = D /\ v = [i \in D |-> v[i]] BY LenProperties
<1>3. \A i \in D : v[i] \in 1 .. n
  <2> TAKE i \in D
  <2>1. v[i] \in Range(v) BY InRange
  <2> QED BY <2>1
<1>4. \A y \in 1 .. n : \E i \in D : v[i] = y BY <1>1, InRange
<1>5. v \in Bijection(D, 1 .. n)
  <2>1. v \in [D -> 1 .. n] BY <1>2, <1>3
  <2>2. \A i, j \in D : v[i] = v[j] => i = j BY <1>2 DEF Distinct
  <2> HIDE DEF D
  <2>3. v \in Injection(D, 1 .. n) BY <2>1, <2>2 DEF Injection, IsInjective
  <2>4. v \in Surjection(D, 1 .. n) BY <1>4, <2>1 DEF Surjection
  <2> QED BY <2>3, <2>4 DEF Bijection
<1>6. Len(v) \in Int /\ n \in Int /\ 1 \in Int BY <1>2
<1>7. IsFiniteSet(D) /\ Cardinality(D) = IF 1 > Len(v) THEN 0 ELSE Len(v) - 1 + 1
  BY <1>6, FS_Interval, Zenon
<1>8. Cardinality(1 .. n) = IF 1 > n THEN 0 ELSE n - 1 + 1 BY <1>6, FS_Interval, Zenon
<1>9. Cardinality(1 .. n) = Cardinality(D) BY <1>5, <1>7, FS_Bijection DEF ExistsBijection
<1> QED BY <1>1, <1>2, <1>7, <1>8, <1>9

(***************************************************************************)
(* Lists that share nothing are put together to one of all they have.      *)
(***************************************************************************)
Unshared(s, n) ==
  /\ \A i \in 1 .. n : Distinct(s[i])
  /\ \A i, j \in 1 .. n : i # j => Disjoint(s[i], s[j])

Gathers(S, v, s, n) ==
  /\ v \in Seq(S) /\ Distinct(v)
  /\ \A y : y \in Range(v) <=> \E i \in 1 .. n : y \in Range(s[i])

LEMMA FlattenGathers ==
  ASSUME NEW S, NEW s \in Seq(Seq(S)), Unshared(s, Len(s))
  PROVE  Gathers(S, FlattenSeq(s), s, Len(s))
<1> DEFINE n == Len(s)
           L == Seq(S)
<1>1. n \in Nat /\ DOMAIN s = 1 .. n /\ s = [k \in 1 .. n |-> s[k]] /\ Among(L, s, n)
  BY LenProperties DEF Among
<1> HIDE DEF n, L
<1>2. \A m \in Nat : m <= n => Among(L, s, m) BY <1>1 DEF Among
<1> DEFINE A == {m \in Nat : m <= n => Gathers(S, FlattenSeq(Firsts(s, m)), s, m)}
<1>3. 0 \in A
  <2>1. Firsts(s, 0) = << >> BY DEF Firsts
  <2>2. FlattenSeq(Firsts(s, 0)) = << >> BY <2>1, FlattenNone
  <2>3. << >> \in Seq(S) /\ DOMAIN << >> = {} OBVIOUS
  <2>4. Range(<< >>) = {} BY <2>3 DEF Range
  <2>5. Distinct(<< >>) BY <2>3 DEF Distinct
  <2>6. 1 .. 0 = {} OBVIOUS
  <2>7. Gathers(S, << >>, s, 0) BY <2>3, <2>4, <2>5, <2>6 DEF Gathers
  <2> QED BY <2>2, <2>7
<1>4. ASSUME NEW m \in Nat, m \in A PROVE m + 1 \in A
  <2> SUFFICES ASSUME m + 1 <= n PROVE Gathers(S, FlattenSeq(Firsts(s, m + 1)), s, m + 1)
    OBVIOUS
  <2> DEFINE u == FlattenSeq(Firsts(s, m))
             last == s[m + 1]
  <2>1. m <= n /\ m + 1 \in Nat /\ m + 1 \in 1 .. n /\ \A i \in 1 .. m : i \in 1 .. n /\ i # m + 1
    BY <1>1
  <2>2. Gathers(S, u, s, m) BY <1>4, <2>1
  <2>3. last \in Seq(S) BY <1>1, <2>1 DEF Among, L
  <2>4. Among(L, s, m) /\ Among(L, s, m + 1) BY <1>2, <2>1
  <2>5. OneLonger(S, Firsts(s, m), Firsts(s, m + 1), last)
    <3> DEFINE a == Firsts(s, m)
               b == Firsts(s, m + 1)
    <3>1. a \in Seq(L) /\ Len(a) = m /\ \A k \in 1 .. m : a[k] = s[k] BY <2>4, FirstsFacts
    <3>2. b \in Seq(L) /\ Len(b) = m + 1 /\ \A k \in 1 .. m + 1 : b[k] = s[k]
      BY <2>1, <2>4, FirstsFacts
    <3> HIDE DEF a, b
    <3>3. \A k \in 1 .. m : k \in 1 .. m + 1 OBVIOUS
    <3>4. m + 1 \in 1 .. m + 1 OBVIOUS
    <3>5. b[m + 1] = last BY <3>2, <3>4
    <3> HIDE DEF last
    <3> QED BY <2>3, <3>1, <3>2, <3>3, <3>5 DEF OneLonger, L, a, b
  <2>6. FlattenSeq(Firsts(s, m + 1)) = u \o last
    <3> HIDE DEF last
    <3> QED BY <2>5, FlattenLast
  <2> HIDE DEF u, last
  <2>7. u \in Seq(S) /\ Distinct(u) BY <2>2 DEF Gathers
  <2>8. Distinct(last) /\ Disjoint(u, last)
    <3>1. Distinct(last) BY <2>1 DEF Unshared, n, last
    <3>2. ASSUME NEW y \in Range(u) PROVE y \notin Range(last)
      <4>1. PICK i \in 1 .. m : y \in Range(s[i]) BY <2>2 DEF Gathers
      <4>2. Disjoint(s[i], last) BY <2>1 DEF Unshared, n, last
      <4> QED BY <4>1, <4>2 DEF Disjoint
    <3> QED BY <3>1, <3>2 DEF Disjoint
  <2>9. /\ u \o last \in Seq(S)
        /\ \A y : y \in Range(u \o last) <=> y \in Range(u) \/ y \in Range(last)
    BY <2>3, <2>7, ConcatRange
  <2>10. Distinct(u \o last) BY <2>3, <2>7, <2>8, ConcatDistinct
  <2>11. ASSUME NEW y
         PROVE  y \in Range(u \o last) <=> \E i \in 1 .. m + 1 : y \in Range(s[i])
    <3>1. y \in Range(u) <=> \E i \in 1 .. m : y \in Range(s[i]) BY <2>2 DEF Gathers
    <3>2. \A i : i \in 1 .. m + 1 <=> i \in 1 .. m \/ i = m + 1 OBVIOUS
    <3> QED BY <2>9, <3>1, <3>2 DEF last
  <2> QED BY <2>6, <2>9, <2>10, <2>11 DEF Gathers
<1>5. \A m \in Nat : m \in A
  <2> HIDE DEF A
  <2> QED BY <1>3, <1>4, Naturals
<1>6. Gathers(S, FlattenSeq(Firsts(s, n)), s, n) BY <1>1, <1>5
<1>7. Firsts(s, n) = s BY <1>1 DEF Firsts
<1> QED BY <1>6, <1>7 DEF n

-----------------------------------------------------------------------------
(***************************************************************************)
(* What Reduce computes.  The elements that an item of the first launch    *)
(* folds are those with its remainder, so that none is left or taken twice.*)
(***************************************************************************)
Hops(first, step, size) == Max({1, CeilDiv(size - first, step)})

LEMMA HopsFacts ==
  ASSUME NEW first \in Nat, NEW step \in Positive, NEW size \in Nat
  PROVE  /\ Hops(first, step, size) \in Nat /\ Hops(first, step, size) # 0
         /\ first < size => \A k \in 1 .. Hops(first, step, size) :
                              first + (k - 1) * step \in 0 .. size - 1
         /\ \A q \in Nat : first + q * step < size => q + 1 \in 1 .. Hops(first, step, size)
<1> DEFINE n == CeilDiv(size - first, step)
           h == Hops(first, step, size)
<1>1. step \in Nat /\ step > 0 /\ n \in Int
  <2>1. (size - first + step - 1) \div step \in Int BY DEF Positive
  <2> QED BY <2>1 DEF CeilDiv, Positive
<1>2. h \in {1, n} /\ 1 <= h /\ n <= h
  <2> DEFINE m == Max({1, n})
             one == 1
  <2>1. h = m BY DEF Hops
  <2>2. one \in Int /\ one = 1 OBVIOUS
  <2> HIDE DEF n, h, one
  <2>3. Max({one, n}) \in {one, n} /\ one <= Max({one, n}) /\ n <= Max({one, n})
    BY <1>1, <2>2, MaxOfTwo
  <2> QED BY <2>1, <2>2, <2>3
<1>3. first < size => n \in Nat /\ n * step <= (size - first) + step - 1 /\ size - first <= n * step
  <2> SUFFICES ASSUME first < size
               PROVE n \in Nat /\ n * step <= (size - first) + step - 1 /\ size - first <= n * step
    OBVIOUS
  <2>1. size - first \in Nat OBVIOUS
  <2> QED BY <2>1, CeilDivided
<1> HIDE DEF n, h
<1>4. ASSUME first < size, NEW k \in 1 .. h PROVE first + (k - 1) * step \in 0 .. size - 1
  <2> DEFINE a == (k - 1) * step
             b == n * step
  <2>1. h = n \/ h = 1 BY <1>2
  <2>2. 1 <= n
    <3> SUFFICES ASSUME n = 0 PROVE FALSE BY <1>3, <1>4
    <3>1. n * step = 0 BY <1>1
    <3> QED BY <1>3, <1>4, <3>1
  <2>3. k - 1 \in Nat /\ k - 1 <= n - 1 BY <1>2, <2>1, <2>2, <1>3, <1>4
  <2>4. a \in Nat /\ a <= (n - 1) * step
    <3>1. a \in Nat BY <1>1, <2>3, Times
    <3>2. (k - 1) * step <= (n - 1) * step BY <1>1, <2>3, Monotone
    <3> QED BY <3>1, <3>2
  <2>5. (n - 1) * step = b - 1 * step BY <1>1, Distributes
  <2>6. b \in Nat /\ b <= (size - first) + step - 1 BY <1>1, <1>3, <1>4, Times
  <2> HIDE DEF a, b
  <2>7. a <= (size - first) - 1 BY <1>1, <2>4, <2>5, <2>6
  <2>8. first + a \in 0 .. size - 1 BY <2>4, <2>7, <1>4
  <2> QED BY <2>8 DEF a
<1>5. ASSUME NEW q \in Nat, first + q * step < size PROVE q + 1 \in 1 .. h
  <2> DEFINE a == q * step
             b == n * step
  <2>1. a \in Nat BY <1>1, Times
  <2>2. first < size BY <2>1, <1>5
  <2>3. b \in Nat /\ size - first <= b /\ n \in Nat BY <1>1, <1>3, <2>2, Times
  <2>4. a < b
    <3> HIDE DEF a, b
    <3>1. first + a < size BY <1>5 DEF a
    <3> QED BY <2>1, <2>3, <3>1
  <2>5. q < n
    <3> SUFFICES ASSUME n <= q PROVE FALSE BY <2>3
    <3>1. b <= a BY <1>1, <2>3, Monotone
    <3> HIDE DEF a, b
    <3> QED BY <2>1, <2>3, <2>4, <3>1
  <2> QED BY <1>2, <2>3, <2>5
<1>6. h \in Nat /\ h # 0 BY <1>1, <1>2
<1> QED BY <1>4, <1>5, <1>6 DEF h

LEMMA LenOfFunction ==
  ASSUME NEW S, NEW n \in Nat, NEW v, v = [k \in 1 .. n |-> v[k]], \A k \in 1 .. n : v[k] \in S
  PROVE  v \in Seq(S) /\ Len(v) = n
<1>1. v = Firsts(v, n) BY DEF Firsts
<1>2. Among(S, v, n) BY DEF Among
<1>3. Firsts(v, n) \in Seq(S) /\ Len(Firsts(v, n)) = n BY <1>2, FirstsFacts
<1> QED BY <1>1, <1>3

\* Labels at equal distances.
EveryLabel(first, step, size) ==
  [k \in 1 .. Hops(first, step, size) |->
     IF first + (k - 1) * step < size THEN first + (k - 1) * step + 1 ELSE 0]

AreLabels(v, first, step, size) ==
  /\ v \in Seq(Int) /\ Distinct(v)
  /\ \A y : y \in Range(v) <=> y \in 1 .. size /\ (y - 1) % step = first

LEMMA EveryLabelIs ==
  ASSUME NEW step \in Positive, NEW first \in 0 .. step - 1, NEW size \in Nat, first < size
  PROVE  AreLabels(EveryLabel(first, step, size), first, step, size)
<1> DEFINE h == Hops(first, step, size)
           at(k) == first + (k - 1) * step
           v == EveryLabel(first, step, size)
<1>1. first \in Nat /\ step \in Nat /\ step > 0 BY DEF Positive
<1>2. /\ h \in Nat /\ h # 0
      /\ \A k \in 1 .. h : at(k) \in 0 .. size - 1
      /\ \A q \in Nat : first + q * step < size => q + 1 \in 1 .. h
  BY <1>1, HopsFacts
<1>3. v = [k \in 1 .. h |-> IF at(k) < size THEN at(k) + 1 ELSE 0] BY DEF EveryLabel
<1> HIDE DEF h, v
<1>4. ASSUME NEW k \in 1 .. h PROVE at(k) \div step = k - 1 /\ at(k) % step = first
  <2>1. k - 1 \in Nat BY <1>2
  <2> DEFINE r == k - 1
             a == r * step
  <2>2. (a + first) \div step = r /\ (a + first) % step = first BY <2>1, OfPlace
  <2>3. a \in Nat BY <1>1, <2>1, Times
  <2>4. a + first = first + a
    <3> HIDE DEF a
    <3> QED BY <1>1, <2>3
  <2> QED BY <2>2, <2>4
<1>5. \A k \in 1 .. h : at(k) \in Int /\ v[k] = at(k) + 1
  <2> TAKE k \in 1 .. h
  <2>1. at(k) \in 0 .. size - 1 BY <1>2
  <2> HIDE DEF at
  <2>2. at(k) < size /\ at(k) \in Int BY <2>1
  <2> QED BY <1>3, <2>2
<1>6. v \in Seq(Int) /\ Len(v) = h
  <2>1. \A k \in 1 .. h : v[k] \in Int
    <3> HIDE DEF at
    <3> QED BY <1>5
  <2>2. v = [k \in 1 .. h |-> v[k]] BY <1>3
  <2> QED BY <1>2, <2>1, <2>2, LenOfFunction
<1>7. Distinct(v)
  <2> SUFFICES ASSUME NEW i \in 1 .. h, NEW j \in 1 .. h, v[i] = v[j] PROVE i = j
    <3>1. DOMAIN v = 1 .. h BY <1>3
    <3> QED BY <3>1 DEF Distinct
  <2>1. at(i) \in Int /\ at(j) \in Int /\ at(i) + 1 = at(j) + 1 BY <1>5
  <2>2. at(i) = at(j)
    <3> HIDE DEF at
    <3> QED BY <2>1
  <2>3. at(i) \div step = i - 1 /\ at(j) \div step = j - 1 BY <1>4
  <2> HIDE DEF at
  <2>4. i - 1 = j - 1 BY <2>2, <2>3
  <2> QED BY <2>4, <1>2
<1>8. ASSUME NEW y, y \in Range(v) PROVE y \in 1 .. size /\ (y - 1) % step = first
  <2>1. PICK k \in 1 .. h : v[k] = y BY <1>6, <1>8, InRange
  <2>2. y = at(k) + 1 /\ at(k) \in 0 .. size - 1 /\ at(k) % step = first BY <1>2, <1>4, <1>5, <2>1
  <2> HIDE DEF at
  <2>3. y \in 1 .. size /\ y - 1 = at(k) BY <2>2
  <2> QED BY <2>2, <2>3
<1>9. ASSUME NEW y \in 1 .. size, (y - 1) % step = first PROVE y \in Range(v)
  <2> DEFINE z == y - 1
             q == z \div step
             a == q * step
             k == q + 1
  <2>1. z \in Nat /\ z < size /\ z % step = first BY <1>9
  <2> HIDE DEF z
  <2>2. q \in Nat /\ z = step * q + (z % step) BY <2>1, Division
  <2> HIDE DEF q
  <2>3. step * q = a /\ a \in Nat BY <1>1, <2>2, Times
  <2>4. z = first + a
    <3> HIDE DEF a
    <3> QED BY <1>1, <2>1, <2>2, <2>3
  <2>5. k \in 1 .. h BY <1>2, <2>1, <2>2, <2>4
  <2>6. k - 1 = q BY <2>2
  <2>7. at(k) = z BY <2>4, <2>6
  <2>8. v[k] = y
    <3>1. v[k] = at(k) + 1 BY <1>5, <2>5
    <3> HIDE DEF at, k
    <3> QED BY <2>7, <3>1 DEF z
  <2> HIDE DEF k
  <2> QED BY <1>6, <2>5, <2>8, InRange
<1> QED BY <1>6, <1>7, <1>8, <1>9 DEF AreLabels, v

-----------------------------------------------------------------------------
\* The numbers of a reduction.
Reduces(c) == c.skeleton = "reduce" /\ ReduceCall(c)

LEMMA ReduceNumbers ==
  ASSUME NEW c, Reduces(c), NEW l, l = ReduceSecond(c)
  PROVE  /\ c.n \in Positive /\ c.n \in Nat
         /\ GlobalSize \in Positive /\ GlobalSize \in Nat
         /\ l.items \in Positive /\ l.items \in Nat /\ l.size \in Positive /\ l.size \in Nat
         /\ l.items <= l.size /\ l.size <= c.n /\ l.size <= GlobalSize
         /\ l.size \in {GlobalSize, c.n}
         /\ l.local = l.items /\ l.groups = 1 /\ l.kernel = "SCL_REDUCE_2"
<1>1. /\ l.groups = 1 /\ l.local = l.items /\ l.kernel = "SCL_REDUCE_2"
      /\ l.items = Min({Min({GlobalSize, c.n}), c.max})
      /\ l.size = Min({GlobalSize, c.n})
  BY DEF ReduceSecond
<1>2. /\ c.max \in Positive /\ c.max \in Int /\ c.n \in Positive /\ c.n \in Nat
      /\ GlobalSize \in Positive /\ GlobalSize \in Nat
  BY GlobalSizeAssumption DEF Reduces, ReduceCall, Positive
<1> DEFINE a == l.size
           b == l.items
<1>3. a \in {GlobalSize, c.n} /\ a <= GlobalSize /\ a <= c.n
  <2>1. a = Min({GlobalSize, c.n}) BY <1>1
  <2>2. GlobalSize \in Int /\ c.n \in Int BY <1>2
  <2> HIDE DEF a
  <2> QED BY <2>1, <2>2, MinOfTwo
<1>4. b \in {a, c.max} /\ b <= a
  <2>1. b = Min({a, c.max}) BY <1>1
  <2>2. a \in Int /\ c.max \in Int BY <1>2, <1>3
  <2> HIDE DEF a, b
  <2> QED BY <2>1, <2>2, MinOfTwo
<1> HIDE DEF a, b
<1>5. a \in Positive /\ b \in Positive BY <1>2, <1>3, <1>4
<1> QED BY <1>1, <1>2, <1>3, <1>4, <1>5 DEF a, b, Positive

\* What item t of the first launch has, and of the second one.
FirstOf(c, t, v) ==
  /\ v \in Seq(Int) /\ Distinct(v)
  /\ \A y : y \in Range(v) <=> y \in 1 .. c.n /\ (y - 1) % GlobalSize = t

SecondOf(c, t, v) ==
  /\ v \in Seq(Int) /\ Distinct(v)
  /\ \A y : y \in Range(v) <=>
              y \in 1 .. c.n /\ ((y - 1) % GlobalSize) % ReduceSecond(c).items = t

LEMMA FirstFoldIs ==
  ASSUME NEW c, Reduces(c), NEW t \in 0 .. ReduceSecond(c).size - 1
  PROVE  FirstOf(c, t, FirstFold(c, t))
<1> DEFINE l == ReduceSecond(c)
<1>1. /\ c.n \in Nat /\ GlobalSize \in Positive /\ GlobalSize \in Nat
      /\ l.size \in Nat /\ l.size <= c.n /\ l.size <= GlobalSize
  BY ReduceNumbers
<1>2. t \in 0 .. l.size - 1 OBVIOUS
<1> HIDE DEF l
<1>3. t \in 0 .. GlobalSize - 1 /\ t < c.n BY <1>1, <1>2
<1>4. AreLabels(EveryLabel(t, GlobalSize, c.n), t, GlobalSize, c.n)
  BY <1>1, <1>3, EveryLabelIs
<1>5. FirstFold(c, t) = EveryLabel(t, GlobalSize, c.n)
  BY DEF FirstFold, EveryLabel, GivenLabel, Hops
<1> QED BY <1>4, <1>5 DEF AreLabels, FirstOf

LEMMA SecondFoldIs ==
  ASSUME NEW c, Reduces(c), NEW t \in 0 .. ReduceSecond(c).items - 1
  PROVE  SecondOf(c, t, SecondFold(c, t))
<1> DEFINE l == ReduceSecond(c)
           h == Hops(t, l.items, l.size)
           at(k) == t + (k - 1) * l.items
           s == [k \in 1 .. h |-> FirstFold(c, at(k))]
<1>1. /\ c.n \in Nat /\ GlobalSize \in Positive /\ GlobalSize \in Nat
      /\ l.size \in Nat /\ l.size <= c.n /\ l.size <= GlobalSize
      /\ l.size \in {GlobalSize, c.n}
      /\ l.items \in Positive /\ l.items \in Nat /\ l.items <= l.size
  BY ReduceNumbers
<1>2. t \in 0 .. l.items - 1 OBVIOUS
<1>3. SecondFold(c, t) = FlattenSeq(s) BY DEF SecondFold, Hops
<1>4. \A k \in 1 .. h : at(k) \in 0 .. ReduceSecond(c).size - 1 =>
        FirstOf(c, at(k), FirstFold(c, at(k)))
  BY FirstFoldIs
<1>5. \A k \in 1 .. h : at(k) \in 0 .. l.size - 1 => FirstOf(c, at(k), FirstFold(c, at(k)))
  BY <1>4
<1>a. SecondOf(c, t, SecondFold(c, t)) <=>
        /\ SecondFold(c, t) \in Seq(Int) /\ Distinct(SecondFold(c, t))
        /\ \A y : y \in Range(SecondFold(c, t)) <=>
              y \in 1 .. c.n /\ ((y - 1) % GlobalSize) % l.items = t
  BY DEF SecondOf
<1> HIDE DEF l
<1>6. /\ h \in Nat /\ h # 0
      /\ \A k \in 1 .. h : at(k) \in 0 .. l.size - 1
      /\ \A q \in Nat : t + q * l.items < l.size => q + 1 \in 1 .. h
  <2>1. t \in Nat /\ t < l.size BY <1>1, <1>2
  <2> QED BY <1>1, <2>1, HopsFacts
<1>7. \A k \in 1 .. h : FirstOf(c, at(k), FirstFold(c, at(k))) BY <1>5, <1>6
<1>8. ASSUME NEW k \in 1 .. h PROVE at(k) \div l.items = k - 1 /\ at(k) % l.items = t
  <2>1. k - 1 \in Nat BY <1>6
  <2> DEFINE r == k - 1
             a == r * l.items
  <2>2. (a + t) \div l.items = r /\ (a + t) % l.items = t BY <1>1, <1>2, <2>1, OfPlace
  <2>3. a \in Nat BY <1>1, <2>1, Times
  <2>4. a + t = t + a
    <3> HIDE DEF a
    <3> QED BY <1>1, <1>2, <2>3
  <2> QED BY <2>2, <2>4
<1> HIDE DEF h, at
<1>9. s \in Seq(Seq(Int)) /\ Len(s) = h /\ \A k \in 1 .. h : s[k] = FirstFold(c, at(k))
  <2>1. \A k \in 1 .. h : s[k] = FirstFold(c, at(k)) /\ s[k] \in Seq(Int) BY <1>7 DEF FirstOf
  <2>2. s = [k \in 1 .. h |-> s[k]] OBVIOUS
  <2> HIDE DEF s
  <2> QED BY <1>6, <2>1, <2>2, LenOfFunction
<1> HIDE DEF s
<1>10. Unshared(s, h)
  <2>1. \A i \in 1 .. h : Distinct(s[i]) BY <1>7, <1>9 DEF FirstOf
  <2>2. ASSUME NEW i \in 1 .. h, NEW j \in 1 .. h, i # j PROVE Disjoint(s[i], s[j])
    <3> SUFFICES ASSUME NEW y, y \in Range(s[i]), y \in Range(s[j]) PROVE FALSE BY DEF Disjoint
    <3>1. (y - 1) % GlobalSize = at(i) /\ (y - 1) % GlobalSize = at(j)
      BY <1>7, <1>9 DEF FirstOf
    <3>2. at(i) = at(j) BY <3>1
    <3>3. i - 1 = j - 1 BY <1>8, <3>2
    <3> QED BY <2>2, <3>3, <1>6
  <2> QED BY <2>1, <2>2 DEF Unshared
<1>11. Gathers(Int, FlattenSeq(s), s, h) BY <1>9, <1>10, FlattenGathers
<1> DEFINE v == FlattenSeq(s)
<1>12. v \in Seq(Int) /\ Distinct(v) BY <1>11 DEF Gathers
<1>13. \A y : y \in Range(v) <=> \E k \in 1 .. h : y \in Range(s[k]) BY <1>11 DEF Gathers
<1> HIDE DEF v
<1>14. ASSUME NEW y, y \in Range(v)
       PROVE  y \in 1 .. c.n /\ ((y - 1) % GlobalSize) % l.items = t
  <2>1. PICK k \in 1 .. h : y \in Range(s[k]) BY <1>13, <1>14
  <2>2. y \in 1 .. c.n /\ (y - 1) % GlobalSize = at(k) BY <1>7, <1>9, <2>1 DEF FirstOf
  <2> QED BY <1>8, <2>2
<1>15. ASSUME NEW y \in 1 .. c.n, ((y - 1) % GlobalSize) % l.items = t
       PROVE  y \in Range(v)
  <2> DEFINE z == y - 1
             m == z % GlobalSize
             q == m \div l.items
             a == q * l.items
             p == z \div GlobalSize
             k == q + 1
  <2>1. z \in Nat /\ z < c.n BY <1>1
  <2> HIDE DEF z
  <2>2. m \in Nat /\ m <= z /\ m < GlobalSize
    <3>1. p \in Nat /\ m \in 0 .. GlobalSize - 1 /\ z = GlobalSize * p + m BY <1>1, <2>1, Division
    <3> DEFINE b == GlobalSize * p
    <3>2. b \in Nat BY <1>1, <3>1, Times
    <3>3. z = b + m BY <3>1
    <3> HIDE DEF m, p, b
    <3> QED BY <1>1, <2>1, <3>1, <3>2, <3>3
  <2>3. m % l.items = t BY <1>15 DEF z
  <2> HIDE DEF m
  <2>4. q \in Nat /\ m = l.items * q + (m % l.items) BY <1>1, <2>2, Division
  <2> HIDE DEF q
  <2>5. l.items * q = a /\ a \in Nat BY <1>1, <2>4, Times
  <2>6. m = t + a
    <3> HIDE DEF a
    <3> QED BY <1>1, <1>2, <2>2, <2>3, <2>4, <2>5
  <2>7. m < l.size BY <1>1, <2>1, <2>2
  <2>8. k \in 1 .. h BY <1>6, <2>4, <2>6, <2>7
  <2>9. at(k) = m
    <3>1. k - 1 = q BY <2>4
    <3> QED BY <2>6, <3>1 DEF at
  <2> HIDE DEF k
  <2>10. y \in Range(s[k]) BY <1>7, <1>9, <2>8, <2>9 DEF FirstOf, m, z
  <2> QED BY <1>13, <2>8, <2>10
<1> QED BY <1>3, <1>12, <1>14, <1>15, <1>a DEF v

-----------------------------------------------------------------------------
\* The rounds.
Lists(l) == [ItemOf(l) -> Seq(Int)]

LEMMA Half ==
  ASSUME NEW m \in Nat
  PROVE  /\ m \div 2 \in Nat /\ CeilDiv(m, 2) \in Nat
         /\ m \div 2 + CeilDiv(m, 2) = m /\ m \div 2 <= CeilDiv(m, 2)
         /\ CeilDiv(m, 2) <= m \div 2 + 1
BY DEF CeilDiv

LEMMA HalvedIsList ==
  ASSUME NEW l, l.items \in Nat, NEW f \in Lists(l), NEW m \in Nat, m <= l.items
  PROVE  /\ Halved(l, f, m) \in Lists(l)
         /\ \A t \in ItemOf(l) : t < m \div 2 => t + CeilDiv(m, 2) \in ItemOf(l)
<1>1. /\ m \div 2 \in Nat /\ CeilDiv(m, 2) \in Nat /\ m \div 2 + CeilDiv(m, 2) = m
  BY Half
<1> DEFINE a == m \div 2
           b == CeilDiv(m, 2)
<1> HIDE DEF a, b
<1>2. ASSUME NEW t \in ItemOf(l), t < a PROVE t + b \in ItemOf(l)
  BY <1>1, <1>2 DEF ItemOf, a, b
<1>3. ASSUME NEW t \in ItemOf(l)
      PROVE  (IF t < a THEN f[t] \o f[t + b] ELSE f[t]) \in Seq(Int)
  <2>1. CASE t < a
    <3>1. f[t] \in Seq(Int) /\ f[t + b] \in Seq(Int) BY <1>2, <2>1 DEF Lists
    <3> QED BY <2>1, <3>1, ConcatProperties
  <2>2. CASE ~ (t < a) BY <2>2 DEF Lists
  <2> QED BY <2>1, <2>2
<1>4. Halved(l, f, m) = [t \in ItemOf(l) |-> IF t < a THEN f[t] \o f[t + b] ELSE f[t]]
  BY DEF Halved, a, b
<1> QED BY <1>2, <1>3, <1>4 DEF Lists, a, b

LEMMA RemainingBound ==
  ASSUME NEW c, Reduces(c), NEW l, l = ReduceSecond(c)
  PROVE  /\ Remaining(l) \in [Nat -> Nat] /\ Remaining(l)[0] = l.items
         /\ \A n \in Nat : /\ Remaining(l)[n + 1] = CeilDiv(Remaining(l)[n], 2)
                           /\ Remaining(l)[n] \in Positive /\ Remaining(l)[n] <= l.items
<1>1. l.items \in Positive /\ l.items \in Nat /\ l.size \in Nat /\ l.items <= l.size
  BY ReduceNumbers
<1> DEFINE r == Remaining(l)
           A == {n \in Nat : r[n] \in Positive /\ r[n] <= l.items}
<1>2. /\ r \in [Nat -> Nat] /\ r[0] = Min({l.items, l.size})
      /\ \A n \in Nat : r[n + 1] = CeilDiv(r[n], 2)
  BY <1>1, RemainingFacts
<1> HIDE DEF r
<1>3. r[0] = l.items
  <2> DEFINE a == l.items
             b == l.size
             m == Min({a, b})
  <2>1. a \in Int /\ b \in Int /\ a <= b BY <1>1
  <2> HIDE DEF a, b
  <2>2. m \in {a, b} /\ m <= a /\ m <= b BY <2>1, MinOfTwo
  <2> HIDE DEF m
  <2>3. m = a BY <2>1, <2>2
  <2> QED BY <1>2, <2>3 DEF m, a, b
<1>4. 0 \in A BY <1>1, <1>3
<1>5. ASSUME NEW n \in Nat, n \in A PROVE n + 1 \in A
  <2>1. r[n] \in Nat /\ r[n] > 0 /\ r[n] <= l.items BY <1>5 DEF Positive
  <2> DEFINE m == r[n]
             d == CeilDiv(m, 2)
  <2> HIDE DEF m
  <2>2. /\ m \div 2 \in Nat /\ d \in Nat
        /\ m \div 2 + d = m /\ m \div 2 <= d
    BY <2>1, Half DEF m
  <2> HIDE DEF d
  <2>3. d > 0 /\ d <= m BY <2>1, <2>2 DEF m
  <2>4. r[n + 1] = d BY <1>2 DEF d, m
  <2> QED BY <1>1, <2>1, <2>2, <2>3, <2>4 DEF m, Positive
<1>6. \A n \in Nat : n \in A
  <2> HIDE DEF A
  <2> QED BY <1>4, <1>5, Naturals
<1> QED BY <1>2, <1>3, <1>6 DEF r

LEMMA RoundFolds ==
  ASSUME NEW c, Reduces(c), NEW l, l = ReduceSecond(c)
  PROVE  /\ RoundFold(c) \in [Nat -> Lists(l)]
         /\ \A t \in ItemOf(l) : RoundFold(c)[0][t] = SecondFold(c, t)
         /\ \A n \in Nat : RoundFold(c)[n + 1] = Halved(l, RoundFold(c)[n], Remaining(l)[n])
<1> DEFINE V == Lists(l)
           start == [t \in ItemOf(l) |-> SecondFold(c, t)]
           r == Remaining(l)
           step == [x \in Nat \X V |-> IF x[1] = 0 THEN x[2] ELSE Halved(l, x[2], r[x[1] - 1])]
           Eq(f) == f = [n \in Nat |-> IF n = 0 THEN start ELSE Halved(l, f[n - 1], r[n - 1])]
           S == CHOOSE f : Eq(f)
<1>1. RoundFold(c) = S BY DEF RoundFold
<1>2. l.items \in Nat /\ r \in [Nat -> Nat] /\ \A n \in Nat : r[n] <= l.items
  BY ReduceNumbers, RemainingBound
<1>3. start \in V
  <2>1. \A t \in ItemOf(l) : SecondFold(c, t) \in Seq(Int) BY SecondFoldIs DEF SecondOf, ItemOf
  <2> QED BY <2>1 DEF Lists
<1> HIDE DEF r, V
<1>4. \A f \in V, n \in Nat : Halved(l, f, r[n]) \in V BY <1>2, HalvedIsList DEF V
<1>5. step \in [Nat \X V -> V]
  <2>1. \A x \in Nat \X V : x[1] # 0 => x[1] - 1 \in Nat OBVIOUS
  <2>2. \A x \in Nat \X V : (IF x[1] = 0 THEN x[2] ELSE Halved(l, x[2], r[x[1] - 1])) \in V
    BY <1>4, <2>1
  <2> QED BY <2>2
<1>6. Initial(Nat) BY DEF Initial
<1> HIDE DEF start
<1>7. PICK f \in [Nat -> V] : Follows(f, Nat, start, step)
  <2> HIDE DEF step
  <2> QED BY <1>3, <1>5, <1>6, Recursion
<1>8. Eq(f)
  <2>1. \A n \in Nat : n # 0 => f[n - 1] \in V BY <1>7
  <2>2. \A n \in Nat : n # 0 => step[<<n, f[n - 1]>>] = Halved(l, f[n - 1], r[n - 1])
    BY <2>1
  <2> HIDE DEF step
  <2>3. f = [n \in Nat |-> IF n = 0 THEN start ELSE step[<<n, f[n - 1]>>]]
    BY <1>7 DEF Follows
  <2> QED BY <2>2, <2>3
<1>9. Eq(S)
  <2> HIDE DEF Eq
  <2> QED BY <1>8
<1> HIDE DEF S
<1>10. S[0] = start BY <1>9
<1>11. ASSUME NEW n \in Nat PROVE S[n + 1] = Halved(l, S[n], r[n])
  <2>1. n + 1 \in Nat /\ n + 1 # 0 /\ (n + 1) - 1 = n OBVIOUS
  <2> QED BY <2>1, <1>9
<1> DEFINE A == {n \in Nat : S[n] \in V}
<1>12. \A n \in Nat : n \in A
  <2>1. 0 \in A BY <1>3, <1>10
  <2>2. \A n \in Nat : n \in A => n + 1 \in A BY <1>4, <1>11
  <2> HIDE DEF A
  <2> QED BY <2>1, <2>2, Naturals
<1>13. S \in [Nat -> V]
  <2>1. S = [n \in Nat |-> S[n]] BY <1>9
  <2> QED BY <2>1, <1>12
<1>14. \A t \in ItemOf(l) : S[0][t] = SecondFold(c, t) BY <1>10 DEF start
<1> QED BY <1>1, <1>11, <1>13, <1>14 DEF V, r

(***************************************************************************)
(* In every round the first m items share the inputs out among themselves. *)
(***************************************************************************)
Splits(f, m, n) ==
  /\ \A t \in 0 .. m - 1 : f[t] \in Seq(Int) /\ Distinct(f[t])
  /\ \A t, u \in 0 .. m - 1 : t # u => Disjoint(f[t], f[u])
  /\ \A y : y \in 1 .. n <=> \E t \in 0 .. m - 1 : y \in Range(f[t])

LEMMA HalvedSplits ==
  ASSUME NEW l, l.items \in Nat, NEW f \in Lists(l), NEW m \in Nat, m <= l.items,
         NEW n, Splits(f, m, n)
  PROVE  Splits(Halved(l, f, m), CeilDiv(m, 2), n)
<1> DEFINE a == m \div 2
           b == CeilDiv(m, 2)
           h == Halved(l, f, m)
<1>1. a \in Nat /\ b \in Nat /\ a + b = m /\ a <= b BY Half
<1>2. \A t \in ItemOf(l) : h[t] = IF t < a THEN f[t] \o f[t + b] ELSE f[t] BY DEF Halved
<1> HIDE DEF a, b, h
<1>3. \A t \in 0 .. b - 1 :
        /\ t \in ItemOf(l) /\ t \in 0 .. m - 1
        /\ t < a => t + b \in 0 .. m - 1 /\ t + b # t
  BY <1>1 DEF ItemOf
<1>4. ASSUME NEW t \in 0 .. b - 1
      PROVE  /\ h[t] \in Seq(Int) /\ Distinct(h[t])
             /\ \A y : y \in Range(h[t]) <=>
                         y \in Range(f[t]) \/ (t < a /\ y \in Range(f[t + b]))
  <2>1. CASE t < a
    <3>1. /\ f[t] \in Seq(Int) /\ Distinct(f[t])
          /\ f[t + b] \in Seq(Int) /\ Distinct(f[t + b])
          /\ Disjoint(f[t], f[t + b])
      BY <1>3, <2>1 DEF Splits
    <3>2. h[t] = f[t] \o f[t + b] BY <1>2, <1>3, <2>1
    <3>3. Distinct(f[t] \o f[t + b]) BY <3>1, ConcatDistinct
    <3>4. /\ f[t] \o f[t + b] \in Seq(Int)
          /\ \A y : y \in Range(f[t] \o f[t + b]) <=> y \in Range(f[t]) \/ y \in Range(f[t + b])
      BY <3>1, ConcatRange
    <3> QED BY <2>1, <3>2, <3>3, <3>4
  <2>2. CASE ~ (t < a)
    <3>1. h[t] = f[t] BY <1>2, <1>3, <2>2
    <3>2. f[t] \in Seq(Int) /\ Distinct(f[t]) BY <1>3 DEF Splits
    <3> QED BY <2>2, <3>1, <3>2
  <2> QED BY <2>1, <2>2
<1>5. ASSUME NEW t \in 0 .. b - 1, NEW u \in 0 .. b - 1, t # u PROVE Disjoint(h[t], h[u])
  <2> SUFFICES ASSUME NEW y, y \in Range(h[t]), y \in Range(h[u]) PROVE FALSE BY DEF Disjoint
  <2>1. PICK p \in 0 .. m - 1 : y \in Range(f[p]) /\ (p = t \/ (t < a /\ p = t + b))
    BY <1>3, <1>4
  <2>2. PICK q \in 0 .. m - 1 : y \in Range(f[q]) /\ (q = u \/ (u < a /\ q = u + b))
    BY <1>3, <1>4
  <2>3. p # q BY <1>1, <1>5, <2>1, <2>2
  <2> QED BY <2>1, <2>2, <2>3 DEF Splits, Disjoint
<1>6. ASSUME NEW y, y \in 1 .. n PROVE \E t \in 0 .. b - 1 : y \in Range(h[t])
  <2>1. PICK p \in 0 .. m - 1 : y \in Range(f[p]) BY <1>6 DEF Splits
  <2>2. CASE p < b
    <3>1. p \in 0 .. b - 1 BY <1>1, <2>2
    <3> QED BY <1>4, <2>1, <3>1
  <2>3. CASE ~ (p < b)
    <3>1. p - b \in 0 .. b - 1 /\ p - b < a /\ (p - b) + b = p BY <1>1, <2>3
    <3> QED BY <1>4, <2>1, <3>1
  <2> QED BY <2>2, <2>3
<1>7. ASSUME NEW y, NEW t \in 0 .. b - 1, y \in Range(h[t]) PROVE y \in 1 .. n
  BY <1>3, <1>4, <1>7 DEF Splits
<1> QED BY <1>4, <1>5, <1>6, <1>7 DEF Splits, b, h

LEMMA RoundsSplit ==
  ASSUME NEW c, Reduces(c), NEW l, l = ReduceSecond(c), NEW n \in Nat
  PROVE  Splits(RoundFold(c)[n], Remaining(l)[n], c.n)
<1> DEFINE f == RoundFold(c)
           r == Remaining(l)
           A == {k \in Nat : Splits(f[k], r[k], c.n)}
<1>1. /\ f \in [Nat -> Lists(l)] /\ \A t \in ItemOf(l) : f[0][t] = SecondFold(c, t)
      /\ \A k \in Nat : f[k + 1] = Halved(l, f[k], r[k])
  BY RoundFolds
<1>2. /\ r \in [Nat -> Nat] /\ r[0] = l.items
      /\ \A k \in Nat : r[k + 1] = CeilDiv(r[k], 2) /\ r[k] <= l.items
  BY RemainingBound
<1>3. l.items \in Nat /\ l.items \in Positive /\ GlobalSize \in Positive /\ c.n \in Nat
  BY ReduceNumbers
<1> HIDE DEF f, r
<1>4. 0 \in A
  <2> DEFINE o == f[0]
  <2>1. \A t \in 0 .. l.items - 1 : SecondOf(c, t, o[t])
    BY <1>1, SecondFoldIs DEF ItemOf
  <2> HIDE DEF o
  <2>2. \A t \in 0 .. l.items - 1 :
          /\ o[t] \in Seq(Int) /\ Distinct(o[t])
          /\ \A y : y \in Range(o[t]) <=>
                      y \in 1 .. c.n /\ ((y - 1) % GlobalSize) % l.items = t
    BY <2>1 DEF SecondOf
  <2>3. ASSUME NEW t \in 0 .. l.items - 1, NEW u \in 0 .. l.items - 1, t # u
        PROVE  Disjoint(o[t], o[u])
    <3> SUFFICES ASSUME NEW y, y \in Range(o[t]), y \in Range(o[u]) PROVE FALSE BY DEF Disjoint
    <3>1. ((y - 1) % GlobalSize) % l.items = t /\ ((y - 1) % GlobalSize) % l.items = u
      BY <2>2
    <3> QED BY <2>3, <3>1
  <2>4. ASSUME NEW y \in 1 .. c.n PROVE \E t \in 0 .. l.items - 1 : y \in Range(o[t])
    <3> DEFINE z == (y - 1) % GlobalSize
    <3>1. y - 1 \in Nat BY <1>3
    <3>2. z \in 0 .. GlobalSize - 1 BY <1>3, <3>1, Division
    <3> HIDE DEF z
    <3>3. z \in Nat BY <3>2
    <3>4. z % l.items \in 0 .. l.items - 1 BY <1>3, <3>3, Division
    <3> QED BY <2>2, <3>4 DEF z
  <2>5. Splits(o, l.items, c.n) BY <2>2, <2>3, <2>4 DEF Splits
  <2> QED BY <1>2, <2>5 DEF o
<1>5. ASSUME NEW k \in Nat, k \in A PROVE k + 1 \in A
  <2> DEFINE m == r[k]
             o == f[k]
  <2>1. m \in Nat /\ m <= l.items /\ o \in Lists(l) /\ Splits(o, m, c.n)
    BY <1>1, <1>2, <1>5
  <2> HIDE DEF m, o
  <2>2. Splits(Halved(l, o, m), CeilDiv(m, 2), c.n) BY <1>3, <2>1, HalvedSplits
  <2> QED BY <1>1, <1>2, <2>2 DEF m, o
<1>6. \A k \in Nat : k \in A
  <2> HIDE DEF A
  <2> QED BY <1>4, <1>5, Naturals
<1> QED BY <1>6 DEF f, r

\* What is left in the end.
LEMMA LastRound ==
  ASSUME NEW c, Reduces(c), NEW l, l = ReduceSecond(c)
  PROVE  /\ Rounds(l) \in Nat
         /\ CombinationOf(RoundFold(c)[Rounds(l)][0], c.n)
<1> DEFINE n == Rounds(l)
           r == Remaining(l)
           v == RoundFold(c)[n][0]
<1>1. l.items \in Nat /\ l.size \in Nat /\ c.n \in Nat BY ReduceNumbers
<1>2. n \in Nat BY <1>1, RoundsFacts
<1>3. r[n] <= 1 BY <1>1, RoundsFacts
<1>4. r[n] \in Positive BY <1>2, RemainingBound
<1>5. Splits(RoundFold(c)[n], r[n], c.n) BY <1>2, RoundsSplit
<1>6. r[n] = 1 BY <1>3, <1>4 DEF Positive
<1> HIDE DEF r, n
<1>7. Splits(RoundFold(c)[n], 1, c.n) BY <1>5, <1>6
<1> DEFINE f == RoundFold(c)[n]
<1>8. 0 .. 1 - 1 = {0} OBVIOUS
<1> HIDE DEF f
<1>9. /\ f[0] \in Seq(Int) /\ Distinct(f[0])
      /\ \A y : y \in 1 .. c.n <=> y \in Range(f[0])
  BY <1>7, <1>8 DEF Splits, f
<1>10. Len(f[0]) = c.n /\ Range(f[0]) = 1 .. c.n BY <1>1, <1>9, DistinctLen
<1> QED BY <1>2, <1>10 DEF CombinationOf, f, n

-----------------------------------------------------------------------------
(***************************************************************************)
(* The launches of a reduction, and its memory.                            *)
(***************************************************************************)
LEMMA ReduceLaunched ==
  ASSUME NEW c, Reduces(c)
  PROVE  /\ DOMAIN Launches(c) = {1, 2} /\ Len(Launches(c)) = 2
         /\ Launches(c)[1] = ReduceFirst(c) /\ Launches(c)[2] = ReduceSecond(c)
         /\ Launches(c) \in Seq(LaunchOf(c))
<1> DEFINE a == ReduceFirst(c)
           b == ReduceSecond(c)
<1>1. Launches(c) = <<a, b>> BY DEF Launches, ReduceLaunches, Reduces
<1>2. Launches(c) \in Seq(LaunchOf(c)) BY ReduceIsScheduled DEF Scheduled, Reduces
<1> HIDE DEF a, b
<1>3. DOMAIN <<a, b>> = {1, 2} /\ Len(<<a, b>>) = 2 /\ <<a, b>>[1] = a /\ <<a, b>>[2] = b
  OBVIOUS
<1> QED BY <1>1, <1>2, <1>3 DEF a, b

LEMMA ReduceMemory ==
  ASSUME NEW c, Reduces(c)
  PROVE  /\ Numbered(c)
         /\ DOMAIN Buffers(c) = {In, Out, Temporary(0)}
         /\ {In, Out, Temporary(0)} \subseteq Int \ {Shared} /\ Shared \in Int
         /\ Buffers(c)[In] = Labelled(c.n, 0)
         /\ DOMAIN Buffers(c)[In] = 0 .. c.n - 1
         /\ DOMAIN Buffers(c)[Out] = {0}
         /\ DOMAIN Buffers(c)[Temporary(0)] = 0 .. GlobalSize - 1
<1>1. Buffers(c) = [b \in {In, Out, Temporary(0)} |->
                      CASE b = In  -> Labelled(c.n, 0)
                        [] b = Out -> Fresh(1)
                        [] OTHER   -> Fresh(GlobalSize)]
  BY DEF Buffers, ReduceBuffers, Reduces
<1>2. DOMAIN Buffers(c) = {In, Out, Temporary(0)} BY <1>1
<1>3. /\ Buffers(c)[In] = Labelled(c.n, 0) /\ Buffers(c)[Out] = Fresh(1)
      /\ Buffers(c)[Temporary(0)] = Fresh(GlobalSize)
  BY <1>1 DEF In, Out, Temporary
<1>4. {In, Out, Temporary(0)} \subseteq Int \ {Shared} /\ Shared \in Int
  BY DEF In, Out, Temporary, Shared
<1>5. DOMAIN Labelled(c.n, 0) = 0 .. c.n - 1 BY DEF Labelled
<1>6. DOMAIN Fresh(1) = 0 .. 1 - 1 /\ DOMAIN Fresh(GlobalSize) = 0 .. GlobalSize - 1 BY DEF Fresh
<1>7. 0 .. 1 - 1 = {0} /\ 0 .. c.n - 1 \subseteq Int /\ 0 .. GlobalSize - 1 \subseteq Int
      /\ {0} \subseteq Int
  OBVIOUS
<1>8. \A b \in DOMAIN Buffers(c) : DOMAIN Buffers(c)[b] \subseteq Int
  BY <1>2, <1>3, <1>5, <1>6, <1>7
<1> QED BY <1>2, <1>3, <1>4, <1>5, <1>6, <1>7, <1>8 DEF Numbered

-----------------------------------------------------------------------------
\* What the items of the first launch do.
Position(l, g, t) == g * l.items + t

StridedFrom(b, first, step, size) ==
  [k \in 1 .. Hops(first, step, size) |-> Cell(b, first + (k - 1) * step)]

LEMMA FirstCodes ==
  ASSUME NEW c, Reduces(c), NEW l, l = ReduceFirst(c)
  PROVE  /\ OnePhase(l) /\ l.groups \in Nat /\ l.items \in Positive
         /\ l.groups * l.items = GlobalSize
         /\ \A g \in GroupOf(l), t \in ItemOf(l) : Position(l, g, t) \in 0 .. GlobalSize - 1
         /\ \A g, t, p : LET y == Position(l, g, t)
                         IN  IF y > c.n THEN DOMAIN Code(l, g, t, p) = {}
                             ELSE Stores(Code(l, g, t, p), Cell(Temporary(0), y),
                                         StridedFrom(In, y, GlobalSize, c.n))
<1>1. /\ l.kernel = "SCL_REDUCE_1" /\ l.items = c.wg /\ l.size = c.n
      /\ l.groups = GlobalSize \div c.wg
  BY DEF ReduceFirst
<1>2. c.wg \in Positive /\ GlobalSize \in Nat /\ GlobalSize % c.wg = 0
  BY GlobalSizeAssumption DEF Reduces, ReduceCall, Positive
<1>3. l.groups \in Nat /\ l.groups * l.items = GlobalSize
  <2> DEFINE q == GlobalSize \div c.wg
  <2>1. q \in Nat /\ GlobalSize = c.wg * q + (GlobalSize % c.wg) BY <1>2, Division
  <2> HIDE DEF q
  <2>2. c.wg * q = q * c.wg /\ q * c.wg \in Nat BY <1>2, <2>1, Times DEF Positive
  <2> QED BY <1>1, <1>2, <2>1, <2>2 DEF q
<1>4. ASSUME NEW g \in GroupOf(l), NEW t \in ItemOf(l)
      PROVE  Position(l, g, t) \in 0 .. GlobalSize - 1
  <2>1. l.items \in Nat BY <1>1, <1>2 DEF Positive
  <2>2. g * l.items + t \in 0 .. l.groups * l.items - 1
    BY <1>3, <2>1, Place DEF GroupOf, ItemOf
  <2> QED BY <1>3, <2>2 DEF Position
<1>5. ASSUME NEW g, NEW t, NEW p
      PROVE  LET y == Position(l, g, t)
             IN  IF y > c.n THEN DOMAIN Code(l, g, t, p) = {}
                 ELSE Stores(Code(l, g, t, p), Cell(Temporary(0), y),
                             StridedFrom(In, y, GlobalSize, c.n))
  <2> DEFINE y == Position(l, g, t)
             s == StridedFrom(In, y, GlobalSize, c.n)
  <2>1. Strided(In, y, GlobalSize, c.n) = s BY DEF Strided, StridedFrom, Hops
  <2>2. Code(l, g, t, p) = IF y > c.n THEN Nothing ELSE At(Cell(Temporary(0), y), s)
    BY <1>1, <2>1 DEF Code, ReduceFirstCode, Position
  <2> HIDE DEF s, y
  <2>3. IF y > c.n THEN DOMAIN Code(l, g, t, p) = {}
        ELSE Stores(Code(l, g, t, p), Cell(Temporary(0), y), s)
    BY <2>2, CodeOfNone, StoresOne
  <2> QED BY <2>3 DEF y, s
<1>6. OnePhase(l) /\ l.items \in Positive BY <1>1, <1>2 DEF OnePhase
<1> QED BY <1>3, <1>4, <1>5, <1>6

\* What they find.
LEMMA FoundGiven ==
  ASSUME NEW c, Reduces(c), NEW y \in Nat
  PROVE  FirstFound(c, 1, Cell(In, y)) = <<GivenLabel(c, y)>>
<1>1. c.n \in Nat BY DEF Reduces, ReduceCall, Positive
<1>2. /\ Buffers(c)[In] = Labelled(c.n, 0) /\ DOMAIN Buffers(c)[In] = 0 .. c.n - 1
      /\ In \in DOMAIN Buffers(c) \ {Shared}
  BY ReduceMemory
<1>3. Launches(c) \in Seq(LaunchOf(c)) BY ReduceLaunched
<1>4. CASE y < c.n
  <2>1. y \in 0 .. c.n - 1 BY <1>1, <1>4
  <2>2. FirstFound(c, 1, Cell(In, y)) = <<0 + y + 1>> BY <1>1, <1>2, <1>3, <2>1, BeginsLabelled
  <2>3. 0 + y + 1 = y + 1 OBVIOUS
  <2> QED BY <1>4, <2>2, <2>3 DEF GivenLabel
<1>5. CASE ~ (y < c.n)
  <2> DEFINE x == Cell(In, y)
  <2>1. x[1] = In /\ x[2] = y BY DEF Cell
  <2> HIDE DEF x
  <2>2. y \notin 0 .. c.n - 1 BY <1>1, <1>5
  <2>3. ~ Within(c, Launches(c)[1], x) BY <1>2, <2>1, <2>2 DEF Within
  <2>4. FirstFound(c, 1, x) = JunkValue BY <2>3 DEF FirstFound
  <2> QED BY <1>5, <2>4 DEF GivenLabel, JunkValue, x
<1> QED BY <1>4, <1>5

LEMMA FirstLaunchWrites ==
  ASSUME NEW c, Reduces(c)
  PROVE  WritesOnce(c, 1)
<1> DEFINE l == ReduceFirst(c)
<1>1. Launches(c)[1] = l BY ReduceLaunched
<1>2. /\ \A g \in GroupOf(l), t \in ItemOf(l) : Position(l, g, t) \in 0 .. GlobalSize - 1
      /\ \A g, t, p : LET y == Position(l, g, t)
                      IN  IF y > c.n THEN DOMAIN Code(l, g, t, p) = {}
                          ELSE Stores(Code(l, g, t, p), Cell(Temporary(0), y),
                                      StridedFrom(In, y, GlobalSize, c.n))
  BY FirstCodes
<1>3. /\ GlobalSize \in Positive /\ GlobalSize \in Nat /\ c.n \in Nat
  BY ReduceNumbers
<1> HIDE DEF l
<1> SUFFICES ASSUME NEW g \in GroupOf(l), NEW t \in ItemOf(l), NEW x \in DOMAIN Code(l, g, t, 0)
             PROVE  Result(c, 1, x) = FlattenSeq([m \in DOMAIN Code(l, g, t, 0)[x] |->
                                        FirstFound(c, 1, Code(l, g, t, 0)[x][m])])
  BY <1>1 DEF WritesOnce
<1> DEFINE y == Position(l, g, t)
           h == Hops(y, GlobalSize, c.n)
           at(k) == y + (k - 1) * GlobalSize
           s == Code(l, g, t, 0)[x]
           f == FirstFold(c, y)
           e == [m \in DOMAIN s |-> FirstFound(c, 1, s[m])]
<1>4. y \in 0 .. GlobalSize - 1 BY <1>2
<1>5. ~ (y > c.n) /\ x = Cell(Temporary(0), y) /\ s = StridedFrom(In, y, GlobalSize, c.n)
  <2>1. IF y > c.n THEN DOMAIN Code(l, g, t, 0) = {}
        ELSE Stores(Code(l, g, t, 0), Cell(Temporary(0), y), StridedFrom(In, y, GlobalSize, c.n))
    BY <1>2
  <2> HIDE DEF y
  <2> QED BY <2>1 DEF Stores
<1>6. Result(c, 1, x) = f
  <2>1. x[2] = y BY <1>5 DEF Cell
  <2> QED BY <2>1 DEF Result, Reduce_Result, Reduces
<1> HIDE DEF y
<1>7. h \in Nat
  <2>1. y \in Nat BY <1>4
  <2> QED BY <1>3, <2>1, HopsFacts
<1>8. \A k \in 1 .. h : at(k) \in Nat
  <2> TAKE k \in 1 .. h
  <2> DEFINE a == (k - 1) * GlobalSize
  <2>1. k - 1 \in Nat BY <1>7
  <2>2. a \in Nat BY <1>3, <2>1, Times
  <2> HIDE DEF a
  <2> QED BY <1>4, <2>2 DEF a
<1>9. f = [k \in 1 .. h |-> GivenLabel(c, at(k))] BY DEF FirstFold, Hops
<1>10. s = [k \in 1 .. h |-> Cell(In, at(k))] BY <1>5 DEF StridedFrom
<1> HIDE DEF s, f, h, at
<1>11. \A k \in 1 .. h : GivenLabel(c, at(k)) \in Int BY <1>8 DEF GivenLabel
<1>12. Among(Int, f, h) BY <1>9, <1>11 DEF Among
<1>13. DOMAIN e = 1 .. h /\ e = [m \in DOMAIN e |-> e[m]] /\ \A m \in 1 .. h : e[m] = <<f[m]>>
  <2>1. DOMAIN s = 1 .. h BY <1>10
  <2>2. ASSUME NEW m \in 1 .. h PROVE FirstFound(c, 1, s[m]) = <<f[m]>>
    BY <1>8, <1>9, <1>10, FoundGiven
  <2> QED BY <2>1, <2>2
<1> HIDE DEF e
<1>14. FlattenSeq(e) = Firsts(f, h) BY <1>7, <1>12, <1>13, FlattenLabels
<1>15. Firsts(f, h) = f BY <1>9 DEF Firsts
<1> QED BY <1>6, <1>14, <1>15 DEF e, s

\* What the second launch begins with.
LEMMA SecondBegins ==
  ASSUME NEW c, Reduces(c), NEW y \in 0 .. ReduceSecond(c).size - 1
  PROVE  FirstFound(c, 2, Cell(Temporary(0), y)) = FirstFold(c, y)
<1> DEFINE l == ReduceFirst(c)
           x == Cell(Temporary(0), y)
<1>1. /\ Launches(c)[1] = l /\ Launches(c) \in Seq(LaunchOf(c)) /\ 1 \in DOMAIN Launches(c)
  BY ReduceLaunched
<1>2. /\ OnePhase(l) /\ l.groups \in Nat /\ l.items \in Positive
      /\ l.groups * l.items = GlobalSize
      /\ \A g, t, p : LET z == Position(l, g, t)
                      IN  IF z > c.n THEN DOMAIN Code(l, g, t, p) = {}
                          ELSE Stores(Code(l, g, t, p), Cell(Temporary(0), z),
                                      StridedFrom(In, z, GlobalSize, c.n))
  BY FirstCodes
<1>3. y \in 0 .. GlobalSize - 1 /\ ~ (y > c.n)
  <2>1. /\ ReduceSecond(c).size \in Nat /\ ReduceSecond(c).size <= c.n
        /\ ReduceSecond(c).size <= GlobalSize /\ c.n \in Nat /\ GlobalSize \in Nat
    BY ReduceNumbers
  <2> QED BY <2>1
<1>4. x[1] = Temporary(0) /\ x[2] = y BY DEF Cell
<1> HIDE DEF l
<1> DEFINE g == y \div l.items
           t == y % l.items
<1>5. g \in GroupOf(l) /\ t \in ItemOf(l) /\ Position(l, g, t) = y
  <2>1. /\ g \in 0 .. l.groups - 1 /\ t \in 0 .. l.items - 1 /\ y = g * l.items + t
    BY <1>2, <1>3, PlaceOf
  <2> QED BY <2>1 DEF GroupOf, ItemOf, Position
<1> HIDE DEF g, t
<1>6. x \in DOMAIN Code(l, g, t, 0) BY <1>2, <1>3, <1>5 DEF Stores
<1> HIDE DEF x
<1>7. StoredBy(l, g, x) BY <1>2, <1>5, <1>6, StoredOnce
<1>8. Start(c, 1 + 1, x) = Result(c, 1, x) BY <1>1, <1>5, <1>7, StartAfter
<1>9. Result(c, 1, x) = FirstFold(c, y) BY <1>4 DEF Result, Reduce_Result, Reduces
<1>10. Within(c, Launches(c)[2], x) /\ x[1] # Shared BY <1>3, <1>4, ReduceMemory DEF Within
<1>11. 1 + 1 = 2 OBVIOUS
<1> QED BY <1>8, <1>9, <1>10, <1>11 DEF FirstFound, x

-----------------------------------------------------------------------------
(***************************************************************************)
(* The second launch: the items of its one group, in rounds.               *)
(***************************************************************************)
Folding(c, l) == Reduces(c) /\ l = ReduceSecond(c)

LEMMA FoldingFacts ==
  ASSUME NEW c, NEW l, Folding(c, l)
  PROVE  /\ Reduces(c) /\ c.skeleton = "reduce" /\ l = ReduceSecond(c) /\ Launches(c)[2] = l
         /\ ~ OnePhase(l) /\ Rounds(l) \in Nat /\ l.items \in Nat /\ l.items \in Positive
         /\ l.size \in Nat /\ 0 \in ItemOf(l)
         /\ \A g, i : Phases(l, g, i) = Rounds(l) + 2
         /\ \A n \in Nat : /\ Remaining(l)[n] \in Nat /\ Remaining(l)[n] <= l.items
                           /\ RoundFold(c)[n] \in Lists(l)
                           /\ RoundFold(c)[n + 1] = Halved(l, RoundFold(c)[n], Remaining(l)[n])
         /\ \A t \in ItemOf(l) : RoundFold(c)[0][t] = SecondFold(c, t)
<1>1. /\ Reduces(c) /\ c.skeleton = "reduce" /\ l = ReduceSecond(c) BY DEF Folding, Reduces
<1>2. Launches(c)[2] = l BY <1>1, ReduceLaunched
<1>3. /\ l.kernel = "SCL_REDUCE_2" /\ l.items \in Nat /\ l.items \in Positive /\ l.size \in Nat
  BY <1>1, ReduceNumbers
<1>4. ~ OnePhase(l) /\ \A g, i : Phases(l, g, i) = Rounds(l) + 2
  BY <1>3 DEF OnePhase, Phases, ReduceSecondPhases
<1>5. Rounds(l) \in Nat BY <1>3, RoundsFacts
<1>6. 0 \in ItemOf(l) BY <1>3 DEF ItemOf, Positive
<1>7. /\ Remaining(l) \in [Nat -> Nat]
      /\ \A n \in Nat : Remaining(l)[n] <= l.items
  BY <1>1, RemainingBound
<1>8. /\ RoundFold(c) \in [Nat -> Lists(l)]
      /\ \A t \in ItemOf(l) : RoundFold(c)[0][t] = SecondFold(c, t)
      /\ \A n \in Nat : RoundFold(c)[n + 1] = Halved(l, RoundFold(c)[n], Remaining(l)[n])
  BY <1>1, RoundFolds
<1>9. \A n \in Nat : Remaining(l)[n] \in Nat /\ RoundFold(c)[n] \in Lists(l) BY <1>7, <1>8
<1> QED BY <1>1, <1>2, <1>3, <1>4, <1>5, <1>6, <1>7, <1>8, <1>9

LEMMA FoldingCodes ==
  ASSUME NEW c, NEW l, Folding(c, l), NEW g, NEW t
  PROVE  /\ Stores(Code(l, g, t, 0), Cell(Shared, t),
                   StridedFrom(Temporary(0), t, l.items, l.size))
         /\ \A p \in 1 .. Rounds(l) :
              IF t < Remaining(l)[p - 1] \div 2
              THEN Stores(Code(l, g, t, p), Cell(Shared, t),
                     <<Cell(Shared, t), Cell(Shared, t + CeilDiv(Remaining(l)[p - 1], 2))>>)
              ELSE DOMAIN Code(l, g, t, p) = {}
         /\ Stores(Code(l, g, t, Rounds(l) + 1), Cell(Out, 0), <<Cell(Shared, 0)>>)
<1> DEFINE n == Rounds(l)
<1>1. l.kernel = "SCL_REDUCE_2" BY ReduceNumbers DEF Folding
<1>2. n \in Nat BY FoldingFacts
<1>3. \A p : Code(l, g, t, p) = ReduceSecondCode(l, t, p) BY <1>1 DEF Code
<1> HIDE DEF n
<1>4. Stores(Code(l, g, t, 0), Cell(Shared, t), StridedFrom(Temporary(0), t, l.items, l.size))
  <2> DEFINE s == StridedFrom(Temporary(0), t, l.items, l.size)
  <2>1. Strided(Temporary(0), t, l.items, l.size) = s BY DEF Strided, StridedFrom, Hops
  <2>2. Code(l, g, t, 0) = At(Cell(Shared, t), s) BY <1>2, <1>3, <2>1 DEF ReduceSecondCode, n
  <2> HIDE DEF s
  <2> QED BY <2>2, StoresOne DEF s
<1>5. ASSUME NEW p \in 1 .. n
      PROVE  IF t < Remaining(l)[p - 1] \div 2
             THEN Stores(Code(l, g, t, p), Cell(Shared, t),
                    <<Cell(Shared, t), Cell(Shared, t + CeilDiv(Remaining(l)[p - 1], 2))>>)
             ELSE DOMAIN Code(l, g, t, p) = {}
  <2> DEFINE m == Remaining(l)[p - 1]
             s == <<Cell(Shared, t), Cell(Shared, t + CeilDiv(m, 2))>>
  <2>1. p # 0 BY <1>2
  <2>2. Code(l, g, t, p) = FoldHalves(t, m) BY <1>2, <1>3, <1>5, <2>1 DEF ReduceSecondCode, n
  <2>3. Code(l, g, t, p) = IF t < m \div 2 THEN At(Cell(Shared, t), s) ELSE Nothing
    BY <2>2 DEF FoldHalves
  <2> HIDE DEF m, s
  <2>4. IF t < m \div 2 THEN Stores(Code(l, g, t, p), Cell(Shared, t), s)
        ELSE DOMAIN Code(l, g, t, p) = {}
    BY <2>3, CodeOfNone, StoresOne
  <2> QED BY <2>4 DEF m, s
<1>6. Stores(Code(l, g, t, n + 1), Cell(Out, 0), <<Cell(Shared, 0)>>)
  <2>1. n + 1 # 0 /\ n + 1 \notin 1 .. n BY <1>2
  <2>2. Code(l, g, t, n + 1) = Copied(Cell(Out, 0), Cell(Shared, 0))
    BY <1>3, <2>1 DEF ReduceSecondCode, n
  <2> QED BY <2>2, CodeOfCopy DEF Stores
<1> QED BY <1>4, <1>5, <1>6 DEF n

\* Which cells they store.
OfPhase(l, q, x) ==
  \/ q = Rounds(l) + 1 /\ x = Cell(Out, 0)
  \/ q \in 0 .. Rounds(l) /\ \E t \in ItemOf(l) : x = Cell(Shared, t)

LEMMA FoldingStores ==
  ASSUME NEW c, NEW l, Folding(c, l), NEW g, NEW q \in Nat
  PROVE  /\ \A x : StoredIn(l, g, q, x) => OfPhase(l, q, x)
         /\ \A t \in ItemOf(l) :
              /\ q = 0 => StoredIn(l, g, q, Cell(Shared, t))
              /\ q \in 1 .. Rounds(l) =>
                   (StoredIn(l, g, q, Cell(Shared, t)) <=> t < Remaining(l)[q - 1] \div 2)
         /\ q = Rounds(l) + 1 => StoredIn(l, g, q, Cell(Out, 0))
<1> DEFINE n == Rounds(l)
<1>1. /\ n \in Nat /\ 0 \in ItemOf(l) /\ \A i : Phases(l, g, i) = n + 2 BY FoldingFacts
<1>2. \A t : /\ DOMAIN Code(l, g, t, 0) = {Cell(Shared, t)}
             /\ \A p \in 1 .. n : DOMAIN Code(l, g, t, p) =
                  IF t < Remaining(l)[p - 1] \div 2 THEN {Cell(Shared, t)} ELSE {}
             /\ DOMAIN Code(l, g, t, n + 1) = {Cell(Out, 0)}
  <2> TAKE t
  <2>1. /\ DOMAIN Code(l, g, t, 0) = {Cell(Shared, t)}
        /\ DOMAIN Code(l, g, t, n + 1) = {Cell(Out, 0)}
    BY FoldingCodes DEF Stores
  <2>2. ASSUME NEW p \in 1 .. n
        PROVE  DOMAIN Code(l, g, t, p) =
                 IF t < Remaining(l)[p - 1] \div 2 THEN {Cell(Shared, t)} ELSE {}
    BY FoldingCodes DEF Stores
  <2> QED BY <2>1, <2>2
<1> HIDE DEF n
<1>3. q = n + 1 => StoredIn(l, g, q, Cell(Out, 0))
  <2>1. n + 1 < n + 2 BY <1>1
  <2> QED BY <1>1, <1>2, <2>1 DEF StoredIn
<1>4. \A t, u : Cell(Shared, t) = Cell(Shared, u) => t = u BY DEF Cell
<1>5. \A t : Cell(Shared, t) # Cell(Out, 0) BY DEF Cell, Shared, Out
<1>6. ASSUME NEW x, StoredIn(l, g, q, x)
      PROVE  \/ q = n + 1 /\ x = Cell(Out, 0)
             \/ q \in 0 .. n /\ \E t \in ItemOf(l) : x = Cell(Shared, t)
  <2>1. PICK t \in ItemOf(l) : q < n + 2 /\ x \in DOMAIN Code(l, g, t, q)
    BY <1>1, <1>6 DEF StoredIn
  <2>2. q = 0 \/ q \in 1 .. n \/ q = n + 1 BY <1>1, <2>1
  <2>3. q \in 1 .. n \/ q = 0 => q \in 0 .. n BY <1>1
  <2>4. CASE q = 0 BY <1>2, <2>1, <2>3, <2>4
  <2>5. CASE q \in 1 .. n
    <3>1. DOMAIN Code(l, g, t, q) \subseteq {Cell(Shared, t)} BY <1>2, <2>5
    <3> QED BY <2>1, <2>3, <2>5, <3>1
  <2>6. CASE q = n + 1 BY <1>2, <2>1, <2>6
  <2> QED BY <2>2, <2>4, <2>5, <2>6
<1>7. ASSUME NEW t \in ItemOf(l)
      PROVE  /\ q = 0 => StoredIn(l, g, q, Cell(Shared, t))
             /\ q \in 1 .. n =>
                  (StoredIn(l, g, q, Cell(Shared, t)) <=> t < Remaining(l)[q - 1] \div 2)
  <2>1. q = 0 \/ q \in 1 .. n => q < n + 2 BY <1>1
  <2>2. ASSUME q = 0 PROVE StoredIn(l, g, q, Cell(Shared, t))
    BY <1>1, <1>2, <2>1, <2>2 DEF StoredIn
  <2>3. ASSUME q \in 1 .. n, t < Remaining(l)[q - 1] \div 2
        PROVE  StoredIn(l, g, q, Cell(Shared, t))
    BY <1>1, <1>2, <2>1, <2>3 DEF StoredIn
  <2>4. ASSUME q \in 1 .. n, StoredIn(l, g, q, Cell(Shared, t))
        PROVE  t < Remaining(l)[q - 1] \div 2
    <3>1. PICK u \in ItemOf(l) : Cell(Shared, t) \in DOMAIN Code(l, g, u, q)
      BY <2>4 DEF StoredIn
    <3>2. DOMAIN Code(l, g, u, q) =
            IF u < Remaining(l)[q - 1] \div 2 THEN {Cell(Shared, u)} ELSE {}
      BY <1>2, <2>4
    <3>3. u < Remaining(l)[q - 1] \div 2 /\ Cell(Shared, t) = Cell(Shared, u)
      BY <3>1, <3>2
    <3> QED BY <1>4, <3>3
  <2> QED BY <2>2, <2>3, <2>4
<1>8. \A x : StoredIn(l, g, q, x) => OfPhase(l, q, x) BY <1>6 DEF OfPhase, n
<1> QED BY <1>3, <1>7, <1>8 DEF n

\* What the phases store.
LEMMA FoldingWritten ==
  ASSUME NEW c, NEW l, Folding(c, l), NEW g
  PROVE  /\ \A q \in 0 .. Rounds(l) : \A t :
              Written(c, 2, g, q, Cell(Shared, t)) = RoundFold(c)[q][t]
         /\ \A x : /\ Written(c, 2, g, Rounds(l) + 1, x) = RoundFold(c)[Rounds(l)][0]
                   /\ Result(c, 2, x) = RoundFold(c)[Rounds(l)][0]
<1> DEFINE n == Rounds(l)
<1>1. /\ Launches(c)[2] = l /\ ~ OnePhase(l) /\ c.skeleton = "reduce" /\ n \in Nat
      /\ l = ReduceSecond(c)
  BY FoldingFacts
<1>2. \A q, x : Written(c, 2, g, q, x) = Reduce_Written(c, 2, q, x) BY <1>1 DEF Written
<1>3. \A x : Reduce_Result(c, 2, x) = RoundFold(c)[n][0] BY <1>1 DEF Reduce_Result
<1>4. \A q, x : Reduce_Written(c, 2, q, x) =
                  IF q > n THEN RoundFold(c)[n][0] ELSE RoundFold(c)[q][x[2]]
  BY <1>1, <1>3 DEF Reduce_Written
<1>5. \A t : Cell(Shared, t)[2] = t BY DEF Cell
<1> HIDE DEF n
<1>6. ASSUME NEW q \in 0 .. n, NEW t
      PROVE  Written(c, 2, g, q, Cell(Shared, t)) = RoundFold(c)[q][t]
  <2>1. ~ (q > n) BY <1>1
  <2> QED BY <1>2, <1>4, <1>5, <2>1
<1>7. n + 1 > n BY <1>1
<1>8. \A x : Result(c, 2, x) = RoundFold(c)[n][0] BY <1>1, <1>3 DEF Result
<1> QED BY <1>2, <1>4, <1>6, <1>7, <1>8 DEF n

\* What an item has after so many phases.
LEMMA FoldingValue ==
  ASSUME NEW c, NEW l, Folding(c, l), NEW g, NEW t \in ItemOf(l), NEW p \in 0 .. Rounds(l)
  PROVE  Value(c, 2, g, p + 1, Cell(Shared, t)) = RoundFold(c)[p][t]
<1> DEFINE n == Rounds(l)
           f == RoundFold(c)
           r == Remaining(l)
           x == Cell(Shared, t)
           A == {q \in Nat : q <= n => Value(c, 2, g, q + 1, x) = f[q][t]}
<1>1. /\ Launches(c)[2] = l /\ n \in Nat
      /\ \A q \in Nat : f[q + 1] = Halved(l, f[q], r[q])
  BY FoldingFacts
<1>2. /\ \A q \in 0 .. n : Written(c, 2, g, q, x) = f[q][t] BY FoldingWritten
<1>3. /\ StoredIn(l, g, 0, x)
      /\ \A q \in 1 .. n : StoredIn(l, g, q, x) <=> t < r[q - 1] \div 2
  <2>1. StoredIn(l, g, 0, x)
    <3>1. 0 \in Nat OBVIOUS
    <3> QED BY <3>1, FoldingStores
  <2>2. ASSUME NEW q \in 1 .. n PROVE StoredIn(l, g, q, x) <=> t < r[q - 1] \div 2
    <3>1. q \in Nat BY <1>1
    <3> QED BY <3>1, FoldingStores
  <2> QED BY <2>1, <2>2
<1> HIDE DEF n, f, r, x
<1>4. ASSUME NEW q \in 0 .. n, StoredIn(l, g, q, x) PROVE Value(c, 2, g, q + 1, x) = f[q][t]
  <2>1. q + 1 \in Nat /\ q \in 0 .. (q + 1) - 1 /\ q + 1 .. (q + 1) - 1 = {} BY <1>1
  <2>2. Value(c, 2, g, q + 1, x) = Written(c, 2, g, q, x) BY <1>1, <1>4, <2>1, ValueWritten
  <2> QED BY <1>2, <2>2
<1>5. 0 \in A
  <2>1. 0 \in 0 .. n BY <1>1
  <2> QED BY <1>3, <1>4, <2>1
<1>6. ASSUME NEW q \in Nat, q \in A PROVE q + 1 \in A
  <2> SUFFICES ASSUME q + 1 <= n PROVE Value(c, 2, g, (q + 1) + 1, x) = f[q + 1][t] OBVIOUS
  <2>1. q + 1 \in 1 .. n /\ q + 1 \in 0 .. n /\ (q + 1) - 1 = q /\ q + 1 \in Nat /\ q <= n
    BY <1>1
  <2>2. CASE t < r[q] \div 2
    <3>1. StoredIn(l, g, q + 1, x) BY <1>3, <2>1, <2>2
    <3> QED BY <1>4, <2>1, <3>1
  <2>3. CASE ~ (t < r[q] \div 2)
    <3>1. ~ StoredIn(l, g, q + 1, x) BY <1>3, <2>1, <2>3
    <3>2. Value(c, 2, g, (q + 1) + 1, x) = Value(c, 2, g, q + 1, x)
      BY <1>1, <2>1, <3>1, ValueKept
    <3>3. Halved(l, f[q], r[q])[t] = f[q][t] BY <2>3 DEF Halved
    <3>4. f[q + 1] = Halved(l, f[q], r[q]) BY <1>1
    <3>5. Value(c, 2, g, q + 1, x) = f[q][t] BY <1>6, <2>1
    <3> QED BY <3>2, <3>3, <3>4, <3>5
  <2> QED BY <2>2, <2>3
<1>7. \A q \in Nat : q \in A
  <2> HIDE DEF A
  <2> QED BY <1>5, <1>6, Naturals
<1>8. p \in Nat /\ p <= n BY <1>1 DEF n
<1> QED BY <1>7, <1>8 DEF n, f, x

LEMMA FoldingFound ==
  ASSUME NEW c, NEW l, Folding(c, l), NEW g, NEW t \in ItemOf(l), NEW p \in 1 .. Rounds(l) + 1
  PROVE  Found(c, 2, g, p, Cell(Shared, t)) = RoundFold(c)[p - 1][t]
<1>1. Launches(c)[2] = l /\ Rounds(l) \in Nat BY FoldingFacts
<1>2. l.local = l.items BY ReduceNumbers DEF Folding
<1>3. Within(c, l, Cell(Shared, t)) BY <1>2 DEF Within, Cell, ItemOf
<1> DEFINE q == p - 1
<1>4. q \in 0 .. Rounds(l) /\ q + 1 = p BY <1>1
<1> HIDE DEF q
<1>5. Value(c, 2, g, q + 1, Cell(Shared, t)) = RoundFold(c)[q][t] BY <1>4, FoldingValue
<1>6. Value(c, 2, g, p, Cell(Shared, t)) = RoundFold(c)[q][t] BY <1>4, <1>5
<1> QED BY <1>1, <1>3, <1>6 DEF Found, q

-----------------------------------------------------------------------------
\* What code at x writes, if it is the list s.
WritesList(c, k, g, p, x, s) ==
  Written(c, k, g, p, x) = FlattenSeq([n \in DOMAIN s |-> Found(c, k, g, p, s[n])])

LEMMA WritesOneList ==
  ASSUME NEW c, NEW k, NEW g, NEW p, NEW x, NEW y,
         Found(c, k, g, p, y) \in Seq(Int), Written(c, k, g, p, x) = Found(c, k, g, p, y)
  PROVE  WritesList(c, k, g, p, x, <<y>>)
<1> DEFINE s == <<y>>
           e == [n \in DOMAIN s |-> Found(c, k, g, p, s[n])]
           v == Found(c, k, g, p, y)
<1>1. DOMAIN s = {1} /\ s[1] = y OBVIOUS
<1>2. <<v>> = [n \in {1} |-> v]
  <2>1. 1 .. 1 = {1} OBVIOUS
  <2> QED BY <2>1
<1> HIDE DEF s
<1>3. e = <<v>> BY <1>1, <1>2
<1> HIDE DEF v
<1>4. FlattenSeq(<<v>>) = v BY FlattenTwo DEF v
<1> QED BY <1>3, <1>4 DEF WritesList, s, v

LEMMA WritesTwoLists ==
  ASSUME NEW c, NEW k, NEW g, NEW p, NEW x, NEW y, NEW z,
         Found(c, k, g, p, y) \in Seq(Int), Found(c, k, g, p, z) \in Seq(Int),
         Written(c, k, g, p, x) = Found(c, k, g, p, y) \o Found(c, k, g, p, z)
  PROVE  WritesList(c, k, g, p, x, <<y, z>>)
<1> DEFINE s == <<y, z>>
           e == [n \in DOMAIN s |-> Found(c, k, g, p, s[n])]
           u == Found(c, k, g, p, y)
           v == Found(c, k, g, p, z)
<1>1. DOMAIN s = 1 .. 2 /\ s[1] = y /\ s[2] = z OBVIOUS
<1>2. <<u, v>> = [n \in 1 .. 2 |-> IF n = 1 THEN u ELSE v] OBVIOUS
<1>a. \A n \in 1 .. 2 : n = 1 \/ n = 2 OBVIOUS
<1> HIDE DEF s
<1>3. e = <<u, v>>
  <2>1. \A n \in 1 .. 2 : Found(c, k, g, p, s[n]) = IF n = 1 THEN u ELSE v BY <1>1, <1>a
  <2> HIDE DEF u, v
  <2> QED BY <1>1, <1>2, <2>1
<1> HIDE DEF u, v
<1>4. FlattenSeq(<<u, v>>) = u \o v BY FlattenTwo DEF u, v
<1> QED BY <1>3, <1>4 DEF WritesList, s, u, v

LEMMA FoldingWrites ==
  ASSUME NEW c, NEW l, Folding(c, l)
  PROVE  Writes(c, 2)
<1> DEFINE n == Rounds(l)
           f == RoundFold(c)
           r == Remaining(l)
<1>1. /\ Launches(c)[2] = l /\ n \in Nat /\ 0 \in ItemOf(l) /\ l = ReduceSecond(c)
      /\ l.items \in Nat /\ l.items \in Positive /\ l.size \in Nat
      /\ \A g, i : Phases(l, g, i) = n + 2
      /\ \A k \in Nat : /\ r[k] \in Nat /\ r[k] <= l.items /\ f[k] \in Lists(l)
                        /\ f[k + 1] = Halved(l, f[k], r[k])
      /\ \A t \in ItemOf(l) : f[0][t] = SecondFold(c, t)
      /\ Reduces(c)
  BY FoldingFacts
<1>2. \A g : /\ \A q \in 0 .. n : \A t : Written(c, 2, g, q, Cell(Shared, t)) = f[q][t]
             /\ \A x : Written(c, 2, g, n + 1, x) = f[n][0]
  BY FoldingWritten
<1>3. \A g : \A t \in ItemOf(l), p \in 1 .. n + 1 :
        Found(c, 2, g, p, Cell(Shared, t)) = f[p - 1][t]
  BY FoldingFound
<1>4. \A k \in Nat : \A t \in ItemOf(l) : f[k][t] \in Seq(Int) BY <1>1 DEF Lists
<1>a. l.items <= l.size BY <1>1, ReduceNumbers
<1> HIDE DEF n, f, r
<1>5. ASSUME NEW g \in GroupOf(l), NEW t \in ItemOf(l), NEW p \in Nat, p < n + 2,
             NEW x \in DOMAIN Code(l, g, t, p)
      PROVE  WritesList(c, 2, g, p, x, Code(l, g, t, p)[x])
  <2>1. p = 0 \/ p \in 1 .. n \/ p = n + 1 BY <1>1, <1>5
  <2>2. CASE p = 0
    <3> DEFINE h == Hops(t, l.items, l.size)
               at(k) == t + (k - 1) * l.items
               s == Code(l, g, t, p)[x]
               e == [k \in DOMAIN s |-> Found(c, 2, g, p, s[k])]
    <3>1. x = Cell(Shared, t) /\ s = StridedFrom(Temporary(0), t, l.items, l.size)
      <4>1. Stores(Code(l, g, t, 0), Cell(Shared, t), StridedFrom(Temporary(0), t, l.items, l.size))
        BY FoldingCodes
      <4>2. Stores(Code(l, g, t, p), Cell(Shared, t), StridedFrom(Temporary(0), t, l.items, l.size))
        BY <2>2, <4>1
      <4> QED BY <1>5, <4>2 DEF Stores
    <3>2. s = [k \in 1 .. h |-> Cell(Temporary(0), at(k))] BY <3>1 DEF StridedFrom
    <3>3. \A k \in 1 .. h : at(k) \in 0 .. l.size - 1
      <4>1. t \in Nat /\ t < l.size BY <1>1, <1>a DEF ItemOf
      <4> QED BY <1>1, <4>1, HopsFacts
    <3>4. SecondFold(c, t) = FlattenSeq([k \in 1 .. h |-> FirstFold(c, at(k))])
      BY <1>1 DEF SecondFold, Hops
    <3>5. Written(c, 2, g, p, x) = SecondFold(c, t)
      <4>1. 0 \in 0 .. n BY <1>1
      <4> QED BY <1>1, <1>2, <2>2, <3>1, <4>1
    <3> HIDE DEF h, at, s
    <3>6. ASSUME NEW k \in 1 .. h PROVE Found(c, 2, g, p, s[k]) = FirstFold(c, at(k))
      <4>1. FirstFound(c, 2, Cell(Temporary(0), at(k))) = FirstFold(c, at(k))
        BY <1>1, <3>3, SecondBegins
      <4>2. Found(c, 2, g, 0, s[k]) = FirstFound(c, 2, s[k]) BY FoundFirst
      <4> QED BY <2>2, <3>2, <4>1, <4>2
    <3>7. e = [k \in 1 .. h |-> FirstFold(c, at(k))]
      <4>1. DOMAIN s = 1 .. h BY <3>2
      <4> QED BY <3>6, <4>1
    <3> HIDE DEF e
    <3>8. Written(c, 2, g, p, x) = FlattenSeq(e) BY <3>4, <3>5, <3>7
    <3> QED BY <3>8 DEF WritesList, e, s
  <2>3. CASE p \in 1 .. n
    <3> DEFINE m == r[p - 1]
               a == m \div 2
               b == CeilDiv(m, 2)
    <3>1. p - 1 \in Nat /\ (p - 1) + 1 = p /\ p \in 0 .. n /\ p \in 1 .. n + 1 BY <1>1, <2>3
    <3>2. /\ t < a /\ x = Cell(Shared, t)
          /\ Code(l, g, t, p)[x] = <<Cell(Shared, t), Cell(Shared, t + b)>>
      <4>1. IF t < a THEN Stores(Code(l, g, t, p), Cell(Shared, t),
                                 <<Cell(Shared, t), Cell(Shared, t + b)>>)
            ELSE DOMAIN Code(l, g, t, p) = {}
        BY <2>3, FoldingCodes DEF n, r
      <4> HIDE DEF a, b, m
      <4> QED BY <1>5, <4>1 DEF Stores
    <3>3. m \in Nat /\ m <= l.items /\ f[p - 1] \in Lists(l) /\ f[p] = Halved(l, f[p - 1], m)
      BY <1>1, <3>1
    <3> HIDE DEF m
    <3>4. t + b \in ItemOf(l) BY <1>1, <3>2, <3>3, HalvedIsList
    <3>5. f[p][t] = f[p - 1][t] \o f[p - 1][t + b]
      <4>1. Halved(l, f[p - 1], m)[t] = f[p - 1][t] \o f[p - 1][t + b]
        BY <3>2 DEF Halved
      <4> QED BY <3>3, <4>1
    <3> DEFINE y == Cell(Shared, t)
               z == Cell(Shared, t + b)
    <3>6. Found(c, 2, g, p, y) = f[p - 1][t] /\ Found(c, 2, g, p, z) = f[p - 1][t + b]
      BY <1>3, <3>1, <3>4
    <3>7. Written(c, 2, g, p, x) = f[p][t] BY <1>2, <3>1, <3>2
    <3>8. f[p - 1][t] \in Seq(Int) /\ f[p - 1][t + b] \in Seq(Int) BY <1>4, <3>1, <3>4
    <3>9. Code(l, g, t, p)[x] = <<y, z>> BY <3>2
    <3> HIDE DEF a, b, y, z
    <3>10. WritesList(c, 2, g, p, x, <<y, z>>)
      BY <3>5, <3>6, <3>7, <3>8, WritesTwoLists
    <3> QED BY <3>9, <3>10
  <2>4. CASE p = n + 1
    <3> DEFINE y == Cell(Shared, 0)
    <3>1. x = Cell(Out, 0) /\ Code(l, g, t, p)[x] = <<y>>
      BY <1>5, <2>4, FoldingCodes DEF Stores, n
    <3>2. p \in 1 .. n + 1 /\ p - 1 = n BY <1>1, <2>4
    <3>3. Found(c, 2, g, p, y) = f[n][0] BY <1>1, <1>3, <3>2
    <3>4. Written(c, 2, g, p, x) = f[n][0] BY <1>2, <2>4
    <3>5. f[n][0] \in Seq(Int) BY <1>1, <1>4
    <3> HIDE DEF y
    <3>6. WritesList(c, 2, g, p, x, <<y>>) BY <3>3, <3>4, <3>5, WritesOneList
    <3> QED BY <3>1, <3>6
  <2> QED BY <2>1, <2>2, <2>3, <2>4
<1>6. ASSUME NEW g \in GroupOf(l), NEW i \in ItemOf(l), NEW p \in Nat, p < Phases(l, g, i),
             NEW x \in DOMAIN Code(l, g, i, p)
      PROVE  Written(c, 2, g, p, x) =
               FlattenSeq([m \in DOMAIN Code(l, g, i, p)[x] |->
                             Found(c, 2, g, p, Code(l, g, i, p)[x][m])])
  <2>1. p < n + 2 BY <1>1, <1>6
  <2> QED BY <1>5, <1>6, <2>1 DEF WritesList
<1> QED BY <1>1, <1>6 DEF Writes

LEMMA FoldingLeaves ==
  ASSUME NEW c, NEW l, Folding(c, l)
  PROVE  Leaves(c, 2)
<1> DEFINE n == Rounds(l)
           two == 2
           last == n + 1
<1>1. /\ Launches(c)[two] = l /\ n \in Nat /\ \A g, i : Phases(l, g, i) = n + 2
  BY FoldingFacts
<1>2. \A g, x : Written(c, two, g, last, x) = Result(c, two, x) BY FoldingWritten
<1> HIDE DEF n, two
<1> SUFFICES ASSUME NEW g \in GroupOf(l), NEW p \in Nat, NEW x,
                    x[1] # Shared, StoredBy(l, g, x), \A i \in ItemOf(l) : Phases(l, g, i) <= p
             PROVE  Value(c, two, g, p, x) = Result(c, two, x)
  BY <1>1 DEF Leaves, two
<1>3. PICK i \in ItemOf(l), q \in Nat : q < Phases(l, g, i) /\ x \in DOMAIN Code(l, g, i, q)
  BY DEF StoredBy
<1>4. StoredIn(l, g, q, x) BY <1>3 DEF StoredIn
<1>5. \A z \in Nat : StoredIn(l, g, z, x) => z = last
  <2> SUFFICES ASSUME NEW z \in Nat, StoredIn(l, g, z, x) PROVE z = last OBVIOUS
  <2>1. \A t : Cell(Shared, t)[1] = Shared BY DEF Cell
  <2>2. OfPhase(l, z, x) BY FoldingStores
  <2> QED BY <2>1, <2>2 DEF OfPhase, n
<1>6. q = last BY <1>4, <1>5
<1>7. last \in 0 .. p - 1 BY <1>1, <1>3
<1>8. \A z \in last + 1 .. p - 1 : ~ StoredIn(l, g, z, x)
  <2>1. \A z \in last + 1 .. p - 1 : z \in Nat /\ z # last BY <1>1
  <2> QED BY <1>5, <2>1
<1>9. Value(c, two, g, p, x) = Written(c, two, g, last, x)
  BY <1>1, <1>4, <1>6, <1>7, <1>8, ValueWritten
<1> QED BY <1>2, <1>9

-----------------------------------------------------------------------------
LEMMA FirstAddressed ==
  ASSUME NEW c, Reduces(c)
  PROVE  Addressed(c, ReduceFirst(c))
<1> DEFINE l == ReduceFirst(c)
           to == (DOMAIN Buffers(c) \cup {Shared}) \X Int
<1>1. /\ \A g \in GroupOf(l), t \in ItemOf(l) : Position(l, g, t) \in 0 .. GlobalSize - 1
      /\ \A g, t, p : LET y == Position(l, g, t)
                      IN  IF y > c.n THEN DOMAIN Code(l, g, t, p) = {}
                          ELSE Stores(Code(l, g, t, p), Cell(Temporary(0), y),
                                      StridedFrom(In, y, GlobalSize, c.n))
  BY FirstCodes
<1>2. /\ DOMAIN Buffers(c) = {In, Out, Temporary(0)}
      /\ {In, Out, Temporary(0)} \subseteq Int
  BY ReduceMemory
<1>3. GlobalSize \in Positive /\ GlobalSize \in Nat /\ c.n \in Nat BY ReduceNumbers
<1> HIDE DEF l
<1> SUFFICES ASSUME NEW g \in GroupOf(l), NEW i \in ItemOf(l), NEW p \in Nat,
                    NEW x \in DOMAIN Code(l, g, i, p)
             PROVE  x \in Int \X Int /\ Range(Code(l, g, i, p)[x]) \subseteq to
  BY DEF Addressed, l
<1> DEFINE y == Position(l, g, i)
           s == Code(l, g, i, p)[x]
           h == Hops(y, GlobalSize, c.n)
           at(k) == y + (k - 1) * GlobalSize
<1>4. y \in Nat /\ y \in Int
  <2>1. y \in 0 .. GlobalSize - 1 BY <1>1
  <2> HIDE DEF y
  <2> QED BY <2>1
<1>5. x = Cell(Temporary(0), y) /\ s = StridedFrom(In, y, GlobalSize, c.n)
  <2>1. IF y > c.n THEN DOMAIN Code(l, g, i, p) = {}
        ELSE Stores(Code(l, g, i, p), Cell(Temporary(0), y), StridedFrom(In, y, GlobalSize, c.n))
    BY <1>1
  <2> HIDE DEF y
  <2> QED BY <2>1 DEF Stores
<1> HIDE DEF y
<1>6. x \in Int \X Int BY <1>2, <1>4, <1>5 DEF Cell
<1>7. h \in Nat BY <1>3, <1>4, HopsFacts
<1>8. s = [k \in 1 .. h |-> Cell(In, at(k))] BY <1>5 DEF StridedFrom
<1>9. \A k \in 1 .. h : at(k) \in Int
  <2> TAKE k \in 1 .. h
  <2> DEFINE a == (k - 1) * GlobalSize
  <2>1. k - 1 \in Nat BY <1>7
  <2>2. a \in Nat BY <1>3, <2>1, Times
  <2> HIDE DEF a
  <2> QED BY <1>4, <2>2 DEF a
<1> HIDE DEF h, s, at
<1>10. \A k \in 1 .. h : Cell(In, at(k)) \in to BY <1>2, <1>9 DEF Cell
<1> HIDE DEF to
<1>11. \A k \in DOMAIN s : s[k] \in to BY <1>8, <1>10
<1>12. Range(s) \subseteq to
  <2>1. \A z \in Range(s) : \E k \in DOMAIN s : z = s[k] BY DEF Range
  <2> QED BY <1>11, <2>1
<1> QED BY <1>6, <1>12 DEF s

LEMMA SecondAddressed ==
  ASSUME NEW c, NEW l, Folding(c, l)
  PROVE  Addressed(c, l)
<1> DEFINE n == Rounds(l)
           to == (DOMAIN Buffers(c) \cup {Shared}) \X Int
<1>1. /\ Reduces(c) /\ n \in Nat /\ l.items \in Nat /\ l.items \in Positive /\ l.size \in Nat
      /\ \A g, i : Phases(l, g, i) = n + 2
      /\ \A k \in Nat : Remaining(l)[k] \in Nat
  BY FoldingFacts
<1>2. /\ DOMAIN Buffers(c) = {In, Out, Temporary(0)}
      /\ {In, Out, Temporary(0)} \subseteq Int /\ Shared \in Int
  BY <1>1, ReduceMemory
<1> SUFFICES ASSUME NEW g \in GroupOf(l), NEW i \in ItemOf(l), NEW p \in Nat, p < n + 2,
                    NEW x \in DOMAIN Code(l, g, i, p)
             PROVE  x \in Int \X Int /\ Range(Code(l, g, i, p)[x]) \subseteq to
  BY <1>1 DEF Addressed
<1>3. i \in Nat /\ i \in Int BY <1>1 DEF ItemOf
<1>4. \A y \in Int : Cell(Shared, y) \in to /\ Cell(Shared, y) \in Int \X Int
                     /\ Cell(Temporary(0), y) \in to /\ Cell(Out, y) \in Int \X Int
  BY <1>2 DEF Cell
<1> HIDE DEF n, to
<1>5. p = 0 \/ p \in 1 .. n \/ p = n + 1 BY <1>1
<1>6. CASE p = 0
  <2> DEFINE s == Code(l, g, i, p)[x]
             h == Hops(i, l.items, l.size)
             at(k) == i + (k - 1) * l.items
  <2>1. x = Cell(Shared, i) /\ s = StridedFrom(Temporary(0), i, l.items, l.size)
    <3>1. Stores(Code(l, g, i, 0), Cell(Shared, i), StridedFrom(Temporary(0), i, l.items, l.size))
      BY FoldingCodes
    <3>2. Stores(Code(l, g, i, p), Cell(Shared, i), StridedFrom(Temporary(0), i, l.items, l.size))
      BY <1>6, <3>1
    <3> QED BY <3>2 DEF Stores
  <2>2. h \in Nat BY <1>1, <1>3, HopsFacts
  <2>3. s = [k \in 1 .. h |-> Cell(Temporary(0), at(k))] BY <2>1 DEF StridedFrom
  <2>4. \A k \in 1 .. h : at(k) \in Int
    <3> TAKE k \in 1 .. h
    <3> DEFINE a == (k - 1) * l.items
    <3>1. k - 1 \in Nat BY <2>2
    <3>2. a \in Nat BY <1>1, <3>1, Times
    <3> HIDE DEF a
    <3> QED BY <1>3, <3>2 DEF a
  <2> HIDE DEF s, h, at
  <2>5. \A k \in DOMAIN s : s[k] \in to BY <1>4, <2>3, <2>4
  <2>6. Range(s) \subseteq to
    <3>1. \A z \in Range(s) : \E k \in DOMAIN s : z = s[k] BY DEF Range
    <3> QED BY <2>5, <3>1
  <2> QED BY <1>3, <1>4, <2>1, <2>6 DEF s
<1>7. CASE p \in 1 .. n
  <2> DEFINE b == CeilDiv(Remaining(l)[p - 1], 2)
  <2>1. x = Cell(Shared, i) /\ Code(l, g, i, p)[x] = <<Cell(Shared, i), Cell(Shared, i + b)>>
    <3>1. IF i < Remaining(l)[p - 1] \div 2
          THEN Stores(Code(l, g, i, p), Cell(Shared, i), <<Cell(Shared, i), Cell(Shared, i + b)>>)
          ELSE DOMAIN Code(l, g, i, p) = {}
      BY <1>7, FoldingCodes DEF n
    <3> HIDE DEF b
    <3> QED BY <3>1 DEF Stores
  <2>2. b \in Nat
    <3>1. p - 1 \in Nat BY <1>1, <1>7
    <3>2. Remaining(l)[p - 1] \in Nat BY <1>1, <3>1
    <3> QED BY <3>2, Half
  <2> HIDE DEF b
  <2> DEFINE y == Cell(Shared, i)
             z == Cell(Shared, i + b)
  <2>3. y \in to /\ z \in to /\ y \in Int \X Int
    <3>1. i + b \in Int BY <1>3, <2>2
    <3> QED BY <1>3, <1>4, <3>1
  <2>4. Code(l, g, i, p)[x] = <<y, z>> /\ x = y BY <2>1
  <2> HIDE DEF y, z
  <2> QED BY <2>3, <2>4, RangeOfTwo
<1>8. CASE p = n + 1
  <2> DEFINE y == Cell(Shared, 0)
  <2>1. x = Cell(Out, 0) /\ Code(l, g, i, p)[x] = <<y>>
    <3>1. Stores(Code(l, g, i, n + 1), Cell(Out, 0), <<y>>) BY FoldingCodes DEF n
    <3>2. Stores(Code(l, g, i, p), Cell(Out, 0), <<y>>) BY <1>8, <3>1
    <3> HIDE DEF y
    <3> QED BY <3>2 DEF Stores
  <2>2. x \in Int \X Int /\ y \in to
    <3>1. 0 \in Int OBVIOUS
    <3> QED BY <1>4, <2>1, <3>1
  <2> HIDE DEF y
  <2> QED BY <2>1, <2>2, RangeOfOne
<1> QED BY <1>5, <1>6, <1>7, <1>8

LEMMA ReduceExplained ==
  ASSUME NEW c, Reduces(c), ReduceSecond(c).items <= c.warp
  PROVE  /\ Explained(c)
         /\ CombinationOf(Start(c, Len(Launches(c)) + 1, Cell(Out, 0)), c.n)
<1> DEFINE a == ReduceFirst(c)
           b == ReduceSecond(c)
           two == 2
<1>1. /\ DOMAIN Launches(c) = {1, 2} /\ Len(Launches(c)) = 2
      /\ Launches(c)[1] = a /\ Launches(c)[2] = b
      /\ Launches(c) \in Seq(LaunchOf(c))
  BY ReduceLaunched
<1>2. Folding(c, b) BY DEF Folding
<1>3. Numbered(c) BY ReduceMemory
<1>4. Shared \notin DOMAIN Buffers(c) BY <1>3 DEF Numbered
<1>5. Addressed(c, a) /\ Apart(c, a) /\ Writes(c, 1) /\ Leaves(c, 1)
  <2>1. Addressed(c, a) BY FirstAddressed
  <2>2. Apart(c, a) BY ReduceFirstIsSafe DEF Reduces
  <2>3. OnePhase(Launches(c)[1]) BY <1>1, FirstCodes
  <2> QED BY <2>1, <2>2, <2>3, FirstLaunchWrites, OnceExplains
<1>6. Addressed(c, b) /\ Apart(c, b) /\ Writes(c, 2) /\ Leaves(c, 2)
  <2>1. Apart(c, b) BY ReduceSecondIsSafe DEF Reduces
  <2> QED BY <1>2, <2>1, SecondAddressed, FoldingWrites, FoldingLeaves
<1>7. \A k \in {1, 2} : Begins(c, k) /\ Proceeds(c, k) /\ Ends(c, k)
  <2> SUFFICES ASSUME NEW k \in {1, 2} PROVE Begins(c, k) /\ Proceeds(c, k) /\ Ends(c, k)
    OBVIOUS
  <2>1. Writes(c, k) /\ Leaves(c, k) BY <1>5, <1>6
  <2>2. k \in DOMAIN Launches(c) BY <1>1
  <2> QED BY <1>1, <1>4, <2>1, <2>2, WritesExplain
<1>8. ASSUME NEW d \in DOMAIN Buffers(c), NEW n \in DOMAIN Buffers(c)[d]
      PROVE  Start(c, 1, Cell(d, n)) = Buffers(c)[d][n]
  BY <1>1, StartOfFirst DEF Initially, Cell
<1>9. \A k \in DOMAIN Launches(c) :
        /\ Addressed(c, Launches(c)[k]) /\ Apart(c, Launches(c)[k])
        /\ Begins(c, k) /\ Proceeds(c, k) /\ Ends(c, k)
  BY <1>1, <1>5, <1>6, <1>7
<1>10. Explained(c) BY <1>3, <1>8, <1>9 DEF Explained, Numbered
<1> HIDE DEF a, b
<1> DEFINE n == Rounds(b)
           x == Cell(Out, 0)
           g == 0
<1>11. /\ n \in Nat /\ 0 \in ItemOf(b) /\ \A h, i : Phases(b, h, i) = n + 2
  BY <1>2, FoldingFacts
<1>12. StoredIn(b, g, n + 1, x)
  <2>1. n + 1 \in Nat BY <1>11
  <2> QED BY <1>2, <2>1, FoldingStores
<1>13. StoredBy(b, g, x)
  <2>1. PICK i \in ItemOf(b) : n + 1 < Phases(b, g, i) /\ x \in DOMAIN Code(b, g, i, n + 1)
    BY <1>12 DEF StoredIn
  <2>2. n + 1 \in Nat BY <1>11
  <2> QED BY <2>1, <2>2 DEF StoredBy
<1>14. g \in GroupOf(b)
  <2>1. b.groups = 1 BY ReduceNumbers DEF b
  <2> QED BY <2>1 DEF GroupOf
<1>15. Result(c, 2, x) = RoundFold(c)[n][0] BY <1>2, FoldingWritten
<1>16. CombinationOf(RoundFold(c)[n][0], c.n) BY LastRound DEF b
<1> HIDE DEF x, n, g
<1>17. Start(c, two + 1, x) = Result(c, two, x)
  <2>1. two \in DOMAIN Launches(c) /\ Launches(c)[two] = b BY <1>1
  <2> HIDE DEF two
  <2> QED BY <1>1, <1>13, <1>14, <2>1, StartAfter
<1>18. Len(Launches(c)) + 1 = two + 1 BY <1>1
<1> QED BY <1>10, <1>15, <1>16, <1>17, <1>18 DEF x

-----------------------------------------------------------------------------
(***************************************************************************)
(* Every reduction combines all inputs, each of them once, for every       *)
(* number of elements and work-group size, in whatever order groups and    *)
(* warps run.                                                              *)
(***************************************************************************)
LEMMA DoneReduce ==
  ASSUME "lockstep" \notin Tolerated
  PROVE  KInv /\ VInv => ReduceIsFold
<1> SUFFICES ASSUME KInv, VInv, call.skeleton = "reduce", todo = << >>
             PROVE  CombinationOf(mem[Out][0], call.n)
  BY DEF ReduceIsFold, Computed
<1>1. call # None BY DEF None
<1>2. call \in Requests /\ Acceptable(call) BY <1>1 DEF KInv, CallOK
<1>3. Reduces(call) BY <1>2, RequestsAssumption DEF IsCall, Reduces
<1>4. ReduceSecond(call).items <= call.warp BY <1>2 DEF Acceptable, Meets
<1>5. /\ Explained(call)
      /\ CombinationOf(Start(call, Len(Launches(call)) + 1, Cell(Out, 0)), call.n)
  BY <1>3, <1>4, ReduceExplained
<1>6. /\ DOMAIN mem = DOMAIN Buffers(call)
      /\ \A b \in DOMAIN mem : DOMAIN mem[b] = DOMAIN Buffers(call)[b]
      /\ \A b \in DOMAIN mem : \A n \in DOMAIN mem[b] :
           mem[b][n] = Start(call, Len(Launches(call)) + 1, Cell(b, n))
  BY <1>1, <1>5, EveryCallIsScheduled, DoneValues
<1>7. Out \in DOMAIN Buffers(call) /\ 0 \in DOMAIN Buffers(call)[Out] BY <1>3, ReduceMemory
<1>8. mem[Out][0] = Start(call, Len(Launches(call)) + 1, Cell(Out, 0)) BY <1>6, <1>7
<1> QED BY <1>5, <1>8

\* Reduce (detail/ReduceDef.h, detail/ReduceKernel.cl): when a call
\* is over whose second launch is one warp, its output is made of all elements,
\* each of them taken once.
THEOREM ReductionsAreFolds ==
  ASSUME "lockstep" \notin Tolerated
  PROVE  Spec => []ReduceIsFold
<1>1. Spec => [](KInv /\ VInv) BY ValuesInvariance
<1>2. KInv /\ VInv => ReduceIsFold BY DoneReduce
<1> QED BY <1>1, <1>2, PTL
-----------------------------------------------------------------------------
(***************************************************************************)
(* Scan's annotation: the memory after so many phases and launches.        *)
(***************************************************************************)
Memory == [Cells -> Seq(Int)]

\* Every cell gets a list of cells.
Listed(l) ==
  \A g \in GroupOf(l), i \in ItemOf(l) : \A p \in Nat : p < Phases(l, g, i) =>
    \A x \in DOMAIN Code(l, g, i, p) : x \in Cells /\ Code(l, g, i, p)[x] \in Seq(Cells)

LEMMA FlattenIsList ==
  ASSUME NEW S, NEW s \in Seq(Seq(S))
  PROVE  FlattenSeq(s) \in Seq(S)
<1>1. CASE Len(s) = 0
  <2>1. s = << >> BY <1>1, EmptySeq
  <2>2. << >> \in Seq(S) BY EmptySeq
  <2> QED BY <2>1, <2>2, FlattenNone
<1>2. CASE Len(s) # 0
  <2>1. /\ FlattenSeq(s) = Flattened(s)[Len(s)]
        /\ \A i \in 1 .. Len(s) : Flattened(s)[i] \in Seq(S)
    BY <1>2, FlattenedSteps
  <2>2. Len(s) \in Nat BY LenProperties
  <2>3. Len(s) \in 1 .. Len(s) BY <1>2, <2>2
  <2> QED BY <2>1, <2>3
<1> QED BY <1>1, <1>2

LEMMA JunkIsList == JunkValue \in Seq(Int)
BY DEF JunkValue

LEMMA GatheredIsList ==
  ASSUME NEW c, NEW l, NEW v \in Memory, NEW cells \in Seq(Cells)
  PROVE  Gathered(c, l, v, cells) \in Seq(Int)
<1> DEFINE e(n) == IF Within(c, l, cells[n]) THEN v[cells[n]] ELSE JunkValue
           s == [n \in DOMAIN cells |-> e(n)]
<1>1. DOMAIN cells = 1 .. Len(cells) /\ Len(cells) \in Nat BY LenProperties
<1>2. ASSUME NEW n \in 1 .. Len(cells) PROVE e(n) \in Seq(Int)
  <2>1. cells[n] \in Cells BY <1>2, ElementOfSeq
  <2>2. v[cells[n]] \in Seq(Int) BY <2>1 DEF Memory
  <2> QED BY <2>2, JunkIsList
<1> DEFINE m == Len(cells)
<1>3. s = [n \in 1 .. m |-> e(n)] BY <1>1
<1>4. Gathered(c, l, v, cells) = FlattenSeq(s) BY DEF Gathered
<1> HIDE DEF e
<1>5. s \in Seq(Seq(Int)) BY <1>1, <1>2, <1>3
<1> HIDE DEF s
<1> QED BY <1>4, <1>5, FlattenIsList

LEMMA PhaseCodeIs ==
  ASSUME NEW l, Listed(l), NEW g \in GroupOf(l), NEW p \in Nat, NEW x, StoredIn(l, g, p, x)
  PROVE  x \in Cells /\ PhaseCode(l, g, p, x) \in Seq(Cells)
<1> DEFINE Ok(j) == p < Phases(l, g, j) /\ x \in DOMAIN Code(l, g, j, p)
           i == CHOOSE j \in ItemOf(l) : Ok(j)
<1>1. \E j \in ItemOf(l) : Ok(j) BY DEF StoredIn
<1>2. PhaseCode(l, g, p, x) = Code(l, g, i, p)[x] BY DEF PhaseCode
<1>3. i \in ItemOf(l) /\ Ok(i)
  <2> HIDE DEF Ok
  <2> QED BY <1>1
<1> HIDE DEF i
<1> QED BY <1>2, <1>3 DEF Listed

LEMMA PhaseIsMemory ==
  ASSUME NEW c, NEW l, Listed(l), NEW g \in GroupOf(l), NEW p \in Nat, NEW v \in Memory
  PROVE  AfterPhase(c, l, g, p, v) \in Memory
<1> DEFINE e(x) == IF StoredIn(l, g, p, x) THEN Gathered(c, l, v, PhaseCode(l, g, p, x)) ELSE v[x]
<1>1. AfterPhase(c, l, g, p, v) = [x \in Cells |-> e(x)] BY DEF AfterPhase
<1>2. ASSUME NEW x \in Cells PROVE e(x) \in Seq(Int)
  <2>1. CASE StoredIn(l, g, p, x)
    <3> DEFINE s == PhaseCode(l, g, p, x)
    <3>1. s \in Seq(Cells) BY <2>1, PhaseCodeIs
    <3> HIDE DEF s
    <3>2. Gathered(c, l, v, s) \in Seq(Int) BY <3>1, GatheredIsList
    <3> QED BY <2>1, <3>2 DEF s
  <2>2. CASE ~ StoredIn(l, g, p, x) BY <1>2, <2>2 DEF Memory
  <2> QED BY <2>1, <2>2
<1> HIDE DEF e
<1> QED BY <1>1, <1>2 DEF Memory

\* The values of a group, phase by phase.
LEMMA AfterPhasesIs ==
  ASSUME NEW c, NEW l, Listed(l), NEW g \in GroupOf(l), NEW m \in Memory
  PROVE  /\ AfterPhases(c, l, g, m)[0] = Entering(m)
         /\ \A p \in Nat : AfterPhases(c, l, g, m)[p] \in Memory
         /\ \A p \in Nat : AfterPhases(c, l, g, m)[p + 1] =
                             AfterPhase(c, l, g, p, AfterPhases(c, l, g, m)[p])
<1> DEFINE V == Memory
           step == [x \in Nat \X V |-> IF x[1] = 0 THEN x[2] ELSE AfterPhase(c, l, g, x[1] - 1, x[2])]
           Eq(f) == f = [p \in Nat |-> IF p = 0 THEN Entering(m) ELSE AfterPhase(c, l, g, p - 1, f[p - 1])]
           S == CHOOSE f : Eq(f)
<1>1. AfterPhases(c, l, g, m) = S BY DEF AfterPhases
<1>2. Entering(m) \in V
  <2>1. \A x \in Cells : (IF x[1] = Shared THEN JunkValue ELSE m[x]) \in Seq(Int)
    BY JunkIsList DEF Memory
  <2> QED BY <2>1 DEF Memory, Entering
<1>3. step \in [Nat \X V -> V]
  <2>1. ASSUME NEW x \in Nat \X V
        PROVE  (IF x[1] = 0 THEN x[2] ELSE AfterPhase(c, l, g, x[1] - 1, x[2])) \in V
    <3>1. x[1] \in Nat /\ x[2] \in V BY <2>1
    <3>2. CASE x[1] = 0 BY <3>1, <3>2
    <3>3. CASE x[1] # 0
      <4>1. x[1] - 1 \in Nat BY <3>1, <3>3
      <4> QED BY <3>1, <3>3, <4>1, PhaseIsMemory
    <3> QED BY <3>2, <3>3
  <2> HIDE DEF V
  <2> QED BY <2>1
<1>4. Initial(Nat) BY DEF Initial
<1>5. PICK f \in [Nat -> V] : Follows(f, Nat, Entering(m), step)
  <2> HIDE DEF step, V
  <2> QED BY <1>2, <1>3, <1>4, Recursion
<1>6. Eq(f)
  <2>1. ASSUME NEW n \in Nat, n # 0
        PROVE  step[<<n, f[n - 1]>>] = AfterPhase(c, l, g, n - 1, f[n - 1])
    <3>1. n - 1 \in Nat BY <2>1
    <3>2. f[n - 1] \in V BY <3>1, <1>5
    <3> HIDE DEF V
    <3> QED BY <2>1, <3>2
  <2> HIDE DEF step
  <2>2. f = [n \in Nat |-> IF n = 0 THEN Entering(m) ELSE step[<<n, f[n - 1]>>]]
    BY <1>5 DEF Follows
  <2> QED BY <2>1, <2>2
<1>7. Eq(S)
  <2> HIDE DEF Eq
  <2> QED BY <1>6
<1> HIDE DEF S
<1>8. S[0] = Entering(m) BY <1>7
<1>9. ASSUME NEW p \in Nat PROVE S[p + 1] = AfterPhase(c, l, g, p, S[p])
  <2>1. p + 1 \in Nat /\ p + 1 # 0 /\ (p + 1) - 1 = p OBVIOUS
  <2> QED BY <2>1, <1>7
<1> DEFINE A == {p \in Nat : S[p] \in V}
<1>10. \A p \in Nat : p \in A
  <2>1. 0 \in A BY <1>2, <1>8
  <2>2. ASSUME NEW p \in Nat, p \in A PROVE p + 1 \in A
    <3>1. AfterPhase(c, l, g, p, S[p]) \in V BY <2>2, PhaseIsMemory
    <3> QED BY <1>9, <3>1
  <2> HIDE DEF A
  <2> QED BY <2>1, <2>2, Naturals
<1> QED BY <1>1, <1>8, <1>9, <1>10
-----------------------------------------------------------------------------
\* What is needed of a call to be annotated in this way.
Orderly(c, l) ==
  ~ OnePhase(l) /\ Shape(c, l) /\ Even(l) /\ Listed(l) /\ Exclusive(l) /\ Groupwise(l)

Sequential(c) ==
  /\ c.skeleton = "scan"
  /\ Launches(c) \in Seq(LaunchOf(c))
  /\ \A k \in DOMAIN Launches(c) : Orderly(c, Launches(c)[k])
  /\ \A b \in DOMAIN Buffers(c) : \A n \in DOMAIN Buffers(c)[b] : Buffers(c)[b][n] \in Seq(Int)

LEMMA PhasesOfFirst ==
  ASSUME NEW c, NEW l, Orderly(c, l), NEW g \in GroupOf(l)
  PROVE  0 \in ItemOf(l) /\ Phases(l, g, 0) \in Nat
         /\ \A i \in ItemOf(l) : Phases(l, g, i) = Phases(l, g, 0)
<1>1. 0 \in ItemOf(l) BY DEF Orderly, Shape, ItemOf, Positive
<1>2. PICK n \in Nat : \A i \in ItemOf(l) : Phases(l, g, i) = n BY DEF Orderly, Even
<1> QED BY <1>1, <1>2

LEMMA LaunchIsMemory ==
  ASSUME NEW c, NEW l, Orderly(c, l), NEW m \in Memory
  PROVE  AfterLaunch(c, l, m) \in Memory
<1> DEFINE h(x) == StoringGroup(l, x)
           e(x) == IF \E g \in GroupOf(l) : StoredBy(l, g, x)
                   THEN AfterPhases(c, l, h(x), m)[Phases(l, h(x), 0)][x] ELSE m[x]
<1>1. AfterLaunch(c, l, m) = [x \in Cells |-> e(x)] BY DEF AfterLaunch
<1>2. ASSUME NEW x \in Cells PROVE e(x) \in Seq(Int)
  <2>1. CASE \E g \in GroupOf(l) : StoredBy(l, g, x)
    <3>1. h(x) \in GroupOf(l) BY <2>1 DEF StoringGroup
    <3>2. Phases(l, h(x), 0) \in Nat /\ Listed(l) BY <3>1, PhasesOfFirst DEF Orderly
    <3>3. AfterPhases(c, l, h(x), m)[Phases(l, h(x), 0)] \in Memory
      BY <3>1, <3>2, AfterPhasesIs
    <3> HIDE DEF h
    <3> QED BY <2>1, <3>3 DEF Memory
  <2>2. CASE ~ \E g \in GroupOf(l) : StoredBy(l, g, x) BY <1>2, <2>2 DEF Memory
  <2> QED BY <2>1, <2>2
<1> HIDE DEF e
<1> QED BY <1>1, <1>2 DEF Memory

LEMMA AfterLaunchesIs ==
  ASSUME NEW c, Sequential(c)
  PROVE  /\ AfterLaunches(c)[0] = [x \in Cells |-> Initially(c, x)]
         /\ \A k \in 0 .. Len(Launches(c)) : AfterLaunches(c)[k] \in Memory
         /\ \A k \in DOMAIN Launches(c) :
              AfterLaunches(c)[k] = AfterLaunch(c, Launches(c)[k], AfterLaunches(c)[k - 1])
<1> DEFINE V == Memory
           n == Len(Launches(c))
           D == 0 .. n
           next(k, m) == AfterLaunch(c, Launches(c)[k], m)
           step == [x \in Nat \X V |-> IF x[1] \in 1 .. n THEN next(x[1], x[2]) ELSE x[2]]
           first == [x \in Cells |-> Initially(c, x)]
           Eq(f) == f = [k \in D |-> IF k = 0 THEN first ELSE next(k, f[k - 1])]
           S == CHOOSE f : Eq(f)
<1>1. AfterLaunches(c) = S BY DEF AfterLaunches
<1>a. DOMAIN Launches(c) = 1 .. n /\ n \in Nat BY LenProperties DEF Sequential
<1>2. first \in V
  <2>1. \A x \in Cells : Initially(c, x) \in Seq(Int) BY JunkIsList DEF Initially, Sequential
  <2> QED BY <2>1 DEF Memory
<1>3. \A k \in 1 .. n : \A m \in V : next(k, m) \in V
  <2> SUFFICES ASSUME NEW k \in 1 .. n, NEW m \in V PROVE next(k, m) \in V OBVIOUS
  <2>1. Orderly(c, Launches(c)[k]) BY <1>a DEF Sequential
  <2> QED BY <2>1, LaunchIsMemory
<1> HIDE DEF first, V, n, next
<1>4. step \in [Nat \X V -> V]
  <2>1. ASSUME NEW x \in Nat \X V
        PROVE  (IF x[1] \in 1 .. n THEN next(x[1], x[2]) ELSE x[2]) \in V
    BY <1>3
  <2> QED BY <2>1
<1>5. Initial(D) BY <1>a DEF Initial
<1>6. PICK f \in [D -> V] : Follows(f, D, first, step)
  <2> HIDE DEF step, D
  <2> QED BY <1>2, <1>4, <1>5, Recursion
<1>7. Eq(f)
  <2>1. ASSUME NEW k \in D, k # 0 PROVE step[<<k, f[k - 1]>>] = next(k, f[k - 1])
    <3>1. k - 1 \in D /\ k \in 1 .. n /\ k \in Nat BY <2>1, <1>a
    <3>2. f[k - 1] \in V BY <3>1, <1>6
    <3> HIDE DEF D
    <3> QED BY <3>1, <3>2
  <2> HIDE DEF step, D
  <2>2. f = [k \in D |-> IF k = 0 THEN first ELSE step[<<k, f[k - 1]>>]]
    BY <1>6 DEF Follows
  <2> QED BY <2>1, <2>2
<1>8. Eq(S)
  <2> HIDE DEF Eq
  <2> QED BY <1>7
<1> HIDE DEF S
<1>9. 0 \in D /\ \A k \in 1 .. n : k \in D /\ k # 0 BY <1>a
<1>10. S[0] = first /\ \A k \in 1 .. n : S[k] = next(k, S[k - 1])
  <2> HIDE DEF D
  <2> QED BY <1>8, <1>9
<1> DEFINE A == {k \in Nat : k \in D => S[k] \in V}
<1>11. \A k \in Nat : k \in A
  <2>1. 0 \in A BY <1>2, <1>10
  <2>2. ASSUME NEW k \in Nat, k \in A PROVE k + 1 \in A
    <3> SUFFICES ASSUME k + 1 \in D PROVE S[k + 1] \in V OBVIOUS
    <3>1. k + 1 \in 1 .. n /\ (k + 1) - 1 = k /\ k \in D BY <1>a
    <3>2. S[k + 1] = next(k + 1, S[k]) BY <1>10, <3>1
    <3>3. S[k] \in V BY <2>2, <3>1
    <3>4. next(k + 1, S[k]) \in V BY <1>3, <3>1, <3>3
    <3> QED BY <3>2, <3>4
  <2> HIDE DEF A
  <2> QED BY <2>1, <2>2, Naturals
<1>12. \A k \in D : S[k] \in V
  <2>1. \A k \in D : k \in Nat BY <1>a
  <2> QED BY <1>11, <2>1
<1> QED BY <1>1, <1>a, <1>10, <1>12 DEF V, first, next, n

\* The annotations of the launches and of the phases are these.
LEMMA StartIsAfter ==
  ASSUME NEW c, Sequential(c), NEW x \in Cells
  PROVE  \A k \in 1 .. Len(Launches(c)) + 1 : Start(c, k, x) = AfterLaunches(c)[k - 1][x]
<1> DEFINE n == Len(Launches(c))
           A == {k \in Nat : k <= n => Start(c, k + 1, x) = AfterLaunches(c)[k][x]}
<1>1. DOMAIN Launches(c) = 1 .. n /\ n \in Nat /\ Launches(c) \in Seq(LaunchOf(c))
  BY LenProperties DEF Sequential
<1> HIDE DEF n
<1>2. 0 \in A
  <2>1. Start(c, 0 + 1, x) = Initially(c, x) BY <1>1, StartOfFirst
  <2>2. AfterLaunches(c)[0] = [y \in Cells |-> Initially(c, y)] BY AfterLaunchesIs
  <2> QED BY <2>1, <2>2
<1>3. ASSUME NEW k \in Nat, k \in A PROVE k + 1 \in A
  <2> SUFFICES ASSUME k + 1 <= n
               PROVE  Start(c, (k + 1) + 1, x) = AfterLaunches(c)[k + 1][x]
    OBVIOUS
  <2> DEFINE j == k + 1
             l == Launches(c)[j]
             m == AfterLaunches(c)[k]
  <2>1. j \in DOMAIN Launches(c) /\ j - 1 = k /\ k <= n BY <1>1
  <2>2. Start(c, j, x) = m[x] BY <1>3, <2>1
  <2> HIDE DEF j
  <2>3. AfterLaunches(c)[j] = AfterLaunch(c, l, m) BY <2>1, AfterLaunchesIs
  <2>4. /\ (\E g \in GroupOf(l) : StoredBy(l, g, x)) => Start(c, j + 1, x) = Result(c, j, x)
        /\ (\A g \in GroupOf(l) : ~ StoredBy(l, g, x)) => Start(c, j + 1, x) = Start(c, j, x)
    BY <1>1, <2>1, StartAfter
  <2>5. Result(c, j, x) = AfterLaunches(c)[j][x] BY DEF Result, Sequential
  <2>6. (\A g \in GroupOf(l) : ~ StoredBy(l, g, x)) => AfterLaunch(c, l, m)[x] = m[x]
    BY DEF AfterLaunch
  <2> HIDE DEF l, m
  <2>7. Start(c, j + 1, x) = AfterLaunches(c)[j][x] BY <2>2, <2>3, <2>4, <2>5, <2>6
  <2> QED BY <2>7 DEF j
<1>4. \A k \in Nat : k \in A
  <2> HIDE DEF A
  <2> QED BY <1>2, <1>3, Naturals
<1> SUFFICES ASSUME NEW k \in 1 .. n + 1 PROVE Start(c, k, x) = AfterLaunches(c)[k - 1][x]
  BY DEF n
<1>5. k - 1 \in Nat /\ k - 1 <= n /\ (k - 1) + 1 = k BY <1>1
<1>6. k - 1 \in A BY <1>4, <1>5
<1> QED BY <1>5, <1>6

\* The memory that launch k finds, and what a group has in it.
Entered(c, k) == AfterLaunches(c)[k - 1]

Of(c, k, g) == AfterPhases(c, Launches(c)[k], g, Entered(c, k))

LEMMA BeforeIsMemory ==
  ASSUME NEW c, Sequential(c), NEW k \in DOMAIN Launches(c)
  PROVE  /\ Entered(c, k) \in Memory /\ Orderly(c, Launches(c)[k])
         /\ \A x \in Cells : Start(c, k, x) = Entered(c, k)[x]
<1>1. DOMAIN Launches(c) = 1 .. Len(Launches(c)) /\ Len(Launches(c)) \in Nat
  BY LenProperties DEF Sequential
<1>2. k - 1 \in 0 .. Len(Launches(c)) /\ k \in 1 .. Len(Launches(c)) + 1 BY <1>1
<1>3. AfterLaunches(c)[k - 1] \in Memory BY <1>2, AfterLaunchesIs
<1>4. \A x \in Cells : Start(c, k, x) = AfterLaunches(c)[k - 1][x] BY <1>2, StartIsAfter
<1> QED BY <1>3, <1>4 DEF Entered, Sequential

LEMMA OfIs ==
  ASSUME NEW c, Sequential(c), NEW k \in DOMAIN Launches(c), NEW g \in GroupOf(Launches(c)[k])
  PROVE  /\ Of(c, k, g)[0] = Entering(Entered(c, k))
         /\ \A p \in Nat : Of(c, k, g)[p] \in Memory
         /\ \A p \in Nat : Of(c, k, g)[p + 1] =
                             AfterPhase(c, Launches(c)[k], g, p, Of(c, k, g)[p])
<1> DEFINE l == Launches(c)[k]
           m == Entered(c, k)
<1>1. m \in Memory /\ Listed(l) BY BeforeIsMemory DEF Orderly
<1>2. g \in GroupOf(l) OBVIOUS
<1>3. Of(c, k, g) = AfterPhases(c, l, g, m) BY DEF Of
<1> HIDE DEF l, m
<1>4. /\ AfterPhases(c, l, g, m)[0] = Entering(m)
      /\ \A p \in Nat : AfterPhases(c, l, g, m)[p] \in Memory
      /\ \A p \in Nat : AfterPhases(c, l, g, m)[p + 1] =
                          AfterPhase(c, l, g, p, AfterPhases(c, l, g, m)[p])
  BY <1>1, <1>2, AfterPhasesIs
<1> QED BY <1>3, <1>4 DEF l, m

LEMMA ValueIsOf ==
  ASSUME NEW c, Sequential(c), NEW k \in DOMAIN Launches(c), NEW g \in GroupOf(Launches(c)[k]),
         NEW x \in Cells
  PROVE  \A p \in Nat : Value(c, k, g, p, x) = Of(c, k, g)[p][x]
<1> DEFINE l == Launches(c)[k]
           v == Of(c, k, g)
           A == {p \in Nat : Value(c, k, g, p, x) = v[p][x]}
<1>1. /\ v[0] = Entering(Entered(c, k))
      /\ \A p \in Nat : v[p + 1] = AfterPhase(c, l, g, p, v[p])
  BY OfIs
<1>2. ASSUME NEW p \in Nat PROVE Written(c, k, g, p, x) = v[p + 1][x]
  <2>1. ~ OnePhase(l) /\ c.skeleton = "scan" BY BeforeIsMemory DEF Orderly, Sequential
  <2> QED BY <2>1 DEF Written, Of, Entered
<1> HIDE DEF v
<1>3. 0 \in A
  <2>1. 0 \in Nat /\ 0 .. 0 - 1 = {} OBVIOUS
  <2>2. Value(c, k, g, 0, x) = IF x[1] = Shared THEN JunkValue ELSE Start(c, k, x)
    BY <2>1, ValueFirst
  <2>3. Start(c, k, x) = Entered(c, k)[x] BY BeforeIsMemory
  <2>4. v[0][x] = IF x[1] = Shared THEN JunkValue ELSE Entered(c, k)[x] BY <1>1 DEF Entering
  <2> QED BY <2>2, <2>3, <2>4
<1>4. ASSUME NEW p \in Nat, p \in A PROVE p + 1 \in A
  <2>1. CASE StoredIn(l, g, p, x)
    <3>1. p + 1 \in Nat /\ p \in 0 .. (p + 1) - 1 /\ p + 1 .. (p + 1) - 1 = {} OBVIOUS
    <3>2. Value(c, k, g, p + 1, x) = Written(c, k, g, p, x) BY <2>1, <3>1, ValueWritten
    <3> QED BY <1>2, <3>1, <3>2
  <2>2. CASE ~ StoredIn(l, g, p, x)
    <3>1. Value(c, k, g, p + 1, x) = Value(c, k, g, p, x) BY <2>2, ValueKept
    <3>2. v[p + 1][x] = v[p][x] BY <1>1, <2>2 DEF AfterPhase
    <3> QED BY <1>4, <3>1, <3>2
  <2> QED BY <2>1, <2>2
<1> HIDE DEF A
<1>5. \A p \in Nat : p \in A BY <1>3, <1>4, Naturals
<1> QED BY <1>5 DEF A, v
-----------------------------------------------------------------------------
\* What a phase stores, whichever item it is that stores it.
LEMMA PhaseCodeOf ==
  ASSUME NEW l, Exclusive(l), NEW g \in GroupOf(l), NEW i \in ItemOf(l), NEW p \in Nat,
         p < Phases(l, g, i), NEW x \in DOMAIN Code(l, g, i, p)
  PROVE  StoredIn(l, g, p, x) /\ PhaseCode(l, g, p, x) = Code(l, g, i, p)[x]
<1> DEFINE Ok(j) == p < Phases(l, g, j) /\ x \in DOMAIN Code(l, g, j, p)
           j == CHOOSE h \in ItemOf(l) : Ok(h)
<1>1. \E h \in ItemOf(l) : Ok(h) OBVIOUS
<1>2. PhaseCode(l, g, p, x) = Code(l, g, j, p)[x] BY DEF PhaseCode
<1>3. j \in ItemOf(l) /\ Ok(j)
  <2> HIDE DEF Ok
  <2> QED BY <1>1
<1> HIDE DEF j
<1>4. x \in Touched(Code(l, g, j, p)) BY <1>3 DEF Touched
<1>5. i = j BY <1>3, <1>4 DEF Exclusive
<1> QED BY <1>2, <1>5 DEF StoredIn

LEMMA PhaseMakes ==
  ASSUME NEW c, NEW l, Exclusive(l), NEW g \in GroupOf(l), NEW p \in Nat, NEW v \in Memory,
         NEW x \in Cells
  PROVE  /\ \A i \in ItemOf(l) : p < Phases(l, g, i) /\ x \in DOMAIN Code(l, g, i, p) =>
              AfterPhase(c, l, g, p, v)[x] = Gathered(c, l, v, Code(l, g, i, p)[x])
         /\ (\A i \in ItemOf(l) : p < Phases(l, g, i) => x \notin DOMAIN Code(l, g, i, p)) =>
              AfterPhase(c, l, g, p, v)[x] = v[x]
<1> DEFINE w == AfterPhase(c, l, g, p, v)
<1>1. w[x] = IF StoredIn(l, g, p, x) THEN Gathered(c, l, v, PhaseCode(l, g, p, x)) ELSE v[x]
  BY DEF AfterPhase
<1> HIDE DEF w
<1>2. ASSUME NEW i \in ItemOf(l), p < Phases(l, g, i), x \in DOMAIN Code(l, g, i, p)
      PROVE  w[x] = Gathered(c, l, v, Code(l, g, i, p)[x])
  <2>1. StoredIn(l, g, p, x) /\ PhaseCode(l, g, p, x) = Code(l, g, i, p)[x]
    BY <1>2, PhaseCodeOf
  <2> QED BY <1>1, <2>1
<1>3. ASSUME \A i \in ItemOf(l) : p < Phases(l, g, i) => x \notin DOMAIN Code(l, g, i, p)
      PROVE  w[x] = v[x]
  <2>1. ~ StoredIn(l, g, p, x) BY <1>3 DEF StoredIn
  <2> QED BY <1>1, <2>1
<1> QED BY <1>2, <1>3 DEF w

LEMMA PhaseSkips ==
  ASSUME NEW c, NEW l, NEW g \in GroupOf(l), NEW p \in Nat, NEW v \in Memory, NEW x \in Cells,
         \A i \in ItemOf(l) : p < Phases(l, g, i) => x \notin DOMAIN Code(l, g, i, p)
  PROVE  AfterPhase(c, l, g, p, v)[x] = v[x]
<1>1. AfterPhase(c, l, g, p, v)[x] =
        IF StoredIn(l, g, p, x) THEN Gathered(c, l, v, PhaseCode(l, g, p, x)) ELSE v[x]
  BY DEF AfterPhase
<1>2. ~ StoredIn(l, g, p, x) BY DEF StoredIn
<1> QED BY <1>1, <1>2

LEMMA SequenceWrites ==
  ASSUME NEW c, Sequential(c), NEW k \in DOMAIN Launches(c)
  PROVE  Writes(c, k)
<1> DEFINE l == Launches(c)[k]
<1>1. Orderly(c, l) BY BeforeIsMemory
<1>2. ~ OnePhase(l) /\ c.skeleton = "scan" BY <1>1 DEF Orderly, Sequential
<1> SUFFICES ASSUME NEW g \in GroupOf(l), NEW i \in ItemOf(l), NEW p \in Nat,
                    p < Phases(l, g, i), NEW x \in DOMAIN Code(l, g, i, p)
             PROVE  Written(c, k, g, p, x) =
                      FlattenSeq([n \in DOMAIN Code(l, g, i, p)[x] |->
                                    Found(c, k, g, p, Code(l, g, i, p)[x][n])])
  BY DEF Writes
<1> DEFINE v == Of(c, k, g)
           s == Code(l, g, i, p)[x]
<1>3. Written(c, k, g, p, x) = v[p + 1][x] BY <1>2 DEF Written, Of, Entered
<1>4. v[p] \in Memory /\ v[p + 1] = AfterPhase(c, l, g, p, v[p]) BY OfIs
<1>5. x \in Cells /\ s \in Seq(Cells) BY <1>1 DEF Orderly, Listed
<1>6. \A y \in Cells : Value(c, k, g, p, y) = v[p][y] BY ValueIsOf
<1>7. l = Launches(c)[k] OBVIOUS
<1> HIDE DEF v, l
<1>8. AfterPhase(c, l, g, p, v[p])[x] = Gathered(c, l, v[p], s)
  BY <1>1, <1>4, <1>5, PhaseMakes DEF Orderly
<1> HIDE DEF s
<1>9. ASSUME NEW n \in DOMAIN s
      PROVE  Found(c, k, g, p, s[n]) = IF Within(c, l, s[n]) THEN v[p][s[n]] ELSE JunkValue
  <2>1. DOMAIN s = 1 .. Len(s) BY <1>5, LenProperties
  <2>2. s[n] \in Cells BY <1>5, <2>1, ElementOfSeq
  <2> QED BY <1>6, <1>7, <2>2 DEF Found
<1>10. [n \in DOMAIN s |-> Found(c, k, g, p, s[n])]
       = [n \in DOMAIN s |-> IF Within(c, l, s[n]) THEN v[p][s[n]] ELSE JunkValue]
  BY <1>9
<1>11. Written(c, k, g, p, x) = FlattenSeq([n \in DOMAIN s |-> Found(c, k, g, p, s[n])])
  BY <1>3, <1>4, <1>8, <1>10 DEF Gathered
<1> QED BY <1>11 DEF s

\* A group that has done all of its phases changes nothing any more.
LEMMA NothingAfterLast ==
  ASSUME NEW c, Sequential(c), NEW k \in DOMAIN Launches(c), NEW g \in GroupOf(Launches(c)[k]),
         NEW x \in Cells
  PROVE  \A p \in Nat : Phases(Launches(c)[k], g, 0) <= p =>
           Of(c, k, g)[p][x] = Of(c, k, g)[Phases(Launches(c)[k], g, 0)][x]
<1> DEFINE l == Launches(c)[k]
           v == Of(c, k, g)
           e == Phases(l, g, 0)
           A == {d \in Nat : v[e + d][x] = v[e][x]}
<1>1. Orderly(c, l) BY BeforeIsMemory
<1>2. e \in Nat /\ \A i \in ItemOf(l) : Phases(l, g, i) = e BY <1>1, PhasesOfFirst
<1>3. \A p \in Nat : v[p] \in Memory /\ v[p + 1] = AfterPhase(c, l, g, p, v[p]) BY OfIs
<1> HIDE DEF l, v, e
<1>4. 0 \in A BY <1>2
<1>5. ASSUME NEW d \in Nat, d \in A PROVE d + 1 \in A
  <2> DEFINE p == e + d
  <2>1. p \in Nat /\ ~ (p < e) /\ e + (d + 1) = p + 1 BY <1>2
  <2> HIDE DEF p
  <2>2. \A i \in ItemOf(l) : ~ (p < Phases(l, g, i)) BY <1>2, <2>1
  <2>3. AfterPhase(c, l, g, p, v[p])[x] = v[p][x]
    <3>1. g \in GroupOf(l) BY DEF l
    <3>2. v[p] \in Memory BY <1>3, <2>1
    <3>4. \A i \in ItemOf(l) : p < Phases(l, g, i) => x \notin DOMAIN Code(l, g, i, p) BY <2>2
    <3> DEFINE u == v[p]
    <3> HIDE DEF u
    <3>5. AfterPhase(c, l, g, p, u)[x] = u[x]
      BY <2>1, <3>1, <3>2, <3>4, PhaseSkips DEF u
    <3> QED BY <3>5 DEF u
  <2>4. v[p + 1][x] = v[p][x] BY <1>3, <2>1, <2>3
  <2>5. v[p][x] = v[e][x] BY <1>5 DEF p
  <2> QED BY <2>1, <2>4, <2>5
<1> HIDE DEF A
<1>6. \A d \in Nat : d \in A BY <1>4, <1>5, Naturals
<1> SUFFICES ASSUME NEW p \in Nat, e <= p PROVE v[p][x] = v[e][x] BY DEF l, v, e
<1>7. p - e \in Nat /\ e + (p - e) = p BY <1>2
<1>8. p - e \in A BY <1>6, <1>7
<1> QED BY <1>7, <1>8 DEF A

\* After a launch, a cell is as the group that stores it has left it.
LEMMA LaunchMakes ==
  ASSUME NEW c, Sequential(c), NEW k \in DOMAIN Launches(c), NEW x \in Cells, x[1] # Shared
  PROVE  /\ \A g \in GroupOf(Launches(c)[k]) : StoredBy(Launches(c)[k], g, x) =>
              AfterLaunches(c)[k][x] = Of(c, k, g)[Phases(Launches(c)[k], g, 0)][x]
         /\ (\A g \in GroupOf(Launches(c)[k]) : ~ StoredBy(Launches(c)[k], g, x)) =>
              AfterLaunches(c)[k][x] = Entered(c, k)[x]
<1> DEFINE l == Launches(c)[k]
           m == Entered(c, k)
<1>1. Orderly(c, l) BY BeforeIsMemory
<1>2. AfterLaunches(c)[k] = AfterLaunch(c, l, m) BY AfterLaunchesIs DEF Entered
<1>3. ASSUME NEW g \in GroupOf(l), StoredBy(l, g, x)
      PROVE  AfterLaunches(c)[k][x] = Of(c, k, g)[Phases(l, g, 0)][x]
  <2> DEFINE h == StoringGroup(l, x)
  <2>1. h \in GroupOf(l) /\ StoredBy(l, h, x) BY <1>3 DEF StoringGroup
  <2>2. g = h
    <3>1. PICK i \in ItemOf(l), p \in Nat : p < Phases(l, g, i) /\ x \in DOMAIN Code(l, g, i, p)
      BY <1>3 DEF StoredBy
    <3>2. PICK j \in ItemOf(l), q \in Nat : q < Phases(l, h, j) /\ x \in DOMAIN Code(l, h, j, q)
      BY <2>1 DEF StoredBy
    <3> HIDE DEF h, l
    <3>3. x \in Touched(Code(l, h, j, q)) BY <3>2 DEF Touched
    <3>4. Groupwise(l) BY <1>1 DEF Orderly
    <3> QED BY <1>3, <2>1, <3>1, <3>2, <3>3, <3>4 DEF Groupwise
  <2>3. AfterLaunch(c, l, m)[x] = AfterPhases(c, l, h, m)[Phases(l, h, 0)][x]
    BY <1>3 DEF AfterLaunch
  <2>4. Of(c, k, g) = AfterPhases(c, l, g, m) BY DEF Of
  <2> HIDE DEF h, l, m
  <2> QED BY <1>2, <2>2, <2>3, <2>4
<1>4. ASSUME \A g \in GroupOf(l) : ~ StoredBy(l, g, x) PROVE AfterLaunches(c)[k][x] = m[x]
  BY <1>2, <1>4 DEF AfterLaunch
<1> QED BY <1>3, <1>4

LEMMA SequenceLeaves ==
  ASSUME NEW c, Sequential(c), NEW k \in DOMAIN Launches(c)
  PROVE  Leaves(c, k)
<1> DEFINE l == Launches(c)[k]
<1>1. Orderly(c, l) BY BeforeIsMemory
<1> SUFFICES ASSUME NEW g \in GroupOf(l), NEW p \in Nat, NEW x, x[1] # Shared, StoredBy(l, g, x),
                    \A i \in ItemOf(l) : Phases(l, g, i) <= p
             PROVE  Value(c, k, g, p, x) = Result(c, k, x)
  BY DEF Leaves
<1>2. x \in Cells BY <1>1 DEF StoredBy, Orderly, Listed
<1>3. Value(c, k, g, p, x) = Of(c, k, g)[p][x] BY <1>2, ValueIsOf
<1>4. Phases(l, g, 0) <= p BY <1>1, PhasesOfFirst
<1>5. Of(c, k, g)[p][x] = Of(c, k, g)[Phases(l, g, 0)][x] BY <1>2, <1>4, NothingAfterLast
<1>6. AfterLaunches(c)[k][x] = Of(c, k, g)[Phases(l, g, 0)][x] BY <1>2, LaunchMakes
<1>7. Result(c, k, x) = AfterLaunches(c)[k][x] BY DEF Result, Sequential
<1> QED BY <1>3, <1>5, <1>6, <1>7

\* So groups and warps may run in any order, and make the same of the memory.
LEMMA SequenceExplains ==
  ASSUME NEW c, Sequential(c), Numbered(c),
         \A l \in LaunchOf(c) : Addressed(c, l) /\ Apart(c, l)
  PROVE  /\ Explained(c)
         /\ \A x \in Cells : Start(c, Len(Launches(c)) + 1, x) =
                               AfterLaunches(c)[Len(Launches(c))][x]
<1>1. Launches(c) \in Seq(LaunchOf(c)) BY DEF Sequential
<1>2. ASSUME NEW k \in DOMAIN Launches(c) PROVE Begins(c, k) /\ Proceeds(c, k) /\ Ends(c, k)
  <2>1. Shared \notin DOMAIN Buffers(c) BY DEF Numbered
  <2> QED BY <1>1, <2>1, SequenceWrites, SequenceLeaves, WritesExplain
<1>3. ASSUME NEW b \in DOMAIN Buffers(c), NEW n \in DOMAIN Buffers(c)[b]
      PROVE  Start(c, 1, Cell(b, n)) = Buffers(c)[b][n]
  BY <1>1, StartOfFirst DEF Initially, Cell
<1>4. \A k \in DOMAIN Launches(c) : Launches(c)[k] \in LaunchOf(c) BY DEF LaunchOf
<1>5. Explained(c) BY <1>2, <1>3, <1>4 DEF Explained, Numbered
<1> DEFINE n == Len(Launches(c))
<1>6. n \in Nat BY <1>1, LenProperties
<1>7. n + 1 \in 1 .. n + 1 /\ (n + 1) - 1 = n BY <1>6
<1>8. ASSUME NEW x \in Cells PROVE Start(c, n + 1, x) = AfterLaunches(c)[n][x]
  <2>1. \A k \in 1 .. n + 1 : Start(c, k, x) = AfterLaunches(c)[k - 1][x] BY StartIsAfter
  <2> HIDE DEF n
  <2> QED BY <1>7, <2>1
<1> QED BY <1>5, <1>8
-----------------------------------------------------------------------------
(***************************************************************************)
(* Scan's kernels, whose tree has 2 * Power[m] leaves, phase by phase.     *)
(***************************************************************************)
Treed(l, m) ==
  /\ l.kernel = "SCL_SCAN" /\ m \in Nat /\ l.items = Power[m] /\ l.local = Power[m + 1]
  /\ l.groups \in Nat /\ l.size \in Nat

LEMMA TreedIs ==
  ASSUME NEW c, c.skeleton = "scan", ScanCall(c), PowerOfTwo(c), NEW k \in 0 .. Passes(c) - 1
  PROVE  \E m \in Nat : Treed(ScanPass(c, k), m) /\ c.wg = Power[m + 1]
<1> DEFINE l == ScanPass(c, k)
<1>1. /\ l.items = c.wg \div 2 /\ l.kernel = "SCL_SCAN" /\ l.local = c.wg
      /\ l.groups \in Nat /\ l.size \in Nat
  BY LevelFacts DEF Leveled
<1>2. PICK n \in 1 .. c.wg : c.wg = Power[n] BY DEF PowerOfTwo
<1> HIDE DEF l
<1>3. n - 1 \in Nat /\ (n - 1) + 1 = n BY <1>2
<1>4. Power[n - 1] \in Nat /\ Power[n] = 2 * Power[n - 1] BY <1>3, PowerSteps
<1>5. \A x \in Nat : (2 * x) \div 2 = x OBVIOUS
<1>6. c.wg \div 2 = Power[n - 1] BY <1>2, <1>4, <1>5
<1>7. Treed(l, n - 1) /\ c.wg = Power[(n - 1) + 1] BY <1>1, <1>2, <1>3, <1>6 DEF Treed
<1> QED BY <1>3, <1>7 DEF l

LEMMA PassSteps ==
  ASSUME NEW l, NEW m, Treed(l, m), NEW g, NEW t
  PROVE  /\ Phases(l, g, t) = 2 * m + 5
         /\ Code(l, g, t, 0) = CacheElements(l, g, t)
         /\ \A s \in 0 .. m : Code(l, g, t, s + 1) = UpSweep(t, Power[m - s], Power[s])
         /\ Code(l, g, t, m + 2) = StoreSum(l, g, t)
         /\ \A s \in 0 .. m : Code(l, g, t, m + 3 + s) = DownSweep(t, Power[s], Power[m - s])
         /\ Code(l, g, t, 2 * m + 4) = CopyBack(l, g, t)
<1> DEFINE up == UpSteps(l)
           down == DownSteps(l)
           n == l.items
<1>1. l.kernel = "SCL_SCAN" /\ m \in Nat /\ n = Power[m] BY DEF Treed
<1>2. up = m + 1 /\ down = m + 1 BY <1>1, TreeSteps
<1>3. n \in Nat BY <1>1, PowerSteps
<1>4. Phases(l, g, t) = up + down + 3 BY <1>1, ScanPhasesOf
<1>5. ASSUME NEW p \in Nat, p < Phases(l, g, t)
      PROVE  /\ p = 0 => Code(l, g, t, p) = CacheElements(l, g, t)
             /\ p \in 1 .. up =>
                  Code(l, g, t, p) = UpSweep(t, n \div Power[p - 1], Power[p - 1])
             /\ p = up + 1 => Code(l, g, t, p) = StoreSum(l, g, t)
             /\ p \in up + 2 .. up + down + 1 =>
                  Code(l, g, t, p) =
                    DownSweep(t, Power[p - up - 2], Power[up] \div Power[p - up - 1])
             /\ p = up + down + 2 => Code(l, g, t, p) = CopyBack(l, g, t)
  BY <1>1, <1>3, <1>5, ScanSteps
<1> HIDE DEF up, down, n
<1>6. Phases(l, g, t) = 2 * m + 5 BY <1>1, <1>2, <1>4
<1>7. Code(l, g, t, 0) = CacheElements(l, g, t)
  <2>1. 0 \in Nat /\ 0 < Phases(l, g, t) BY <1>1, <1>6
  <2> QED BY <2>1, <1>5
<1>8. ASSUME NEW s \in 0 .. m PROVE Code(l, g, t, s + 1) = UpSweep(t, Power[m - s], Power[s])
  <2> DEFINE p == s + 1
  <2>1. s \in Nat /\ s <= m /\ p \in Nat /\ p < 2 * m + 5 /\ p \in 1 .. m + 1 /\ p - 1 = s
    BY <1>1
  <2> HIDE DEF p
  <2>2. Code(l, g, t, p) = UpSweep(t, n \div Power[p - 1], Power[p - 1])
    BY <2>1, <1>2, <1>5, <1>6
  <2>3. Power[m] \div Power[s] = Power[m - s] BY <2>1, <1>1, PowerOrder
  <2>4. UpSweep(t, n \div Power[p - 1], Power[p - 1]) = UpSweep(t, Power[m - s], Power[s])
    BY <2>1, <2>3, <1>1
  <2> QED BY <2>2, <2>4 DEF p
<1>9. Code(l, g, t, m + 2) = StoreSum(l, g, t)
  <2> DEFINE p == m + 2
  <2>1. p \in Nat /\ p < 2 * m + 5 /\ p = (m + 1) + 1 BY <1>1
  <2> HIDE DEF p
  <2>2. Code(l, g, t, p) = StoreSum(l, g, t) BY <2>1, <1>2, <1>5, <1>6
  <2> QED BY <2>2 DEF p
<1>10. ASSUME NEW s \in 0 .. m
       PROVE  Code(l, g, t, m + 3 + s) = DownSweep(t, Power[s], Power[m - s])
  <2> DEFINE p == m + 3 + s
  <2>1. /\ s \in Nat /\ s <= m /\ p \in Nat /\ p < 2 * m + 5
        /\ p \in (m + 1) + 2 .. (m + 1) + (m + 1) + 1
        /\ p - (m + 1) - 2 = s /\ p - (m + 1) - 1 = s + 1
    BY <1>1
  <2> HIDE DEF p
  <2>2. Code(l, g, t, p) = DownSweep(t, Power[p - up - 2], Power[up] \div Power[p - up - 1])
    BY <2>1, <1>2, <1>5, <1>6
  <2>3. s + 1 \in Nat /\ m + 1 \in Nat /\ s + 1 <= m + 1 /\ (m + 1) - (s + 1) = m - s
    BY <2>1, <1>1
  <2>4. Power[m + 1] \div Power[s + 1] = Power[(m + 1) - (s + 1)] BY <2>3, PowerOrder
  <2>5. Power[m + 1] \div Power[s + 1] = Power[m - s] BY <2>3, <2>4
  <2>6. DownSweep(t, Power[p - up - 2], Power[up] \div Power[p - up - 1])
        = DownSweep(t, Power[s], Power[m - s])
    BY <2>1, <2>5, <1>2
  <2> QED BY <2>2, <2>6 DEF p
<1>11. Code(l, g, t, 2 * m + 4) = CopyBack(l, g, t)
  <2> DEFINE p == 2 * m + 4
  <2>1. p \in Nat /\ p < 2 * m + 5 /\ p = (m + 1) + (m + 1) + 2 BY <1>1
  <2> HIDE DEF p
  <2>2. Code(l, g, t, p) = CopyBack(l, g, t) BY <2>1, <1>2, <1>5, <1>6
  <2> QED BY <2>2 DEF p
<1> QED BY <1>6, <1>7, <1>8, <1>9, <1>10, <1>11

LEMMA PassPhase ==
  ASSUME NEW m \in Nat, NEW p \in Nat, p < 2 * m + 5
  PROVE  \/ p = 0 \/ p = m + 2 \/ p = 2 * m + 4
         \/ \E s \in 0 .. m : p = s + 1
         \/ \E s \in 0 .. m : p = m + 3 + s
<1>1. p \in 1 .. m + 1 => p - 1 \in 0 .. m /\ p = (p - 1) + 1 OBVIOUS
<1>2. p \in m + 3 .. 2 * m + 3 => p - m - 3 \in 0 .. m /\ p = m + 3 + (p - m - 3) OBVIOUS
<1>3. p = 0 \/ p = m + 2 \/ p = 2 * m + 4 \/ p \in 1 .. m + 1 \/ p \in m + 3 .. 2 * m + 3 OBVIOUS
<1> QED BY <1>1, <1>2, <1>3

\* The cells that the code names.
Table(S, f) == \A x \in DOMAIN f : x \in S /\ f[x] \in Seq(S)

LEMMA TableOfNone == ASSUME NEW S PROVE Table(S, Nothing)
BY CodeOfNone DEF Table

LEMMA TableOfOne ==
  ASSUME NEW S, NEW x \in S, NEW s \in Seq(S)
  PROVE  Table(S, At(x, s))
<1> DEFINE f == At(x, s)
<1>1. DOMAIN f = {x} /\ f[x] = s BY CodeOfOne
<1> HIDE DEF f
<1>2. Table(S, f) BY <1>1 DEF Table
<1> QED BY <1>2 DEF f

LEMMA TableOfCopy ==
  ASSUME NEW S, NEW x \in S, NEW y \in S
  PROVE  Table(S, Copied(x, y))
<1> DEFINE f == Copied(x, y)
<1>1. <<y>> \in Seq(S) OBVIOUS
<1>2. DOMAIN f = {x} /\ f[x] = <<y>> BY CodeOfCopy
<1> HIDE DEF f
<1>3. Table(S, f) BY <1>1, <1>2 DEF Table
<1> QED BY <1>3 DEF f

LEMMA TableOfTwo ==
  ASSUME NEW S, NEW x \in S, NEW y \in S, NEW z \in S
  PROVE  Table(S, At(x, <<y, z>>))
<1> DEFINE s == <<y, z>>
<1>1. s \in Seq(S) OBVIOUS
<1> HIDE DEF s
<1>2. Table(S, At(x, s)) BY <1>1, TableOfOne
<1> QED BY <1>2 DEF s

LEMMA TableOfMerged ==
  ASSUME NEW S, NEW f, NEW h, Table(S, f), Table(S, h)
  PROVE  Table(S, Merged(f, h))
<1> DEFINE m == Merged(f, h)
<1>1. /\ DOMAIN m = DOMAIN f \cup DOMAIN h
      /\ \A x \in DOMAIN m : m[x] = IF x \in DOMAIN f THEN f[x] ELSE h[x]
  BY DEF Merged
<1> HIDE DEF m
<1>2. Table(S, m) BY <1>1 DEF Table
<1> QED BY <1>2 DEF m
-----------------------------------------------------------------------------
\* The memory of a call of Scan.
Scans(c) == c.skeleton = "scan" /\ ScanCall(c) /\ PowerOfTwo(c)

LEMMA FreshIs ==
  ASSUME NEW n \in Nat
  PROVE  /\ DOMAIN Fresh(n) = 0 .. n - 1 /\ DOMAIN Labelled(n, 0) = 0 .. n - 1
         /\ \A i \in 0 .. n - 1 : Fresh(n)[i] \in Seq(Int) /\ Labelled(n, 0)[i] = <<i + 1>>
<1>1. DOMAIN Fresh(n) = 0 .. n - 1 /\ DOMAIN Labelled(n, 0) = 0 .. n - 1 BY DEF Fresh, Labelled
<1>2. \A i \in 0 .. n - 1 : Fresh(n)[i] = JunkValue BY DEF Fresh
<1>3. ASSUME NEW i \in 0 .. n - 1 PROVE Labelled(n, 0)[i] = <<i + 1>>
  <2>1. Labelled(n, 0)[i] = <<0 + i + 1>> BY DEF Labelled
  <2>2. 0 + i + 1 = i + 1 OBVIOUS
  <2> QED BY <2>1, <2>2
<1> QED BY <1>1, <1>2, <1>3, JunkIsList

LEMMA ScanMemory ==
  ASSUME NEW c, c.skeleton = "scan", ScanCall(c)
  PROVE  /\ DOMAIN Buffers(c) = {In, Out} \cup {Temporary(k) : k \in 0 .. Passes(c) - 1}
         /\ \A i \in 0 .. c.n - 1 : Buffers(c)[In][i] = <<i + 1>>
         /\ DOMAIN Buffers(c)[In] = 0 .. c.n - 1 /\ DOMAIN Buffers(c)[Out] = 0 .. c.n - 1
         /\ \A k \in 0 .. Passes(c) - 1 :
              DOMAIN Buffers(c)[Temporary(k)] = 0 .. ScanSize(c)[k] - 1
         /\ Numbered(c)
         /\ \A b \in DOMAIN Buffers(c) : \A n \in DOMAIN Buffers(c)[b] :
              Buffers(c)[b][n] \in Seq(Int)
<1> DEFINE last == Passes(c)
           B == Buffers(c)
           D == {In, Out} \cup {Temporary(k) : k \in 0 .. last - 1}
<1>1. c.n \in Nat /\ \A k \in Nat : ScanSize(c)[k] \in Nat BY ScanSizes DEF ScanCall, Positive
<1>2. B = [b \in D |->
             CASE b = In  -> Labelled(c.n, 0)
               [] b = Out -> Fresh(c.n)
               [] OTHER   -> Fresh(ScanSize(c)[b - Temporary(0)])]
  BY DEF Buffers, ScanBuffers
<1>3. DOMAIN B = D /\ B[In] = Labelled(c.n, 0) /\ B[Out] = Fresh(c.n)
  BY <1>2 DEF In, Out
<1>4. ASSUME NEW k \in 0 .. last - 1 PROVE B[Temporary(k)] = Fresh(ScanSize(c)[k]) /\ k \in Nat
  <2>1. Passes(c) \in Positive BY PassesFacts
  <2>2. k \in Nat BY <2>1 DEF Positive
  <2>3. Temporary(k) # In /\ Temporary(k) # Out /\ Temporary(k) - Temporary(0) = k
    BY <2>2 DEF Temporary, In, Out
  <2>4. Temporary(k) \in D OBVIOUS
  <2> QED BY <1>2, <2>2, <2>3, <2>4
<1>5. ASSUME NEW b \in D PROVE \E n \in Nat : B[b] \in {Fresh(n), Labelled(n, 0)}
  <2>1. CASE b = In \/ b = Out BY <2>1, <1>1, <1>3
  <2>2. CASE \E k \in 0 .. last - 1 : b = Temporary(k) BY <2>2, <1>1, <1>4
  <2> QED BY <2>1, <2>2
<1> HIDE DEF B
<1>6. ASSUME NEW b \in D PROVE DOMAIN B[b] \subseteq Int /\ \A n \in DOMAIN B[b] : B[b][n] \in Seq(Int)
  <2>1. PICK n \in Nat : B[b] \in {Fresh(n), Labelled(n, 0)} BY <1>5
  <2>2. DOMAIN B[b] = 0 .. n - 1 BY <2>1, FreshIs
  <2>3. ASSUME NEW i \in 0 .. n - 1 PROVE B[b][i] \in Seq(Int)
    <3>1. <<i + 1>> \in Seq(Int) OBVIOUS
    <3> QED BY <2>1, <3>1, FreshIs
  <2> QED BY <2>2, <2>3
<1>7. D \subseteq Int \ {Shared}
  <2>1. \A k \in Nat : Temporary(k) \in Int \ {Shared} BY DEF Temporary, Shared
  <2>2. \A k \in 0 .. last - 1 : k \in Nat BY <1>4
  <2>3. In \in Int \ {Shared} /\ Out \in Int \ {Shared} BY DEF In, Out, Shared
  <2> QED BY <2>1, <2>2, <2>3
<1>8. Numbered(c) BY <1>3, <1>6, <1>7 DEF Numbered, B
<1>9. /\ DOMAIN B[In] = 0 .. c.n - 1 /\ DOMAIN B[Out] = 0 .. c.n - 1
      /\ \A i \in 0 .. c.n - 1 : B[In][i] = <<i + 1>>
  BY <1>1, <1>3, FreshIs
<1>10. \A k \in 0 .. last - 1 : DOMAIN B[Temporary(k)] = 0 .. ScanSize(c)[k] - 1
  BY <1>1, <1>4, FreshIs
<1> QED BY <1>3, <1>6, <1>8, <1>9, <1>10 DEF B

\* Where the cells of a launch are.
Space(c) == (DOMAIN Buffers(c) \cup {Shared}) \X Int

Stocked(c, l) ==
  /\ Numbered(c) /\ l.items \in Positive /\ l.groups \in Nat /\ l.size \in Nat
  /\ {l.out, l.sums} \subseteq DOMAIN Buffers(c)

LEMMA SpaceHolds ==
  ASSUME NEW c, Numbered(c), NEW b \in DOMAIN Buffers(c) \cup {Shared}, NEW n \in Int
  PROVE  Cell(b, n) \in Space(c)
BY DEF Space, Cell

LEMMA CacheTable ==
  ASSUME NEW c, NEW l, Stocked(c, l), l.in \in DOMAIN Buffers(c),
         NEW g \in GroupOf(l), NEW t \in ItemOf(l)
  PROVE  Table(Space(c), CacheElements(l, g, t))
<1> DEFINE f == CacheElements(l, g, t)
           w == 2 * g * l.items
           S == Space(c)
<1>1. Numbered(c) /\ l.items \in Positive /\ l.groups \in Nat BY DEF Stocked
<1>2. DOMAIN f = {InGroup(l, g, i) : i \in Elements(l, g, t)} BY DEF CacheElements
<1>3. \A x \in DOMAIN f : f[x] = IF x[2] + w < l.size THEN <<Cell(l.in, x[2] + w)>> ELSE << >>
  BY DEF CacheElements
<1>4. w \in Int
  <2>1. g \in Nat /\ l.items \in Nat BY <1>1 DEF GroupOf, Positive
  <2>2. g * l.items \in Nat BY <2>1, Times
  <2>3. w = 2 * (g * l.items) BY <2>1
  <2> QED BY <2>2, <2>3
<1>5. \A i : InGroup(l, g, i) = Cell(Shared, i - w) BY DEF InGroup
<1> HIDE DEF f, w
<1>6. ASSUME NEW x \in DOMAIN f PROVE x \in S /\ f[x] \in Seq(S)
  <2>1. PICK i \in Elements(l, g, t) : x = Cell(Shared, i - w) BY <1>2, <1>5
  <2>2. i \in Nat BY <1>1, ElementsAreMine
  <2>3. i - w \in Int /\ x[2] = i - w BY <1>4, <2>1, <2>2 DEF Cell
  <2>4. x[2] + w \in Int BY <1>4, <2>3
  <2> DEFINE y == Cell(l.in, x[2] + w)
  <2>5. x \in S /\ y \in S BY <1>1, <2>1, <2>3, <2>4, SpaceHolds
  <2> HIDE DEF y, S
  <2>6. <<y>> \in Seq(S) /\ << >> \in Seq(S) BY <2>5
  <2> QED BY <1>3, <2>5, <2>6 DEF y
<1> QED BY <1>6 DEF Table, f

LEMMA SweepTable ==
  ASSUME NEW c, Numbered(c), NEW t \in Nat, NEW d \in Nat, NEW o \in Nat
  PROVE  Table(Space(c), UpSweep(t, d, o)) /\ Table(Space(c), DownSweep(t, d, o))
<1> DEFINE x == Right(t, o)
           y == Left(t, o)
           f == At(x, <<x, y>>)
           h == Copied(y, x)
           S == Space(c)
<1>1. UpSweep(t, d, o) \in {f, Nothing} /\ DownSweep(t, d, o) \in {Merged(h, f), Nothing}
  BY DEF UpSweep, DownSweep
<1>2. x \in S /\ y \in S
  <2>1. o * (2 * t + 2) \in Nat /\ o * (2 * t + 1) \in Nat
    <3>1. 2 * t + 2 \in Nat /\ 2 * t + 1 \in Nat OBVIOUS
    <3> QED BY <3>1, Times
  <2>2. o * (2 * t + 2) - 1 \in Int /\ o * (2 * t + 1) - 1 \in Int
    <3> DEFINE u == o * (2 * t + 2)
               v == o * (2 * t + 1)
    <3> HIDE DEF u, v
    <3>1. u - 1 \in Int /\ v - 1 \in Int BY <2>1 DEF u, v
    <3> QED BY <3>1 DEF u, v
  <2> QED BY <2>2, SpaceHolds DEF Left, Right
<1> HIDE DEF x, y, S
<1>3. Table(S, f) /\ Table(S, h) BY <1>2, TableOfTwo, TableOfCopy
<1> HIDE DEF f, h
<1>4. Table(S, Merged(h, f)) BY <1>3, TableOfMerged
<1> QED BY <1>1, <1>3, <1>4, TableOfNone DEF S

LEMMA SumTable ==
  ASSUME NEW c, NEW l, Stocked(c, l), NEW g \in GroupOf(l), NEW t \in ItemOf(l)
  PROVE  Table(Space(c), StoreSum(l, g, t))
<1> DEFINE x == Cell(l.sums, g)
           y == Cell(Shared, 2 * l.items - 1)
           h == Copied(x, y)
           s == << >>
           f == At(y, s)
           S == Space(c)
<1>1. StoreSum(l, g, t) \in {Merged(h, f), Nothing} BY DEF StoreSum
<1>2. x \in S /\ y \in S
  <2>1. g \in Int /\ 2 * l.items - 1 \in Int BY DEF Stocked, GroupOf, Positive
  <2> QED BY <2>1, SpaceHolds DEF Stocked
<1>3. s \in Seq(S) OBVIOUS
<1> HIDE DEF x, y, S, s
<1>4. Table(S, h) /\ Table(S, f) BY <1>2, <1>3, TableOfCopy, TableOfOne
<1> HIDE DEF h, f
<1>5. Table(S, Merged(h, f)) BY <1>4, TableOfMerged
<1> QED BY <1>1, <1>5, TableOfNone DEF S

LEMMA StoredElements ==
  ASSUME NEW c, NEW l, Stocked(c, l), NEW g \in GroupOf(l), NEW t \in ItemOf(l),
         NEW x \in CopiedTo(l, g, t)
  PROVE  /\ x \in Space(c) /\ x = Cell(l.out, x[2]) /\ x[2] \in Elements(l, g, t) /\ x[2] < l.size
         /\ x[2] \in Nat
         /\ InGroup(l, g, x[2]) \in Space(c)
<1>1. PICK i \in Elements(l, g, t) : x = Cell(l.out, i) /\ i < l.size BY DEF CopiedTo
<1>2. Numbered(c) /\ l.items \in Positive /\ l.groups \in Nat /\ l.out \in DOMAIN Buffers(c)
  BY DEF Stocked
<1>3. i \in Nat /\ x[2] = i BY <1>1, <1>2, ElementsAreMine DEF Cell
<1>4. 2 * g * l.items \in Int
  <2>1. g \in Nat /\ l.items \in Nat BY <1>2 DEF GroupOf, Positive
  <2>2. g * l.items \in Nat BY <2>1, Times
  <2>3. 2 * g * l.items = 2 * (g * l.items) BY <2>1
  <2> QED BY <2>2, <2>3
<1> DEFINE w == 2 * g * l.items
<1> HIDE DEF w
<1>5. i - w \in Int BY <1>3, <1>4 DEF w
<1>6. x \in Space(c) /\ Cell(Shared, i - w) \in Space(c)
  <2> DEFINE j == i - w
  <2>1. i \in Int /\ j \in Int BY <1>3, <1>5
  <2>2. l.out \in DOMAIN Buffers(c) \cup {Shared} /\ Shared \in DOMAIN Buffers(c) \cup {Shared}
    BY <1>2
  <2> HIDE DEF j
  <2>3. Cell(l.out, i) \in Space(c) /\ Cell(Shared, j) \in Space(c)
    BY <1>2, <2>1, <2>2, SpaceHolds
  <2> QED BY <1>1, <2>3 DEF j
<1>7. InGroup(l, g, x[2]) = Cell(Shared, i - w) BY <1>3 DEF InGroup, w
<1> QED BY <1>1, <1>3, <1>6, <1>7

LEMMA CopyBackTable ==
  ASSUME NEW c, NEW l, Stocked(c, l), NEW g \in GroupOf(l), NEW t \in ItemOf(l)
  PROVE  Table(Space(c), CopyBack(l, g, t))
<1> DEFINE D == CopiedTo(l, g, t)
           f == CopyBack(l, g, t)
<1>1. DOMAIN f = D /\ \A x \in D : f[x] = <<InGroup(l, g, x[2])>> BY DEF CopyBack, CopiedTo
<1> HIDE DEF f
<1>2. ASSUME NEW x \in D PROVE x \in Space(c) /\ f[x] \in Seq(Space(c))
  <2> DEFINE y == InGroup(l, g, x[2])
  <2>1. x \in Space(c) /\ y \in Space(c) BY StoredElements
  <2>2. f[x] = <<y>> BY <1>1
  <2> HIDE DEF y
  <2>3. <<y>> \in Seq(Space(c)) BY <2>1
  <2> QED BY <2>1, <2>2, <2>3
<1> HIDE DEF D
<1> QED BY <1>1, <1>2 DEF Table, f

\* What an item does in the two phases of a combination.
LEMMA CombinationSteps ==
  ASSUME NEW l, l.kernel = "SCL_UNIFORM_COMBINATION", NEW g, NEW t
  PROVE  /\ Phases(l, g, t) = 2
         /\ Code(l, g, t, 0) =
              IF t = 0 THEN Copied(Cell(Shared, 0), Cell(l.sums, g)) ELSE Nothing
         /\ DOMAIN Code(l, g, t, 1) = CopiedTo(l, g, t)
         /\ \A x \in DOMAIN Code(l, g, t, 1) : Code(l, g, t, 1)[x] = <<x, Cell(Shared, 0)>>
<1>1. Phases(l, g, t) = 2 BY CombinationPhase
<1>2. Code(l, g, t, 0) =
        IF t = 0 THEN Copied(Cell(Shared, 0), Cell(l.sums, g)) ELSE Nothing
  BY DEF Code, CombinationCode
<1>3. Code(l, g, t, 1) = [x \in CopiedTo(l, g, t) |->
                            <<x, Cell(Shared, 0)>>]
  BY DEF Code, CombinationCode, CopiedTo
<1> QED BY <1>1, <1>2, <1>3

LEMMA CombinationTable ==
  ASSUME NEW c, NEW l, Stocked(c, l), l.kernel = "SCL_UNIFORM_COMBINATION",
         NEW g \in GroupOf(l), NEW t \in ItemOf(l)
  PROVE  Table(Space(c), Code(l, g, t, 0)) /\ Table(Space(c), Code(l, g, t, 1))
<1> DEFINE x == Cell(Shared, 0)
           y == Cell(l.sums, g)
           S == Space(c)
           f == Code(l, g, t, 1)
<1>1. x \in S /\ y \in S
  <2>1. g \in Int /\ 0 \in Int BY DEF Stocked, GroupOf
  <2>2. Numbered(c) /\ {l.sums, Shared} \subseteq DOMAIN Buffers(c) \cup {Shared} BY DEF Stocked
  <2> QED BY <2>1, <2>2, SpaceHolds
<1>2. Code(l, g, t, 0) \in {Copied(x, y), Nothing}
  <2>1. Code(l, g, t, 0) = IF t = 0 THEN Copied(x, y) ELSE Nothing BY CombinationSteps
  <2> QED BY <2>1
<1>3. DOMAIN f = CopiedTo(l, g, t)
      /\ \A z \in DOMAIN f : f[z] = <<z, x>>
  <2>1. /\ DOMAIN Code(l, g, t, 1) = CopiedTo(l, g, t)
        /\ \A z \in DOMAIN Code(l, g, t, 1) : Code(l, g, t, 1)[z] = <<z, Cell(Shared, 0)>>
    BY CombinationSteps
  <2> QED BY <2>1
<1>4. \A z \in DOMAIN f : z \in S BY <1>3, StoredElements
<1> HIDE DEF x, y, S, f
<1>5. Table(S, Code(l, g, t, 0)) BY <1>1, <1>2, TableOfNone, TableOfCopy
<1>6. \A z \in DOMAIN f : f[z] \in Seq(S)
  <2> SUFFICES ASSUME NEW z \in DOMAIN f PROVE f[z] \in Seq(S) OBVIOUS
  <2>1. z \in S BY <1>4
  <2>2. <<z, x>> \in Seq(S) BY <2>1, <1>1
  <2> QED BY <1>3, <2>2
<1>7. Table(S, f) BY <1>4, <1>6 DEF Table
<1> QED BY <1>5, <1>7 DEF S, f
-----------------------------------------------------------------------------
LEMMA PassTable ==
  ASSUME NEW c, NEW l, NEW m, Stocked(c, l), Treed(l, m), l.in \in DOMAIN Buffers(c),
         NEW g \in GroupOf(l), NEW t \in ItemOf(l), NEW p \in Nat, p < Phases(l, g, t)
  PROVE  Table(Space(c), Code(l, g, t, p))
<1>1. m \in Nat /\ t \in Nat /\ Numbered(c) BY DEF Treed, Stocked, ItemOf, Positive
<1>2. /\ Phases(l, g, t) = 2 * m + 5
      /\ Code(l, g, t, 0) = CacheElements(l, g, t)
      /\ \A s \in 0 .. m : Code(l, g, t, s + 1) = UpSweep(t, Power[m - s], Power[s])
      /\ Code(l, g, t, m + 2) = StoreSum(l, g, t)
      /\ \A s \in 0 .. m : Code(l, g, t, m + 3 + s) = DownSweep(t, Power[s], Power[m - s])
      /\ Code(l, g, t, 2 * m + 4) = CopyBack(l, g, t)
  BY PassSteps
<1>3. \A s \in 0 .. m : s \in Nat /\ m - s \in Nat BY <1>1
<1>4. \A s \in 0 .. m : Power[s] \in Nat /\ Power[m - s] \in Nat BY <1>3, PowerSteps
<1>5. \A s \in 0 .. m : /\ Table(Space(c), UpSweep(t, Power[m - s], Power[s]))
                        /\ Table(Space(c), DownSweep(t, Power[s], Power[m - s]))
  BY <1>1, <1>4, SweepTable
<1>6. CASE p = 0 BY <1>2, <1>6, CacheTable
<1>7. CASE p = m + 2 BY <1>2, <1>7, SumTable
<1>8. CASE p = 2 * m + 4 BY <1>2, <1>8, CopyBackTable
<1>9. CASE \E s \in 0 .. m : p = s + 1 BY <1>2, <1>5, <1>9
<1>10. CASE \E s \in 0 .. m : p = m + 3 + s BY <1>2, <1>5, <1>10
<1>11. p < 2 * m + 5 BY <1>2
<1> QED BY <1>1, <1>6, <1>7, <1>8, <1>9, <1>10, <1>11, PassPhase

\* What is known of the launches at a level.
LEMMA LevelOf ==
  ASSUME NEW c, Scans(c), NEW k \in 0 .. Passes(c) - 1
  PROVE  /\ \E m \in Nat : Treed(ScanPass(c, k), m) /\ c.wg = Power[m + 1]
         /\ Stocked(c, ScanPass(c, k)) /\ Stocked(c, Combination(c, k))
         /\ ScanPass(c, k).in \in DOMAIN Buffers(c)
         /\ Combination(c, k).kernel = "SCL_UNIFORM_COMBINATION"
<1>1. c.skeleton = "scan" /\ ScanCall(c) /\ PowerOfTwo(c) BY DEF Scans
<1>2. Numbered(c) /\ DOMAIN Buffers(c) = {In, Out} \cup {Temporary(j) : j \in 0 .. Passes(c) - 1}
  BY <1>1, ScanMemory
<1>3. \A l \in {ScanPass(c, k), Combination(c, k)} : Stocked(c, l)
  <2>1. \A l \in {ScanPass(c, k), Combination(c, k)} : Leveled(c, l) BY <1>1, LevelFacts
  <2> QED BY <1>2, <2>1 DEF Stocked, Leveled
<1>4. ScanPass(c, k).in \in DOMAIN Buffers(c)
  <2>1. ScanPass(c, k).in = IF k = 0 THEN In ELSE Temporary(k - 1) BY DEF ScanPass
  <2>2. Passes(c) \in Nat BY <1>1, PassesFacts DEF Positive
  <2>3. k # 0 => k - 1 \in 0 .. Passes(c) - 1 BY <2>2
  <2> QED BY <1>2, <2>1, <2>3
<1>5. Combination(c, k).kernel = "SCL_UNIFORM_COMBINATION" BY DEF Combination
<1> QED BY <1>1, <1>3, <1>4, <1>5, TreedIs

LEMMA LaunchTable ==
  ASSUME NEW c, Scans(c), NEW l \in LaunchOf(c),
         NEW g \in GroupOf(l), NEW t \in ItemOf(l), NEW p \in Nat, p < Phases(l, g, t)
  PROVE  Table(Space(c), Code(l, g, t, p))
<1>1. PICK k \in 0 .. Passes(c) - 1 : l = ScanPass(c, k) \/ l = Combination(c, k)
  BY ScanLaunchOf DEF Scans
<1>2. CASE l = ScanPass(c, k)
  <2>1. PICK m \in Nat : Treed(l, m) BY <1>2, LevelOf
  <2>2. Stocked(c, l) /\ l.in \in DOMAIN Buffers(c) BY <1>2, LevelOf
  <2> QED BY <2>1, <2>2, PassTable
<1>3. CASE l = Combination(c, k)
  <2>1. Stocked(c, l) /\ l.kernel = "SCL_UNIFORM_COMBINATION" BY <1>3, LevelOf
  <2>2. Phases(l, g, t) = 2 BY <2>1, CombinationSteps
  <2>3. p = 0 \/ p = 1 BY <2>2
  <2> QED BY <2>1, <2>3, CombinationTable
<1> QED BY <1>1, <1>2, <1>3

LEMMA SeqWider ==
  ASSUME NEW S, NEW T, S \subseteq T, NEW s \in Seq(S)
  PROVE  s \in Seq(T) /\ Range(s) \subseteq S
<1>1. DOMAIN s = 1 .. Len(s) /\ Len(s) \in Nat BY LenProperties
<1>2. \A n \in 1 .. Len(s) : s[n] \in S BY ElementOfSeq
<1>3. s = [n \in 1 .. Len(s) |-> s[n]] BY SeqDef, <1>1
<1>4. s \in Seq(T)
  <2>1. [n \in 1 .. Len(s) |-> s[n]] \in [1 .. Len(s) -> T] BY <1>2
  <2>2. s \in [1 .. Len(s) -> T] BY <1>3, <2>1
  <2> QED BY <1>1, <2>2, SeqDef
<1> QED BY <1>1, <1>2, <1>4 DEF Range

LEMMA ScanAddressed ==
  ASSUME NEW c, Scans(c), NEW l \in LaunchOf(c)
  PROVE  Listed(l) /\ Addressed(c, l)
<1>1. Numbered(c) BY ScanMemory DEF Scans
<1>2. Space(c) \subseteq Cells BY <1>1 DEF Space, Cells, Numbered, Shared
<1>3. ASSUME NEW g \in GroupOf(l), NEW i \in ItemOf(l), NEW p \in Nat, p < Phases(l, g, i),
             NEW x \in DOMAIN Code(l, g, i, p)
      PROVE  /\ x \in Cells /\ Code(l, g, i, p)[x] \in Seq(Cells)
             /\ Range(Code(l, g, i, p)[x]) \subseteq Space(c)
  <2>1. Table(Space(c), Code(l, g, i, p)) BY <1>3, LaunchTable
  <2>2. x \in Space(c) /\ Code(l, g, i, p)[x] \in Seq(Space(c)) BY <1>3, <2>1 DEF Table
  <2> QED BY <1>2, <2>2, SeqWider
<1>4. Listed(l) BY <1>3 DEF Listed
<1>5. \A x \in Cells : x \in Int \X Int BY DEF Cells
<1>6. Addressed(c, l) BY <1>3, <1>5 DEF Addressed, Space
<1> QED BY <1>4, <1>6

LEMMA ScanIsSequential ==
  ASSUME NEW c, Scans(c)
  PROVE  /\ Sequential(c) /\ Numbered(c)
         /\ \A l \in LaunchOf(c) : Addressed(c, l) /\ Apart(c, l)
<1>1. c.skeleton = "scan" /\ ScanCall(c) /\ PowerOfTwo(c) BY DEF Scans
<1>2. Scheduled(c) /\ \A l \in LaunchOf(c) : Apart(c, l) BY <1>1, ScanIsSafe
<1>3. ASSUME NEW l \in LaunchOf(c) PROVE Orderly(c, l)
  <2>1. PICK k \in 0 .. Passes(c) - 1 : l = ScanPass(c, k) \/ l = Combination(c, k)
    BY <1>1, ScanLaunchOf
  <2>2. Exclusive(l) /\ Groupwise(l)
    <3>1. CASE l = ScanPass(c, k) BY <1>1, <3>1, ScanPassIsSafe
    <3>2. CASE l = Combination(c, k) BY <1>1, <3>2, CombinationIsSafe
    <3> QED BY <2>1, <3>1, <3>2
  <2>3. ~ OnePhase(l)
    <3>1. l.kernel \in {"SCL_SCAN", "SCL_UNIFORM_COMBINATION"} BY <2>1 DEF ScanPass, Combination
    <3> QED BY <3>1 DEF OnePhase
  <2>4. Listed(l) BY ScanAddressed
  <2>5. Shape(c, l) /\ Even(l) BY <1>2 DEF Scheduled
  <2> QED BY <2>2, <2>3, <2>4, <2>5 DEF Orderly
<1>4. Numbered(c) /\ \A b \in DOMAIN Buffers(c) : \A n \in DOMAIN Buffers(c)[b] :
        Buffers(c)[b][n] \in Seq(Int)
  BY <1>1, ScanMemory
<1>5. \A k \in DOMAIN Launches(c) : Launches(c)[k] \in LaunchOf(c) BY DEF LaunchOf
<1>6. Sequential(c) BY <1>1, <1>2, <1>3, <1>4, <1>5 DEF Sequential, Scheduled
<1> QED BY <1>2, <1>4, <1>6, ScanAddressed
-----------------------------------------------------------------------------
(***************************************************************************)
(* Scan: what has been combined, and the tree.                             *)
(***************************************************************************)
\* The inputs a + 1 .. b, each of them once, in some order.
Spans(v, a, b) ==
  /\ v \in Seq(Int) /\ Distinct(v)
  /\ \A y : y \in Range(v) <=> y \in Int /\ a < y /\ y <= b

LEMMA SpansNothing == ASSUME NEW a \in Int PROVE Spans(<< >>, a, a)
<1> DEFINE v == << >>
<1>1. v \in Seq(Int) /\ DOMAIN v = {} OBVIOUS
<1> HIDE DEF v
<1>2. Distinct(v) /\ Range(v) = {} BY <1>1 DEF Distinct, Range
<1>3. Spans(v, a, a) BY <1>1, <1>2 DEF Spans
<1> QED BY <1>3 DEF v

LEMMA SpansOne == ASSUME NEW a \in Int PROVE Spans(<<a + 1>>, a, a + 1)
<1> DEFINE v == <<a + 1>>
<1>1. v \in Seq(Int) /\ DOMAIN v = {1} /\ v[1] = a + 1 OBVIOUS
<1> HIDE DEF v
<1>2. Distinct(v) /\ Range(v) = {a + 1} BY <1>1 DEF Distinct, Range
<1>3. \A y : y = a + 1 <=> y \in Int /\ a < y /\ y <= a + 1 OBVIOUS
<1>4. Spans(v, a, a + 1) BY <1>1, <1>2, <1>3 DEF Spans
<1> QED BY <1>4 DEF v

LEMMA SpansJoin ==
  ASSUME NEW a \in Int, NEW b \in Int, NEW c \in Int, a <= b, b <= c,
         NEW u, NEW v, Spans(u, a, b), Spans(v, b, c)
  PROVE  Spans(u \o v, a, c) /\ Spans(v \o u, a, c)
<1>1. /\ u \in Seq(Int) /\ v \in Seq(Int) /\ Distinct(u) /\ Distinct(v)
      /\ \A y : y \in Range(u) <=> y \in Int /\ a < y /\ y <= b
      /\ \A y : y \in Range(v) <=> y \in Int /\ b < y /\ y <= c
  BY DEF Spans
<1>2. Disjoint(u, v) /\ Disjoint(v, u)
  <2>1. ASSUME NEW y, y \in Range(u), y \in Range(v) PROVE FALSE
    <3>1. y \in Int /\ y <= b /\ b < y BY <1>1, <2>1
    <3> QED BY <3>1
  <2> QED BY <2>1 DEF Disjoint
<1>3. \A y : y \in Range(u) \/ y \in Range(v) <=> y \in Int /\ a < y /\ y <= c
  <2> SUFFICES ASSUME NEW y PROVE y \in Range(u) \/ y \in Range(v) <=> y \in Int /\ a < y /\ y <= c
    OBVIOUS
  <2>1. y \in Int => ((a < y /\ y <= b) \/ (b < y /\ y <= c) <=> a < y /\ y <= c) OBVIOUS
  <2> QED BY <1>1, <2>1
<1>4. /\ u \o v \in Seq(Int) /\ \A y : y \in Range(u \o v) <=> y \in Range(u) \/ y \in Range(v)
      /\ v \o u \in Seq(Int) /\ \A y : y \in Range(v \o u) <=> y \in Range(v) \/ y \in Range(u)
  BY <1>1, ConcatRange
<1>5. Distinct(u \o v) /\ Distinct(v \o u) BY <1>1, <1>2, ConcatDistinct
<1> DEFINE w == u \o v
           z == v \o u
<1> HIDE DEF w, z
<1>6. Spans(w, a, c) BY <1>3, <1>4, <1>5 DEF Spans, w
<1>7. Spans(z, a, c) BY <1>3, <1>4, <1>5 DEF Spans, z
<1> QED BY <1>6, <1>7 DEF w, z

\* The nodes of the tree: the a-th of those that combine Power[r] elements.
Node(r, a) == Cell(Shared, Power[r] * a - 1)

LEMMA NodePlace ==
  ASSUME NEW r \in Nat, NEW a \in Nat
  PROVE  /\ Power[r] \in Nat /\ Power[r] \in Positive /\ Power[r] * a \in Nat
         /\ Power[r] * a = a * Power[r]
         /\ Node(r, a) \in Cells /\ Node(r, a)[1] = Shared /\ Node(r, a)[2] = Power[r] * a - 1
<1>1. Power[r] \in Nat /\ Power[r] \in Positive BY PowerSteps, PowerGrows
<1> DEFINE x == Power[r]
<1> HIDE DEF x
<1>2. x * a \in Nat /\ x * a = a * x BY <1>1, Times DEF x
<1>3. x * a - 1 \in Int BY <1>2
<1>4. Shared \in Int BY DEF Shared
<1>5. Node(r, a) = <<Shared, x * a - 1>> BY DEF Node, Cell, x
<1> QED BY <1>1, <1>2, <1>3, <1>4, <1>5 DEF Cells, x

LEMMA NodeDoubled ==
  \A s, a \in Nat : Power[s + 1] * a = Power[s] * (2 * a) /\ Node(s + 1, a) = Node(s, 2 * a)
<1> SUFFICES ASSUME NEW s \in Nat, NEW a \in Nat
             PROVE  Power[s + 1] * a = Power[s] * (2 * a) /\ Node(s + 1, a) = Node(s, 2 * a)
  OBVIOUS
<1>1. Power[s + 1] * a = Power[s] * (2 * a)
  <2>1. Power[s + 1] = 2 * Power[s] /\ Power[s] \in Nat BY PowerSteps
  <2> DEFINE x == Power[s]
  <2> HIDE DEF x
  <2>2. (2 * x) * a = x * (2 * a) BY <2>1 DEF x
  <2> QED BY <2>1, <2>2 DEF x
<1>2. Node(s + 1, a) = Node(s, 2 * a) BY <1>1 DEF Node
<1> QED BY <1>1, <1>2

LEMMA SameNode ==
  ASSUME NEW t \in Nat, NEW e \in Nat, NEW u \in Nat, NEW f \in Nat, Node(t, e) = Node(u, f)
  PROVE  e * Power[t] = f * Power[u]
<1> DEFINE x == Power[t] * e
           y == Power[u] * f
<1>1. x \in Nat /\ y \in Nat /\ x = e * Power[t] /\ y = f * Power[u] BY NodePlace
<1>2. x - 1 = y - 1 BY DEF Node, Cell
<1> HIDE DEF x, y
<1> QED BY <1>1, <1>2

LEMMA NodeUnique == \A s, a, b \in Nat : Node(s, a) = Node(s, b) => a = b
<1> SUFFICES ASSUME NEW s \in Nat, NEW a \in Nat, NEW b \in Nat, Node(s, a) = Node(s, b)
             PROVE  a = b
  OBVIOUS
<1>1. a * Power[s] = b * Power[s] BY SameNode
<1>2. Power[s] \in Positive BY NodePlace
<1> QED BY <1>1, <1>2, Cancel

LEMMA OddNodes ==
  \A r, s, a, b \in Nat : r < s => Node(r, 2 * b + 1) # Node(s, a)
<1> SUFFICES ASSUME NEW r \in Nat, NEW s \in Nat, NEW a \in Nat, NEW b \in Nat,
                    r < s, Node(r, 2 * b + 1) = Node(s, a)
             PROVE  FALSE
  OBVIOUS
<1> DEFINE e == s - r - 1
<1>1. e \in Nat /\ e + 1 = s - r /\ r <= s OBVIOUS
<1>2. Power[s - r] * Power[r] = Power[s] BY <1>1, PowerOrder
<1>3. Power[s - r] = 2 * Power[e]
  <2> HIDE DEF e
  <2>1. Power[e + 1] = 2 * Power[e] BY <1>1, PowerSteps
  <2> QED BY <1>1, <2>1
<1> HIDE DEF e
<1>4. Power[e] \in Nat /\ Power[r] \in Nat /\ Power[r] \in Positive BY <1>1, NodePlace
<1>5. 2 * b + 1 \in Nat OBVIOUS
<1>6. (2 * b + 1) * Power[r] = a * Power[s] BY <1>5, SameNode
<1> DEFINE x == Power[r]
           y == Power[e]
<1> HIDE DEF x, y
<1>7. a * ((2 * y) * x) = (2 * (a * y)) * x BY <1>4 DEF x, y
<1>8. a * Power[s] = (2 * (a * y)) * x BY <1>2, <1>3, <1>7 DEF x, y
<1>9. a * y \in Nat BY <1>4, Times DEF y
<1> DEFINE z == a * y
<1> HIDE DEF z
<1>10. (2 * b + 1) * x = (2 * z) * x /\ z \in Nat BY <1>6, <1>8, <1>9 DEF x, z
<1>11. 2 * b + 1 \in Int /\ 2 * z \in Int BY <1>10
<1>12. 2 * b + 1 = 2 * z BY <1>4, <1>10, <1>11, Cancel DEF x
<1> QED BY <1>10, <1>12

LEMMA NodeInside ==
  ASSUME NEW K \in Nat, NEW s \in 0 .. K, NEW a \in Nat, a < Power[K - s]
  PROVE  Power[s] * (a + 1) \in 1 .. Power[K]
<1>1. s \in Nat /\ K - s \in Nat /\ s <= K OBVIOUS
<1> DEFINE x == Power[s]
           y == Power[K - s]
<1>2. x \in Nat /\ y \in Nat /\ x \in Positive /\ Power[K] \in Nat BY <1>1, PowerSteps, PowerGrows
<1>3. y * x = Power[K] BY <1>1, PowerOrder
<1> HIDE DEF x, y
<1>4. a + 1 \in Int /\ a + 1 <= y /\ 1 <= a + 1 /\ 1 \in Int BY <1>2 DEF y
<1>5. (a + 1) * x <= y * x BY <1>2, <1>4, Monotone
<1> DEFINE b == a + 1
<1>6. b \in Positive BY DEF Positive
<1> HIDE DEF b
<1>7. b * x \in Positive BY <1>2, <1>6, Product
<1>8. x * b = b * x BY <1>2, <1>6 DEF Positive
<1>9. x * b \in Nat /\ x * b >= 1 /\ x * b <= Power[K] BY <1>3, <1>5, <1>7, <1>8 DEF Positive, b
<1> DEFINE z == x * b
<1> HIDE DEF z
<1>10. z \in 1 .. Power[K] BY <1>2, <1>9 DEF z
<1> QED BY <1>10 DEF z, x, b
-----------------------------------------------------------------------------
\* Where the elements of a group begin and end.
Bounded(B) ==
  /\ \A i \in Nat : B[i] \in Int
  /\ \A i, j \in Nat : i <= j => B[i] <= B[j]

\* A node holds its own elements, or all that precede them in the group.
Piece(v, B, r, a)  == Spans(v[Node(r, a + 1)], B[Power[r] * a], B[Power[r] * (a + 1)])
Prefix(v, B, r, a) == Spans(v[Node(r, a + 1)], B[0], B[Power[r] * a])

\* On the way up, and on the way down.
Odds(v, B, K, s) ==
  \A r, b \in Nat : r < s /\ b < Power[K - r - 1] => Piece(v, B, r, 2 * b)

Upward(v, B, K, s) ==
  /\ \A a \in Nat : a < Power[K - s] => Piece(v, B, s, a)
  /\ Odds(v, B, K, s)

Downward(v, B, K, s) ==
  /\ \A a \in Nat : a < Power[K - s] => Prefix(v, B, s, a)
  /\ Odds(v, B, K, s)

\* A step of a sweep: d items combine two nodes each, nobody else does anything.
SweptUp(v, w, s, d) ==
  /\ \A t \in Nat : t < d => w[Node(s, 2 * t + 2)] = v[Node(s, 2 * t + 2)] \o v[Node(s, 2 * t + 1)]
  /\ \A x \in Cells : (\A t \in Nat : t < d => x # Node(s, 2 * t + 2)) => w[x] = v[x]

SweptDown(v, w, s, d) ==
  /\ \A t \in Nat : t < d =>
       /\ w[Node(s, 2 * t + 1)] = v[Node(s, 2 * t + 2)]
       /\ w[Node(s, 2 * t + 2)] = v[Node(s, 2 * t + 2)] \o v[Node(s, 2 * t + 1)]
  /\ \A x \in Cells :
       (\A t \in Nat : t < d => x # Node(s, 2 * t + 1) /\ x # Node(s, 2 * t + 2)) => w[x] = v[x]

LEMMA HalfTree ==
  ASSUME NEW K \in Nat, NEW s \in Nat, s < K
  PROVE  /\ Power[K - s - 1] \in Nat /\ K - (s + 1) = K - s - 1
         /\ Power[K - s] = 2 * Power[K - s - 1]
<1> DEFINE e == K - s - 1
<1>1. e \in Nat /\ e + 1 = K - s /\ K - (s + 1) = e OBVIOUS
<1> HIDE DEF e
<1>2. Power[e] \in Nat /\ Power[e + 1] = 2 * Power[e] BY <1>1, PowerSteps
<1> QED BY <1>1, <1>2 DEF e

\* The two halves of a node.
LEMMA Halves ==
  ASSUME NEW B, Bounded(B), NEW s \in Nat, NEW a \in Nat
  PROVE  LET x == Power[s] * (2 * a)
             y == Power[s] * (2 * a + 1)
             z == Power[s] * (2 * a + 2)
         IN  /\ x = Power[s + 1] * a /\ z = Power[s + 1] * (a + 1)
             /\ B[x] \in Int /\ B[y] \in Int /\ B[z] \in Int /\ B[0] \in Int
             /\ B[0] <= B[x] /\ B[x] <= B[y] /\ B[y] <= B[z]
             /\ Node(s, 2 * a + 2) = Node(s + 1, a + 1)
<1> DEFINE k == Power[s]
           x == k * (2 * a)
           y == k * (2 * a + 1)
           z == k * (2 * a + 2)
<1>1. 2 * a \in Nat /\ 2 * a + 1 \in Nat /\ 2 * a + 2 \in Nat /\ a + 1 \in Nat
      /\ 2 * (a + 1) = 2 * a + 2
  OBVIOUS
<1>2. k \in Nat BY PowerSteps
<1>3. x = Power[s + 1] * a /\ z = Power[s + 1] * (a + 1)
  <2>1. Power[s + 1] * (a + 1) = Power[s] * (2 * (a + 1)) BY <1>1, NodeDoubled
  <2>2. Power[s + 1] * a = Power[s] * (2 * a) BY NodeDoubled
  <2> DEFINE e == 2 * (a + 1)
             f == 2 * a + 2
  <2>3. e = f OBVIOUS
  <2> HIDE DEF e, f
  <2>4. k * e = k * f BY <2>3
  <2> QED BY <2>1, <2>2, <2>4 DEF e, f
<1>4. Node(s, 2 * a + 2) = Node(s + 1, a + 1)
  <2>1. Node(s + 1, a + 1) = Node(s, 2 * (a + 1)) BY <1>1, NodeDoubled
  <2> QED BY <1>1, <2>1
<1>5. x \in Nat /\ y \in Nat /\ z \in Nat BY <1>1, <1>2, Times
<1>6. x <= y /\ y <= z
  <2>1. 2 * a <= 2 * a + 1 /\ 2 * a + 1 <= 2 * a + 2 OBVIOUS
  <2> DEFINE e == 2 * a
             f == 2 * a + 1
             h == 2 * a + 2
  <2>2. e \in Int /\ f \in Int /\ h \in Int /\ e <= f /\ f <= h BY <1>1, <2>1
  <2> HIDE DEF e, f, h, k
  <2>3. k * e <= k * f /\ k * f <= k * h BY <1>2, <2>2, Monotone
  <2> QED BY <2>3 DEF e, f, h
<1> HIDE DEF x, y, z
<1>7. /\ B[x] \in Int /\ B[y] \in Int /\ B[z] \in Int /\ B[0] \in Int
      /\ B[0] <= B[x] /\ B[x] <= B[y] /\ B[y] <= B[z]
  <2>1. 0 <= x BY <1>5
  <2> QED BY <1>5, <1>6, <2>1 DEF Bounded
<1> QED BY <1>3, <1>4, <1>7 DEF x, y, z, k

LEMMA UpStep ==
  ASSUME NEW K \in Nat, NEW s \in Nat, s < K, NEW B, Bounded(B), NEW v, NEW w,
         Upward(v, B, K, s), SweptUp(v, w, s, Power[K - s - 1])
  PROVE  Upward(w, B, K, s + 1)
<1> DEFINE D == Power[K - s - 1]
<1>1. D \in Nat /\ K - (s + 1) = K - s - 1 /\ Power[K - s] = 2 * D BY HalfTree
<1>2. \A r, b \in Nat : r < s => \A a \in Nat : Node(r, 2 * b + 1) # Node(s, a) BY OddNodes
<1>3. \A a, b \in Nat : Node(s, a) = Node(s, b) => a = b BY NodeUnique
<1>4. \A r, b \in Nat : Node(r, 2 * b + 1) \in Cells
  <2>1. \A b \in Nat : 2 * b + 1 \in Nat OBVIOUS
  <2> QED BY <2>1, NodePlace
<1>5. /\ \A t \in Nat : t < D =>
           w[Node(s, 2 * t + 2)] = v[Node(s, 2 * t + 2)] \o v[Node(s, 2 * t + 1)]
      /\ \A x \in Cells : (\A t \in Nat : t < D => x # Node(s, 2 * t + 2)) => w[x] = v[x]
  BY DEF SweptUp
<1>6. /\ \A a \in Nat : a < 2 * D => Piece(v, B, s, a)
      /\ \A r, b \in Nat : r < s /\ b < Power[K - r - 1] => Piece(v, B, r, 2 * b)
  BY <1>1 DEF Upward, Odds
<1>7. ASSUME NEW r \in Nat, r <= s, NEW b \in Nat PROVE w[Node(r, 2 * b + 1)] = v[Node(r, 2 * b + 1)]
  <2> HIDE DEF D
  <2>1. ASSUME NEW t \in Nat PROVE Node(r, 2 * b + 1) # Node(s, 2 * t + 2)
    <3>1. 2 * t + 2 \in Nat /\ 2 * b + 1 \in Nat /\ 2 * b + 1 # 2 * t + 2 OBVIOUS
    <3>2. CASE r < s BY <1>2, <3>1, <3>2
    <3>3. CASE r = s BY <1>3, <3>1, <3>3
    <3> QED BY <1>7, <3>2, <3>3
  <2> QED BY <1>4, <1>5, <1>7, <2>1
<1>8. ASSUME NEW a \in Nat, a < D PROVE Piece(w, B, s + 1, a)
  <2> DEFINE x == Power[s] * (2 * a)
             y == Power[s] * (2 * a + 1)
             z == Power[s] * (2 * a + 2)
             p == v[Node(s, 2 * a + 1)]
             q == v[Node(s, 2 * a + 2)]
  <2>1. /\ x = Power[s + 1] * a /\ z = Power[s + 1] * (a + 1)
        /\ B[x] \in Int /\ B[y] \in Int /\ B[z] \in Int /\ B[x] <= B[y] /\ B[y] <= B[z]
        /\ Node(s, 2 * a + 2) = Node(s + 1, a + 1)
    BY Halves
  <2>2. 2 * a \in Nat /\ 2 * a < 2 * D /\ 2 * a + 1 \in Nat /\ 2 * a + 1 < 2 * D
        /\ (2 * a + 1) + 1 = 2 * a + 2
    BY <1>1, <1>8
  <2>3. Piece(v, B, s, 2 * a) /\ Piece(v, B, s, 2 * a + 1) BY <1>6, <2>2
  <2>4. Spans(p, B[x], B[y]) BY <2>3 DEF Piece
  <2>5. Spans(q, B[y], B[z]) BY <2>2, <2>3 DEF Piece
  <2>6. w[Node(s + 1, a + 1)] = q \o p BY <1>5, <1>8, <2>1
  <2> HIDE DEF x, y, z, p, q
  <2>7. Spans(q \o p, B[x], B[z]) BY <2>1, <2>4, <2>5, SpansJoin
  <2> QED BY <2>1, <2>6, <2>7 DEF Piece
<1>9. ASSUME NEW r \in Nat, NEW b \in Nat, r < s + 1, b < Power[K - r - 1]
      PROVE  Piece(w, B, r, 2 * b)
  <2>1. Piece(v, B, r, 2 * b)
    <3>1. CASE r < s BY <1>6, <1>9, <3>1
    <3>2. CASE r = s
      <4>1. b < D BY <1>9, <3>2
      <4>2. 2 * b \in Nat /\ 2 * b < 2 * D BY <1>1, <4>1
      <4> QED BY <1>6, <3>2, <4>2
    <3>3. r < s \/ r = s BY <1>9
    <3> QED BY <3>1, <3>2, <3>3
  <2>2. r <= s BY <1>9
  <2>3. w[Node(r, 2 * b + 1)] = v[Node(r, 2 * b + 1)] BY <1>7, <2>2
  <2> QED BY <2>1, <2>3 DEF Piece
<1> QED BY <1>1, <1>8, <1>9 DEF Upward, Odds

LEMMA DownStep ==
  ASSUME NEW K \in Nat, NEW s \in Nat, s < K, NEW B, Bounded(B), NEW v, NEW w,
         Downward(v, B, K, s + 1), SweptDown(v, w, s, Power[K - s - 1])
  PROVE  Downward(w, B, K, s)
<1> DEFINE D == Power[K - s - 1]
<1>1. D \in Nat /\ K - (s + 1) = K - s - 1 /\ Power[K - s] = 2 * D BY HalfTree
<1>2. \A r, b \in Nat : r < s => \A a \in Nat : Node(r, 2 * b + 1) # Node(s, a) BY OddNodes
<1>3. \A r, b \in Nat : Node(r, 2 * b + 1) \in Cells
  <2>1. \A b \in Nat : 2 * b + 1 \in Nat OBVIOUS
  <2> QED BY <2>1, NodePlace
<1>4. /\ \A t \in Nat : t < D =>
           /\ w[Node(s, 2 * t + 1)] = v[Node(s, 2 * t + 2)]
           /\ w[Node(s, 2 * t + 2)] = v[Node(s, 2 * t + 2)] \o v[Node(s, 2 * t + 1)]
      /\ \A x \in Cells :
           (\A t \in Nat : t < D => x # Node(s, 2 * t + 1) /\ x # Node(s, 2 * t + 2)) => w[x] = v[x]
  BY DEF SweptDown
<1>5. /\ \A a \in Nat : a < D => Prefix(v, B, s + 1, a)
      /\ \A r, b \in Nat : r < s + 1 /\ b < Power[K - r - 1] => Piece(v, B, r, 2 * b)
  BY <1>1 DEF Downward, Odds
<1>6. ASSUME NEW t \in Nat, t < D PROVE Prefix(w, B, s, 2 * t) /\ Prefix(w, B, s, 2 * t + 1)
  <2> DEFINE x == Power[s] * (2 * t)
             y == Power[s] * (2 * t + 1)
             z == Power[s] * (2 * t + 2)
             p == v[Node(s, 2 * t + 1)]
             q == v[Node(s, 2 * t + 2)]
  <2>1. /\ x = Power[s + 1] * t
        /\ B[x] \in Int /\ B[y] \in Int /\ B[0] \in Int /\ B[0] <= B[x] /\ B[x] <= B[y]
        /\ Node(s, 2 * t + 2) = Node(s + 1, t + 1)
    BY Halves
  <2>2. 2 * t \in Nat /\ 2 * t + 1 \in Nat /\ (2 * t + 1) + 1 = 2 * t + 2 /\ s < s + 1 OBVIOUS
  <2>3. Prefix(v, B, s + 1, t) BY <1>5, <1>6
  <2>4. Piece(v, B, s, 2 * t) BY <1>5, <1>6, <2>2
  <2>5. Spans(q, B[0], B[x]) BY <2>1, <2>3 DEF Prefix
  <2>6. Spans(p, B[x], B[y]) BY <2>4 DEF Piece
  <2>7. w[Node(s, 2 * t + 1)] = q /\ w[Node(s, 2 * t + 2)] = q \o p BY <1>4, <1>6
  <2>8. Prefix(w, B, s, 2 * t) BY <2>5, <2>7 DEF Prefix
  <2> DEFINE n == 2 * t + 1
  <2>9. n + 1 = 2 * t + 2 /\ Power[s] * n = y BY <2>2
  <2> HIDE DEF x, y, z, p, q, n
  <2>10. Spans(q \o p, B[0], B[y]) BY <2>1, <2>5, <2>6, SpansJoin
  <2>11. Prefix(w, B, s, n) BY <2>7, <2>9, <2>10 DEF Prefix
  <2> QED BY <2>8, <2>11 DEF n
<1>7. ASSUME NEW a \in Nat, a < 2 * D PROVE Prefix(w, B, s, a)
  <2>1. \E t \in Nat : a = 2 * t \/ a = 2 * t + 1
    <3>1. a \div 2 \in Nat /\ (a = 2 * (a \div 2) \/ a = 2 * (a \div 2) + 1) OBVIOUS
    <3> QED BY <3>1
  <2>2. PICK t \in Nat : a = 2 * t \/ a = 2 * t + 1 BY <2>1
  <2>3. t < D BY <1>1, <1>7, <2>2
  <2> QED BY <1>6, <2>2, <2>3
<1>8. ASSUME NEW r \in Nat, NEW b \in Nat, r < s, b < Power[K - r - 1]
      PROVE  Piece(w, B, r, 2 * b)
  <2>1. Piece(v, B, r, 2 * b)
    <3>1. r < s + 1 BY <1>8
    <3> QED BY <1>5, <1>8, <3>1
  <2>2. w[Node(r, 2 * b + 1)] = v[Node(r, 2 * b + 1)]
    <3> HIDE DEF D
    <3>1. \A t \in Nat : 2 * t + 1 \in Nat /\ 2 * t + 2 \in Nat OBVIOUS
    <3>2. \A t \in Nat : /\ Node(r, 2 * b + 1) # Node(s, 2 * t + 1)
                         /\ Node(r, 2 * b + 1) # Node(s, 2 * t + 2)
      BY <1>2, <1>8, <3>1
    <3> QED BY <1>3, <1>4, <3>2
  <2> QED BY <2>1, <2>2 DEF Piece
<1> QED BY <1>1, <1>7, <1>8 DEF Downward, Odds

\* The sum of all, at the root, is taken away.
LEMMA RootStep ==
  ASSUME NEW K \in Nat, NEW B, Bounded(B), NEW v, NEW w, Upward(v, B, K, K),
         w[Cell(Shared, Power[K] - 1)] = << >>,
         \A x \in Cells : x[1] = Shared /\ x # Cell(Shared, Power[K] - 1) => w[x] = v[x]
  PROVE  /\ Spans(v[Cell(Shared, Power[K] - 1)], B[0], B[Power[K]])
         /\ Downward(w, B, K, K)
<1>1. Power[K - K] = 1 /\ Power[K] \in Nat BY PowerSteps
<1>2. Power[K] * 0 = 0 /\ Power[K] * (0 + 1) = Power[K] BY <1>1
<1>3. Node(K, 0 + 1) = Cell(Shared, Power[K] - 1) BY <1>2 DEF Node
<1>4. 0 \in Nat /\ 0 < Power[K - K] BY <1>1
<1>5. Piece(v, B, K, 0) BY <1>4 DEF Upward
<1>6. Spans(v[Cell(Shared, Power[K] - 1)], B[0], B[Power[K]]) BY <1>2, <1>3, <1>5 DEF Piece
<1>7. Spans(<< >>, B[0], B[0])
  <2>1. B[0] \in Int BY DEF Bounded
  <2> QED BY <2>1, SpansNothing
<1>8. Prefix(w, B, K, 0) BY <1>2, <1>3, <1>7 DEF Prefix
<1>9. \A a \in Nat : a < Power[K - K] => a = 0 BY <1>1
<1>10. ASSUME NEW r \in Nat, NEW b \in Nat, r < K, b < Power[K - r - 1]
       PROVE  Piece(w, B, r, 2 * b)
  <2>1. Piece(v, B, r, 2 * b) BY <1>10 DEF Upward, Odds
  <2>2. 2 * b + 1 \in Nat /\ 0 + 1 \in Nat OBVIOUS
  <2>3. Node(r, 2 * b + 1) # Node(K, 0 + 1) BY <1>10, <2>2, OddNodes
  <2>4. Node(r, 2 * b + 1) \in Cells /\ Node(r, 2 * b + 1)[1] = Shared BY <2>2, NodePlace
  <2>5. w[Node(r, 2 * b + 1)] = v[Node(r, 2 * b + 1)] BY <1>3, <2>3, <2>4
  <2> QED BY <2>1, <2>5 DEF Piece
<1> QED BY <1>6, <1>8, <1>9, <1>10 DEF Downward, Odds
-----------------------------------------------------------------------------
(***************************************************************************)
(* Scan: what a phase makes of a group's memory.                           *)
(***************************************************************************)
\* (A name for the provers, who need not know what it stands for.)
Joined(u, v) == u \o v

LEMMA GatheredFew ==
  ASSUME NEW c, NEW l, NEW v \in Memory, NEW x \in Cells, NEW y \in Cells,
         Within(c, l, x), Within(c, l, y)
  PROVE  /\ Gathered(c, l, v, << >>) = << >>
         /\ Gathered(c, l, v, <<x>>) = v[x]
         /\ Gathered(c, l, v, <<x, y>>) = Joined(v[x], v[y])
<1> DEFINE e(z) == IF Within(c, l, z) THEN v[z] ELSE JunkValue
<1>1. v[x] \in Seq(Int) /\ v[y] \in Seq(Int) BY DEF Memory
<1>2. e(x) = v[x] /\ e(y) = v[y] OBVIOUS
<1>3. \A s : Gathered(c, l, v, s) = FlattenSeq([n \in DOMAIN s |-> e(s[n])]) BY DEF Gathered
<1> HIDE DEF e
<1>4. [n \in DOMAIN << >> |-> e(<< >>[n])] = << >> OBVIOUS
<1>5. [n \in DOMAIN <<x>> |-> e(<<x>>[n])] = <<v[x]>>
  <2> DEFINE s == [n \in DOMAIN <<x>> |-> e(<<x>>[n])]
  <2>1. DOMAIN <<x>> = 1 .. 1 /\ <<x>>[1] = x OBVIOUS
  <2>2. s \in [1 .. 1 -> {v[x]}] BY <1>2, <2>1
  <2>3. s = <<s[1]>> BY <2>2
  <2>4. s[1] = v[x] BY <2>2
  <2> HIDE DEF s
  <2> QED BY <2>3, <2>4 DEF s
<1>6. [n \in DOMAIN <<x, y>> |-> e(<<x, y>>[n])] = <<v[x], v[y]>>
  <2> DEFINE s == [n \in DOMAIN <<x, y>> |-> e(<<x, y>>[n])]
  <2>1. DOMAIN <<x, y>> = 1 .. 2 /\ <<x, y>>[1] = x /\ <<x, y>>[2] = y OBVIOUS
  <2>2. DOMAIN s = 1 .. 2 /\ s[1] = v[x] /\ s[2] = v[y] BY <1>2, <2>1
  <2>3. s = [n \in 1 .. 2 |-> s[n]] BY <2>1
  <2> HIDE DEF s
  <2>4. <<v[x], v[y]>> = [n \in 1 .. 2 |-> <<v[x], v[y]>>[n]] OBVIOUS
  <2>5. \A n \in 1 .. 2 : s[n] = <<v[x], v[y]>>[n]
    <3>1. \A n \in 1 .. 2 : n = 1 \/ n = 2 OBVIOUS
    <3> QED BY <2>2, <3>1
  <2>6. s = <<v[x], v[y]>> BY <2>3, <2>4, <2>5
  <2> QED BY <2>6 DEF s
<1> DEFINE a == v[x]
           b == v[y]
<1>7. a \in Seq(Int) /\ b \in Seq(Int) BY <1>1
<1> HIDE DEF a, b
<1>8. FlattenSeq(<<a>>) = a /\ FlattenSeq(<<a, b>>) = a \o b BY <1>7, FlattenTwo
<1>9. Gathered(c, l, v, << >>) = << >> BY <1>3, <1>4, FlattenNone
<1>10. Gathered(c, l, v, <<x>>) = a BY <1>3, <1>5, <1>8 DEF a
<1>11. Gathered(c, l, v, <<x, y>>) = a \o b BY <1>3, <1>6, <1>8 DEF a, b
<1>12. Gathered(c, l, v, <<x, y>>) = Joined(a, b) BY <1>11 DEF Joined
<1> QED BY <1>9, <1>10, <1>12 DEF a, b

LEMMA GatheredOne ==
  ASSUME NEW c, NEW l, NEW v \in Memory, NEW x \in Cells, Within(c, l, x)
  PROVE  Gathered(c, l, v, <<x>>) = v[x]
BY GatheredFew

LEMMA GatheredTwo ==
  ASSUME NEW c, NEW l, NEW v \in Memory, NEW x \in Cells, NEW y \in Cells,
         Within(c, l, x), Within(c, l, y)
  PROVE  Gathered(c, l, v, <<x, y>>) = Joined(v[x], v[y])
BY GatheredFew

LEMMA SweepValues ==
  ASSUME NEW t \in Nat, NEW d, NEW s \in Nat, t < d
  PROVE  LET x == Node(s, 2 * t + 1)
             y == Node(s, 2 * t + 2)
         IN  /\ DOMAIN UpSweep(t, d, Power[s]) = {y}
             /\ UpSweep(t, d, Power[s])[y] = <<y, x>>
             /\ DOMAIN DownSweep(t, d, Power[s]) = {x, y}
             /\ DownSweep(t, d, Power[s])[x] = <<y>>
             /\ DownSweep(t, d, Power[s])[y] = <<y, x>>
<1> DEFINE x == Node(s, 2 * t + 1)
           y == Node(s, 2 * t + 2)
           u == <<y, x>>
           f == At(y, u)
           h == Copied(x, y)
<1>1. Left(t, Power[s]) = x /\ Right(t, Power[s]) = y BY DEF Left, Right, Node
<1>2. UpSweep(t, d, Power[s]) = f /\ DownSweep(t, d, Power[s]) = Merged(h, f)
  BY <1>1 DEF UpSweep, DownSweep
<1>3. x # y
  <2>1. 2 * t + 1 \in Nat /\ 2 * t + 2 \in Nat /\ 2 * t + 1 # 2 * t + 2 OBVIOUS
  <2> QED BY <2>1, NodeUnique
<1> HIDE DEF x, y, u
<1>4. DOMAIN f = {y} /\ f[y] = u BY CodeOfOne
<1>5. DOMAIN h = {x} /\ h[x] = <<y>> BY CodeOfCopy
<1> HIDE DEF f, h
<1> DEFINE k == Merged(h, f)
<1>6. DOMAIN k = DOMAIN h \cup DOMAIN f
      /\ \A z \in DOMAIN k : k[z] = IF z \in DOMAIN h THEN h[z] ELSE f[z]
  BY DEF Merged
<1> HIDE DEF k
<1>7. DOMAIN k = {x, y} /\ k[x] = <<y>> /\ k[y] = u BY <1>3, <1>4, <1>5, <1>6
<1> QED BY <1>2, <1>4, <1>7 DEF x, y, u, k

LEMMA SweepIdle ==
  ASSUME NEW t, NEW d, NEW o, ~ (t < d)
  PROVE  DOMAIN UpSweep(t, d, o) = {} /\ DOMAIN DownSweep(t, d, o) = {}
BY SweepCells, CodeOfNone

\* The nodes of a level are in the group's memory.
LEMMA NodesWithin ==
  ASSUME NEW c, NEW l, NEW m, Treed(l, m), NEW s \in 0 .. m, NEW t \in Nat, t < Power[m - s]
  PROVE  /\ Node(s, 2 * t + 1) \in Cells /\ Node(s, 2 * t + 2) \in Cells
         /\ Within(c, l, Node(s, 2 * t + 1)) /\ Within(c, l, Node(s, 2 * t + 2))
         /\ t \in ItemOf(l)
<1> DEFINE K == m + 1
<1>1. m \in Nat /\ l.local = Power[K] /\ l.items = Power[m] BY DEF Treed
<1>2. K \in Nat /\ s \in 0 .. K /\ s \in Nat /\ s < K /\ K - s - 1 = m - s /\ s <= m /\ m - s \in Nat
  BY <1>1
<1>3. Power[K - s] = 2 * Power[m - s] BY <1>2, HalfTree
<1>4. Power[m - s] \in Nat /\ Power[m] \in Nat /\ Power[K] \in Nat BY <1>1, <1>2, PowerSteps
<1>5. /\ 2 * t \in Nat /\ 2 * t + 1 \in Nat /\ 2 * t + 2 \in Nat /\ (2 * t + 1) + 1 = 2 * t + 2
      /\ 2 * t < Power[K - s] /\ 2 * t + 1 < Power[K - s]
  BY <1>3, <1>4
<1>6. Power[s] * (2 * t + 1) \in 1 .. Power[K] BY <1>2, <1>5, NodeInside
<1>7. Power[s] * (2 * t + 2) \in 1 .. Power[K]
  <2> DEFINE n == 2 * t + 1
  <2>1. n \in Nat /\ n < Power[K - s] /\ n + 1 = 2 * t + 2 BY <1>5
  <2> HIDE DEF n
  <2>2. Power[s] * (n + 1) \in 1 .. Power[K] BY <1>2, <2>1, NodeInside
  <2> QED BY <2>1, <2>2
<1>8. ASSUME NEW a \in Nat, Power[s] * a \in 1 .. Power[K]
      PROVE  Node(s, a) \in Cells /\ Within(c, l, Node(s, a))
  <2>1. /\ Node(s, a) \in Cells /\ Node(s, a)[1] = Shared /\ Node(s, a)[2] = Power[s] * a - 1
    BY <1>2, NodePlace
  <2> DEFINE n == Power[s] * a
  <2>2. n \in 1 .. Power[K] BY <1>8
  <2> HIDE DEF n
  <2>3. n - 1 \in 0 .. l.local - 1 BY <1>1, <1>4, <2>2
  <2> QED BY <2>1, <2>3 DEF Within, n
<1>9. t \in ItemOf(l)
  <2>1. m - s \in Nat /\ m - s <= m BY <1>1, <1>2
  <2>2. Power[m - s] <= Power[m] BY <1>1, <2>1, PowerOrder
  <2>3. t \in 0 .. l.items - 1 BY <1>1, <1>4, <2>2
  <2> QED BY <2>3 DEF ItemOf
<1> QED BY <1>5, <1>6, <1>7, <1>8, <1>9

LEMMA UpEffect ==
  ASSUME NEW c, NEW l, NEW m, Treed(l, m), Exclusive(l), NEW g \in GroupOf(l),
         NEW v \in Memory, NEW s \in 0 .. m
  PROVE  SweptUp(v, AfterPhase(c, l, g, s + 1, v), s, Power[m - s])
<1> DEFINE d == Power[m - s]
           p == s + 1
           w == AfterPhase(c, l, g, p, v)
<1>1. m \in Nat BY DEF Treed
<1>2. p \in Nat /\ p < 2 * m + 5 /\ s \in Nat BY <1>1
<1>3. \A t : Phases(l, g, t) = 2 * m + 5 BY PassSteps
<1>4. \A t : p < Phases(l, g, t) /\ Code(l, g, t, p) = UpSweep(t, d, Power[s])
  <2>1. \A t : Code(l, g, t, s + 1) = UpSweep(t, Power[m - s], Power[s]) BY PassSteps
  <2> QED BY <1>2, <1>3, <2>1
<1> HIDE DEF p
<1>5. ASSUME NEW t \in Nat, t < d
      PROVE  w[Node(s, 2 * t + 2)] = v[Node(s, 2 * t + 2)] \o v[Node(s, 2 * t + 1)]
  <2> DEFINE x == Node(s, 2 * t + 1)
             y == Node(s, 2 * t + 2)
  <2>1. x \in Cells /\ y \in Cells /\ Within(c, l, x) /\ Within(c, l, y) /\ t \in ItemOf(l)
    BY <1>5, NodesWithin
  <2>2. DOMAIN UpSweep(t, d, Power[s]) = {y} /\ UpSweep(t, d, Power[s])[y] = <<y, x>>
    BY <1>2, <1>5, SweepValues
  <2> HIDE DEF x, y, d
  <2>3. p < Phases(l, g, t) /\ y \in DOMAIN Code(l, g, t, p) /\ Code(l, g, t, p)[y] = <<y, x>>
    BY <1>4, <2>2
  <2>4. w[y] = Gathered(c, l, v, Code(l, g, t, p)[y]) BY <1>2, <2>1, <2>3, PhaseMakes
  <2>5. Gathered(c, l, v, <<y, x>>) = v[y] \o v[x]
    <3>1. Gathered(c, l, v, <<y, x>>) = Joined(v[y], v[x]) BY <2>1, GatheredTwo
    <3> QED BY <3>1 DEF Joined
  <2> HIDE DEF w
  <2>6. w[y] = v[y] \o v[x] BY <2>3, <2>4, <2>5
  <2> QED BY <2>6 DEF x, y
<1>6. ASSUME NEW x \in Cells, \A t \in Nat : t < d => x # Node(s, 2 * t + 2)
      PROVE  w[x] = v[x]
  <2>1. ASSUME NEW t \in ItemOf(l) PROVE x \notin DOMAIN Code(l, g, t, p)
    <3>1. t \in Nat BY DEF ItemOf
    <3>2. CASE t < d
      <4>1. DOMAIN UpSweep(t, d, Power[s]) = {Node(s, 2 * t + 2)}
        BY <1>2, <3>1, <3>2, SweepValues
      <4> QED BY <1>4, <1>6, <3>1, <3>2, <4>1
    <3>3. CASE ~ (t < d)
      <4>1. DOMAIN UpSweep(t, d, Power[s]) = {} BY <3>3, SweepIdle
      <4> QED BY <1>4, <4>1
    <3> QED BY <3>2, <3>3
  <2>2. \A t \in ItemOf(l) : p < Phases(l, g, t) => x \notin DOMAIN Code(l, g, t, p) BY <2>1
  <2>3. p \in Nat /\ x \in Cells /\ Exclusive(l) /\ g \in GroupOf(l) /\ v \in Memory BY <1>2
  <2>4. (\A t \in ItemOf(l) : p < Phases(l, g, t) => x \notin DOMAIN Code(l, g, t, p))
        => AfterPhase(c, l, g, p, v)[x] = v[x]
    BY <2>3, PhaseMakes
  <2> QED BY <2>2, <2>4
<1> HIDE DEF w, d
<1>7. SweptUp(v, w, s, d) BY <1>5, <1>6 DEF SweptUp
<1> QED BY <1>7 DEF w, d, p

LEMMA DownEffect ==
  ASSUME NEW c, NEW l, NEW m, Treed(l, m), Exclusive(l), NEW g \in GroupOf(l),
         NEW v \in Memory, NEW s \in 0 .. m
  PROVE  SweptDown(v, AfterPhase(c, l, g, m + 3 + (m - s), v), s, Power[m - s])
<1> DEFINE d == Power[m - s]
           p == m + 3 + (m - s)
           w == AfterPhase(c, l, g, p, v)
<1>1. m \in Nat BY DEF Treed
<1>2. p \in Nat /\ p < 2 * m + 5 /\ s \in Nat /\ m - s \in 0 .. m /\ m - (m - s) = s BY <1>1
<1>3. \A t : Phases(l, g, t) = 2 * m + 5 BY PassSteps
<1>4. \A t : p < Phases(l, g, t) /\ Code(l, g, t, p) = DownSweep(t, d, Power[s])
  <2> DEFINE q == m - s
  <2>1. q \in 0 .. m /\ m - q = s BY <1>2
  <2> HIDE DEF q
  <2>2. \A t : Code(l, g, t, m + 3 + q) = DownSweep(t, Power[q], Power[m - q]) BY <2>1, PassSteps
  <2> QED BY <1>2, <1>3, <2>1, <2>2 DEF q
<1> HIDE DEF p
<1>5. ASSUME NEW t \in Nat, t < d
      PROVE  /\ w[Node(s, 2 * t + 1)] = v[Node(s, 2 * t + 2)]
             /\ w[Node(s, 2 * t + 2)] = v[Node(s, 2 * t + 2)] \o v[Node(s, 2 * t + 1)]
  <2> DEFINE x == Node(s, 2 * t + 1)
             y == Node(s, 2 * t + 2)
  <2>1. x \in Cells /\ y \in Cells /\ Within(c, l, x) /\ Within(c, l, y) /\ t \in ItemOf(l)
    BY <1>5, NodesWithin
  <2>2. /\ DOMAIN DownSweep(t, d, Power[s]) = {x, y} /\ DownSweep(t, d, Power[s])[x] = <<y>>
        /\ DownSweep(t, d, Power[s])[y] = <<y, x>>
    BY <1>2, <1>5, SweepValues
  <2> HIDE DEF x, y, d
  <2>3. /\ p < Phases(l, g, t) /\ x \in DOMAIN Code(l, g, t, p) /\ y \in DOMAIN Code(l, g, t, p)
        /\ Code(l, g, t, p)[x] = <<y>> /\ Code(l, g, t, p)[y] = <<y, x>>
    BY <1>4, <2>2
  <2>4. w[y] = Gathered(c, l, v, Code(l, g, t, p)[y]) BY <1>2, <2>1, <2>3, PhaseMakes
  <2>5. w[x] = Gathered(c, l, v, Code(l, g, t, p)[x]) BY <1>2, <2>1, <2>3, PhaseMakes
  <2>6. Gathered(c, l, v, <<y, x>>) = v[y] \o v[x]
    <3>1. Gathered(c, l, v, <<y, x>>) = Joined(v[y], v[x]) BY <2>1, GatheredTwo
    <3> QED BY <3>1 DEF Joined
  <2>7. Gathered(c, l, v, <<y>>) = v[y] BY <2>1, GatheredOne
  <2> HIDE DEF w
  <2>8. w[x] = v[y] /\ w[y] = v[y] \o v[x] BY <2>3, <2>4, <2>5, <2>6, <2>7
  <2> QED BY <2>8 DEF x, y
<1>6. ASSUME NEW x \in Cells,
             \A t \in Nat : t < d => x # Node(s, 2 * t + 1) /\ x # Node(s, 2 * t + 2)
      PROVE  w[x] = v[x]
  <2>1. ASSUME NEW t \in ItemOf(l) PROVE x \notin DOMAIN Code(l, g, t, p)
    <3>1. t \in Nat BY DEF ItemOf
    <3>2. CASE t < d
      <4>1. DOMAIN DownSweep(t, d, Power[s]) = {Node(s, 2 * t + 1), Node(s, 2 * t + 2)}
        BY <1>2, <3>1, <3>2, SweepValues
      <4> QED BY <1>4, <1>6, <3>1, <3>2, <4>1
    <3>3. CASE ~ (t < d)
      <4>1. DOMAIN DownSweep(t, d, Power[s]) = {} BY <3>3, SweepIdle
      <4> QED BY <1>4, <4>1
    <3> QED BY <3>2, <3>3
  <2>2. \A t \in ItemOf(l) : p < Phases(l, g, t) => x \notin DOMAIN Code(l, g, t, p) BY <2>1
  <2>3. p \in Nat /\ x \in Cells /\ Exclusive(l) /\ g \in GroupOf(l) /\ v \in Memory BY <1>2
  <2>4. (\A t \in ItemOf(l) : p < Phases(l, g, t) => x \notin DOMAIN Code(l, g, t, p))
        => AfterPhase(c, l, g, p, v)[x] = v[x]
    BY <2>3, PhaseMakes
  <2> QED BY <2>2, <2>4
<1> HIDE DEF w, d
<1>7. SweptDown(v, w, s, d) BY <1>5, <1>6 DEF SweptDown
<1> QED BY <1>7 DEF w, d, p
-----------------------------------------------------------------------------
\* The first element of a group, and the boundaries from there.
From(l, g) == 2 * g * l.items

Shifted(S, n) == [j \in Nat |-> S[n + j]]

LEMMA ItemFor ==
  ASSUME NEW l, l.items \in Positive, l.groups \in Nat, NEW g \in GroupOf(l),
         NEW a \in 0 .. 2 * l.items - 1
  PROVE  /\ From(l, g) \in Nat
         /\ \E t \in ItemOf(l) : /\ From(l, g) + a \in Elements(l, g, t)
                                 /\ InGroup(l, g, From(l, g) + a) = Cell(Shared, a)
<1> DEFINE n == l.items
           x == g * n
<1>1. n \in Nat /\ g \in Nat BY DEF Positive, GroupOf
<1>2. x \in Nat BY <1>1, Times
<1>3. From(l, g) = 2 * x BY <1>1 DEF From
<1>4. a \in Nat /\ a \in 0 .. 2 * n - 1 OBVIOUS
<1> DEFINE t == a \div 2
<1>5. t \in Nat /\ (a = 2 * t \/ a = 2 * t + 1) BY <1>4
<1>6. Elements(l, g, t) = {2 * (x + t), 2 * (x + t) + 1} BY DEF Elements
<1>7. InGroup(l, g, From(l, g) + a) = Cell(Shared, (From(l, g) + a) - From(l, g))
  BY DEF InGroup, From
<1> HIDE DEF x, t, n
<1>8. 2 * x \in Nat /\ (2 * x + a) - 2 * x = a BY <1>2, <1>4
<1>9. 2 * x + a = 2 * (x + t) \/ 2 * x + a = 2 * (x + t) + 1 BY <1>2, <1>5
<1>10. t \in 0 .. n - 1 BY <1>1, <1>4, <1>5
<1>11. t \in ItemOf(l) BY <1>10 DEF ItemOf, n
<1>12. From(l, g) + a \in Elements(l, g, t) BY <1>3, <1>6, <1>9
<1>13. InGroup(l, g, From(l, g) + a) = Cell(Shared, a) BY <1>3, <1>7, <1>8
<1> QED BY <1>3, <1>8, <1>11, <1>12, <1>13

LEMMA ShiftBounded ==
  ASSUME NEW S, Bounded(S), NEW n \in Nat
  PROVE  Bounded(Shifted(S, n)) /\ \A j \in Nat : Shifted(S, n)[j] = S[n + j]
<1> DEFINE B == Shifted(S, n)
<1>1. \A j \in Nat : B[j] = S[n + j] BY DEF Shifted
<1> HIDE DEF B
<1>2. \A i \in Nat : B[i] \in Int
  <2>1. \A i \in Nat : n + i \in Nat OBVIOUS
  <2> QED BY <1>1, <2>1 DEF Bounded
<1>3. ASSUME NEW i \in Nat, NEW j \in Nat, i <= j PROVE B[i] <= B[j]
  <2>1. n + i \in Nat /\ n + j \in Nat /\ n + i <= n + j BY <1>3
  <2> QED BY <1>1, <2>1 DEF Bounded
<1>4. Bounded(B) BY <1>2, <1>3 DEF Bounded
<1> QED BY <1>1, <1>4 DEF B

\* What a pass finds in its input.
Delivered(l, v, S) == \A i \in Nat : i < l.size => Spans(v[Cell(l.in, i)], S[i], S[i + 1])

Fed(c, l, S) ==
  /\ Bounded(S) /\ \A i \in Nat : l.size <= i => S[i + 1] = S[i]
  /\ l.in \in Int \ {Shared} /\ \A i \in Nat : i < l.size => i \in DOMAIN Buffers(c)[l.in]

LEMMA CacheEffect ==
  ASSUME NEW c, NEW l, NEW m, Treed(l, m), Stocked(c, l), Exclusive(l), NEW g \in GroupOf(l),
         NEW v \in Memory, NEW S, Fed(c, l, S), Delivered(l, v, S)
  PROVE  LET w == AfterPhase(c, l, g, 0, v)
         IN  /\ Upward(w, Shifted(S, From(l, g)), m + 1, 0)
             /\ \A x \in Cells : x[1] # Shared => w[x] = v[x]
<1> DEFINE w == AfterPhase(c, l, g, 0, v)
           n == From(l, g)
           B == Shifted(S, n)
           K == m + 1
<1>1. /\ l.items \in Positive /\ l.groups \in Nat /\ l.size \in Nat
      /\ m \in Nat /\ l.items = Power[m] /\ l.local = Power[K]
  BY DEF Treed, Stocked
<1>2. 0 \in Nat /\ \A t : 0 < Phases(l, g, t) /\ Code(l, g, t, 0) = CacheElements(l, g, t)
  <2>1. \A t : Phases(l, g, t) = 2 * m + 5 /\ Code(l, g, t, 0) = CacheElements(l, g, t)
    BY PassSteps
  <2> QED BY <1>1, <2>1
<1>3. l.local = 2 * l.items /\ l.items \in Nat BY <1>1, PowerSteps
<1>4. ASSUME NEW a \in Nat, a < l.local
      PROVE  Spans(w[Cell(Shared, a)], B[a], B[a + 1])
  <2>1. a \in 0 .. 2 * l.items - 1 BY <1>3, <1>4
  <2>2. n \in Nat BY <2>1, <1>1, ItemFor
  <2>3. PICK t \in ItemOf(l) : n + a \in Elements(l, g, t) /\ InGroup(l, g, n + a) = Cell(Shared, a)
    BY <2>1, <1>1, ItemFor
  <2> DEFINE x == Cell(Shared, a)
             y == Cell(l.in, n + a)
             f == CacheElements(l, g, t)
  <2>4. x \in DOMAIN f /\ f[x] = IF n + a < l.size THEN <<y>> ELSE << >>
    <3>1. DOMAIN f = {InGroup(l, g, i) : i \in Elements(l, g, t)} BY DEF CacheElements
    <3>2. x \in DOMAIN f BY <2>3, <3>1
    <3>3. f[x] = LET i == x[2] + 2 * g * l.items IN IF i < l.size THEN <<Cell(l.in, i)>> ELSE << >>
      BY <3>1, <3>2 DEF CacheElements
    <3>4. x[2] = a BY DEF Cell
    <3>5. f[x] = IF a + n < l.size THEN <<Cell(l.in, a + n)>> ELSE << >>
      BY <3>3, <3>4 DEF From
    <3> HIDE DEF n, f, x
    <3>6. a + n = n + a BY <2>2
    <3> QED BY <3>2, <3>5, <3>6
  <2>5. x \in Cells /\ Within(c, l, x)
    <3>1. x[1] = Shared /\ x[2] = a /\ x \in Cells BY DEF Cell, Cells, Shared
    <3>2. l.local \in Nat /\ a \in 0 .. l.local - 1 BY <1>3, <1>4
    <3> QED BY <3>1, <3>2 DEF Within
  <2> DEFINE s == f[x]
  <2>6. w[x] = Gathered(c, l, v, s)
    <3>1. 0 < Phases(l, g, t) /\ x \in DOMAIN Code(l, g, t, 0) /\ Code(l, g, t, 0)[x] = s
      BY <1>2, <2>4
    <3> HIDE DEF x, s
    <3>2. 0 < Phases(l, g, t) /\ x \in DOMAIN Code(l, g, t, 0) =>
            AfterPhase(c, l, g, 0, v)[x] = Gathered(c, l, v, Code(l, g, t, 0)[x])
      BY <1>2, <2>5, PhaseMakes
    <3> QED BY <3>1, <3>2
  <2>7. B[a] = S[n + a] /\ B[a + 1] = S[(n + a) + 1] /\ n + a \in Nat /\ S[n + a] \in Int
    <3>1. n + a \in Nat /\ n + (a + 1) = (n + a) + 1 /\ a + 1 \in Nat BY <2>2
    <3>2. \A j \in Nat : B[j] = S[n + j] BY <2>2, ShiftBounded DEF Fed
    <3> HIDE DEF n, B
    <3> QED BY <3>1, <3>2 DEF Fed, Bounded
  <2> HIDE DEF n, w, B, f, x
  <2>8. CASE n + a < l.size
    <3>1. y \in Cells /\ Within(c, l, y)
      <4>1. y[1] = l.in /\ y[2] = n + a /\ y \in Cells BY <2>7 DEF Cell, Cells, Fed
      <4>2. l.in # Shared /\ n + a \in DOMAIN Buffers(c)[l.in] BY <2>7, <2>8 DEF Fed
      <4> HIDE DEF y
      <4> QED BY <4>1, <4>2 DEF Within
    <3>2. Spans(v[y], S[n + a], S[(n + a) + 1]) BY <2>7, <2>8 DEF Delivered
    <3> HIDE DEF y
    <3>3. Gathered(c, l, v, <<y>>) = v[y] BY <3>1, GatheredOne
    <3>4. w[x] = v[y] BY <2>4, <2>6, <2>8, <3>3
    <3> QED BY <2>7, <3>2, <3>4 DEF x
  <2>9. CASE ~ (n + a < l.size)
    <3>1. Gathered(c, l, v, << >>) = << >> BY <2>5, GatheredFew
    <3>2. w[x] = << >> BY <2>4, <2>6, <2>9, <3>1
    <3>3. l.size <= n + a BY <1>1, <2>7, <2>9
    <3>4. S[(n + a) + 1] = S[n + a] BY <2>7, <3>3 DEF Fed
    <3> QED BY <2>7, <3>2, <3>4, SpansNothing DEF x
  <2> QED BY <2>8, <2>9
<1>5. Upward(w, B, K, 0)
  <2>1. ASSUME NEW a \in Nat, a < Power[K - 0] PROVE Piece(w, B, 0, a)
    <3>1. a < l.local BY <1>1, <2>1
    <3> HIDE DEF w, B, K
    <3>2. Spans(w[Cell(Shared, a)], B[a], B[a + 1]) BY <1>4, <3>1
    <3>3. Power[0] = 1 BY PowerSteps
    <3>4. 1 * (a + 1) - 1 = a /\ 1 * a = a /\ 1 * (a + 1) = a + 1 OBVIOUS
    <3> QED BY <3>2, <3>3, <3>4 DEF Piece, Node
  <2>2. Odds(w, B, K, 0) BY DEF Odds
  <2> QED BY <2>1, <2>2 DEF Upward
<1>6. ASSUME NEW x \in Cells, x[1] # Shared PROVE w[x] = v[x]
  <2>1. ASSUME NEW t \in ItemOf(l) PROVE x \notin DOMAIN Code(l, g, t, 0)
    <3>1. \A i : InGroup(l, g, i)[1] = Shared BY DEF InGroup, Cell
    <3>2. DOMAIN CacheElements(l, g, t) = {InGroup(l, g, i) : i \in Elements(l, g, t)}
      BY DEF CacheElements
    <3> QED BY <1>2, <1>6, <3>1, <3>2
  <2>2. \A t \in ItemOf(l) : 0 < Phases(l, g, t) => x \notin DOMAIN Code(l, g, t, 0) BY <2>1
  <2>3. (\A t \in ItemOf(l) : 0 < Phases(l, g, t) => x \notin DOMAIN Code(l, g, t, 0))
        => AfterPhase(c, l, g, 0, v)[x] = v[x]
    BY <1>2, PhaseMakes
  <2> QED BY <2>2, <2>3
<1> QED BY <1>5, <1>6
-----------------------------------------------------------------------------
LEMMA SumEffect ==
  ASSUME NEW c, NEW l, NEW m, Treed(l, m), Stocked(c, l), Exclusive(l), NEW g \in GroupOf(l),
         NEW v \in Memory
  PROVE  LET w == AfterPhase(c, l, g, m + 2, v)
             r == Cell(Shared, Power[m + 1] - 1)
         IN  /\ w[r] = << >> /\ w[Cell(l.sums, g)] = v[r]
             /\ \A x \in Cells : x # r /\ x # Cell(l.sums, g) => w[x] = v[x]
<1> DEFINE w == AfterPhase(c, l, g, m + 2, v)
           p == m + 2
           r == Cell(Shared, 2 * l.items - 1)
           y == Cell(l.sums, g)
           e == << >>
           h == Copied(y, r)
           f == At(r, e)
           k == Merged(h, f)
<1>1. /\ l.items \in Positive /\ l.groups \in Nat /\ m \in Nat /\ l.local = Power[m + 1]
      /\ l.local = 2 * l.items /\ l.items \in Nat /\ l.sums \in DOMAIN Buffers(c) /\ Numbered(c)
  BY PowerSteps DEF Treed, Stocked, Positive
<1>2. r = Cell(Shared, Power[m + 1] - 1) BY <1>1
<1>3. r \in Cells /\ y \in Cells /\ r[1] = Shared /\ y[1] # Shared /\ r[2] = 2 * l.items - 1
  <2>1. g \in Int /\ 2 * l.items - 1 \in Int BY <1>1 DEF GroupOf
  <2>2. l.sums \in Int /\ l.sums # Shared BY <1>1 DEF Numbered
  <2>3. Shared \in Int BY DEF Shared
  <2> QED BY <2>1, <2>2, <2>3 DEF Cell, Cells
<1>4. Within(c, l, r)
  <2>1. 2 * l.items - 1 \in 0 .. l.local - 1 BY <1>1 DEF Positive
  <2> QED BY <1>3, <2>1 DEF Within
<1>5. 0 \in ItemOf(l)
  <2>1. 0 \in 0 .. l.items - 1 BY <1>1 DEF Positive
  <2> QED BY <2>1 DEF ItemOf
<1>6. p \in Nat /\ \A t : p < Phases(l, g, t) /\ Code(l, g, t, p) = StoreSum(l, g, t)
  <2>1. \A t : Phases(l, g, t) = 2 * m + 5 /\ Code(l, g, t, m + 2) = StoreSum(l, g, t)
    BY PassSteps
  <2> QED BY <1>1, <2>1
<1>7. StoreSum(l, g, 0) = k /\ \A t : t # 0 => StoreSum(l, g, t) = Nothing BY DEF StoreSum
<1>a. w = AfterPhase(c, l, g, p, v) OBVIOUS
<1> HIDE DEF r, y, e, w, p
<1>8. DOMAIN h = {y} /\ h[y] = <<r>> BY CodeOfCopy
<1>9. DOMAIN f = {r} /\ f[r] = e BY CodeOfOne
<1> HIDE DEF h, f
<1>10. DOMAIN k = DOMAIN h \cup DOMAIN f
       /\ \A z \in DOMAIN k : k[z] = IF z \in DOMAIN h THEN h[z] ELSE f[z]
  BY DEF Merged
<1> HIDE DEF k
<1>11. r # y BY <1>3
<1>12. DOMAIN k = {y, r} /\ k[y] = <<r>> /\ k[r] = e BY <1>8, <1>9, <1>10, <1>11
<1>13. ASSUME NEW z \in Cells, z \in DOMAIN k PROVE w[z] = Gathered(c, l, v, k[z])
  <2>1. p < Phases(l, g, 0) /\ z \in DOMAIN Code(l, g, 0, p) /\ Code(l, g, 0, p) = k
    BY <1>6, <1>7, <1>13
  <2>2. p < Phases(l, g, 0) /\ z \in DOMAIN Code(l, g, 0, p) =>
          AfterPhase(c, l, g, p, v)[z] = Gathered(c, l, v, Code(l, g, 0, p)[z])
    BY <1>5, <1>6, PhaseMakes
  <2> QED BY <2>1, <2>2, <1>a
<1>14. Gathered(c, l, v, << >>) = << >> BY <1>3, <1>4, GatheredFew
<1>15. Gathered(c, l, v, <<r>>) = v[r]
  <2>1. r \in Cells /\ Within(c, l, r) BY <1>3, <1>4
  <2> QED BY <2>1, GatheredOne
<1>16. w[r] = << >> BY <1>3, <1>12, <1>13, <1>14 DEF e
<1>17. w[y] = v[r] BY <1>3, <1>12, <1>13, <1>15
<1>18. ASSUME NEW x \in Cells, x # r, x # y PROVE w[x] = v[x]
  <2>1. ASSUME NEW t \in ItemOf(l) PROVE x \notin DOMAIN Code(l, g, t, p)
    <3>1. t = 0 => Code(l, g, t, p) = k BY <1>6, <1>7
    <3>2. t # 0 => Code(l, g, t, p) = Nothing BY <1>6, <1>7
    <3> QED BY <3>1, <3>2, <1>12, <1>18, CodeOfNone
  <2>2. \A t \in ItemOf(l) : p < Phases(l, g, t) => x \notin DOMAIN Code(l, g, t, p) BY <2>1
  <2>3. (\A t \in ItemOf(l) : p < Phases(l, g, t) => x \notin DOMAIN Code(l, g, t, p))
        => AfterPhase(c, l, g, p, v)[x] = v[x]
    BY <1>6, PhaseMakes
  <2> QED BY <2>2, <2>3, <1>a
<1> QED BY <1>2, <1>16, <1>17, <1>18 DEF w, y

LEMMA CopyEffect ==
  ASSUME NEW c, NEW l, NEW m, Treed(l, m), Stocked(c, l), Exclusive(l), NEW g \in GroupOf(l),
         NEW v \in Memory
  PROVE  LET w == AfterPhase(c, l, g, 2 * m + 4, v)
         IN  /\ \A a \in Nat : a < l.local /\ From(l, g) + a < l.size =>
                  w[Cell(l.out, From(l, g) + a)] = v[Cell(Shared, a)]
             /\ \A x \in Cells : x[1] # l.out => w[x] = v[x]
<1> DEFINE w == AfterPhase(c, l, g, 2 * m + 4, v)
           p == 2 * m + 4
           n == From(l, g)
<1>1. /\ l.items \in Positive /\ l.groups \in Nat /\ m \in Nat /\ l.local = Power[m + 1]
      /\ l.local = 2 * l.items /\ l.items \in Nat /\ l.out \in DOMAIN Buffers(c) /\ Numbered(c)
  BY PowerSteps DEF Treed, Stocked, Positive
<1>2. p \in Nat /\ \A t : p < Phases(l, g, t) /\ Code(l, g, t, p) = CopyBack(l, g, t)
  <2>1. \A t : Phases(l, g, t) = 2 * m + 5 /\ Code(l, g, t, 2 * m + 4) = CopyBack(l, g, t)
    BY PassSteps
  <2> QED BY <1>1, <2>1
<1>a. w = AfterPhase(c, l, g, p, v) OBVIOUS
<1> HIDE DEF p
<1>3. ASSUME NEW a \in Nat, a < l.local, n + a < l.size
      PROVE  w[Cell(l.out, n + a)] = v[Cell(Shared, a)]
  <2>1. a \in 0 .. 2 * l.items - 1 BY <1>1, <1>3
  <2>2. n \in Nat BY <2>1, <1>1, ItemFor
  <2>3. PICK t \in ItemOf(l) : n + a \in Elements(l, g, t) /\ InGroup(l, g, n + a) = Cell(Shared, a)
    BY <2>1, <1>1, ItemFor
  <2> DEFINE x == Cell(l.out, n + a)
             y == Cell(Shared, a)
             f == CopyBack(l, g, t)
  <2>4. x \in DOMAIN f /\ f[x] = <<y>>
    <3>1. DOMAIN f = {Cell(l.out, i) : i \in {j \in Elements(l, g, t) : j < l.size}}
      BY DEF CopyBack
    <3>2. x \in DOMAIN f BY <1>3, <2>3, <3>1
    <3>3. f[x] = <<InGroup(l, g, x[2])>> BY <3>1, <3>2 DEF CopyBack
    <3>4. x[2] = n + a BY DEF Cell
    <3> QED BY <2>3, <3>2, <3>3, <3>4
  <2>5. y \in Cells /\ Within(c, l, y)
    <3>1. y[1] = Shared /\ y[2] = a /\ y \in Cells BY DEF Cell, Cells, Shared
    <3>2. l.local \in Nat /\ a \in 0 .. l.local - 1 BY <1>1, <1>3
    <3> QED BY <3>1, <3>2 DEF Within
  <2>6. x \in Cells
    <3>1. l.out \in Int BY <1>1 DEF Numbered
    <3>2. n + a \in Int BY <2>2
    <3> QED BY <3>1, <3>2 DEF Cell, Cells
  <2>7. p < Phases(l, g, t) /\ x \in DOMAIN Code(l, g, t, p) /\ Code(l, g, t, p)[x] = <<y>>
    BY <1>2, <2>4
  <2> HIDE DEF x, y, f, w
  <2>8. p < Phases(l, g, t) /\ x \in DOMAIN Code(l, g, t, p) =>
          AfterPhase(c, l, g, p, v)[x] = Gathered(c, l, v, Code(l, g, t, p)[x])
    BY <1>2, <2>6, PhaseMakes
  <2>9. Gathered(c, l, v, <<y>>) = v[y] BY <2>5, GatheredOne
  <2>10. w[x] = v[y] BY <2>7, <2>8, <2>9, <1>a
  <2> QED BY <2>10 DEF x, y
<1>4. ASSUME NEW x \in Cells, x[1] # l.out PROVE w[x] = v[x]
  <2>1. ASSUME NEW t \in ItemOf(l) PROVE x \notin DOMAIN Code(l, g, t, p)
    <3>1. DOMAIN CopyBack(l, g, t) = {Cell(l.out, i) : i \in {j \in Elements(l, g, t) : j < l.size}}
      BY DEF CopyBack
    <3>2. \A i : Cell(l.out, i)[1] = l.out BY DEF Cell
    <3> QED BY <1>2, <1>4, <3>1, <3>2
  <2>2. \A t \in ItemOf(l) : p < Phases(l, g, t) => x \notin DOMAIN Code(l, g, t, p) BY <2>1
  <2>3. (\A t \in ItemOf(l) : p < Phases(l, g, t) => x \notin DOMAIN Code(l, g, t, p))
        => AfterPhase(c, l, g, p, v)[x] = v[x]
    BY <1>2, PhaseMakes
  <2> QED BY <2>2, <2>3, <1>a
<1> QED BY <1>3, <1>4
-----------------------------------------------------------------------------
\* What a group holds after p phases of a pass.
Passed(l, m, g, B, v, p) ==
  /\ p \in 1 .. m + 2 => Upward(v, B, m + 1, p - 1)
  /\ p \in m + 3 .. 2 * m + 4 => /\ Downward(v, B, m + 1, (2 * m + 4) - p)
                                 /\ Spans(v[Cell(l.sums, g)], B[0], B[Power[m + 1]])

LEMMA PassedOn ==
  ASSUME NEW c, NEW l, NEW m, Treed(l, m), Stocked(c, l), Exclusive(l), NEW g \in GroupOf(l),
         NEW v \in Memory, NEW S, Fed(c, l, S), NEW p \in Nat, p < 2 * m + 4,
         p = 0 => Delivered(l, v, S),
         Passed(l, m, g, Shifted(S, From(l, g)), v, p)
  PROVE  Passed(l, m, g, Shifted(S, From(l, g)), AfterPhase(c, l, g, p, v), p + 1)
<1> DEFINE n == From(l, g)
           B == Shifted(S, n)
           w == AfterPhase(c, l, g, p, v)
           K == m + 1
           z == Cell(l.sums, g)
<1>1. /\ l.items \in Positive /\ l.groups \in Nat /\ m \in Nat /\ l.local = Power[m + 1]
      /\ l.local = 2 * l.items /\ l.items \in Nat /\ l.sums \in DOMAIN Buffers(c) /\ Numbered(c)
  BY PowerSteps DEF Treed, Stocked, Positive
<1>2. K \in Nat /\ K = m + 1 BY <1>1
<1>3. Bounded(B)
  <2>1. 0 \in 0 .. 2 * l.items - 1 BY <1>1 DEF Positive
  <2>2. n \in Nat BY <2>1, <1>1, ItemFor
  <2> HIDE DEF n
  <2> QED BY <2>2, ShiftBounded DEF Fed
<1>4. z \in Cells /\ z[1] # Shared
  <2>1. l.sums \in Int /\ l.sums # Shared BY <1>1 DEF Numbered
  <2>2. g \in Int BY <1>1 DEF GroupOf
  <2> QED BY <2>1, <2>2 DEF Cell, Cells
<1>5. Passed(l, m, g, B, v, p) OBVIOUS
<1>6. CASE p = 0
  <2>1. Delivered(l, v, S) BY <1>6
  <2>2. Upward(AfterPhase(c, l, g, 0, v), B, m + 1, 0) BY <2>1, CacheEffect
  <2>3. w = AfterPhase(c, l, g, 0, v) BY <1>6
  <2> HIDE DEF w, B
  <2>4. Upward(w, B, m + 1, 0) BY <2>2, <2>3
  <2>5. p + 1 = 1 /\ (p + 1) - 1 = 0 /\ p + 1 \notin m + 3 .. 2 * m + 4 BY <1>1, <1>6
  <2>6. Passed(l, m, g, B, w, p + 1) BY <2>4, <2>5 DEF Passed
  <2> QED BY <2>6 DEF w, B
<1>7. CASE p = m + 2
  <2> DEFINE u == AfterPhase(c, l, g, m + 2, v)
             r == Cell(Shared, Power[m + 1] - 1)
  <2>1. u[r] = << >> /\ u[z] = v[r] /\ \A x \in Cells : x # r /\ x # z => u[x] = v[x]
    BY SumEffect
  <2>2. w = u BY <1>7
  <2> HIDE DEF w, B, u
  <2>3. Upward(v, B, K, K)
    <3>1. p \in 1 .. m + 2 /\ p - 1 = K BY <1>1, <1>7
    <3> QED BY <1>5, <3>1 DEF Passed
  <2>4. u[Cell(Shared, Power[K] - 1)] = << >> BY <2>1
  <2>5. \A x \in Cells : x[1] = Shared /\ x # Cell(Shared, Power[K] - 1) => u[x] = v[x]
    BY <1>4, <2>1
  <2> HIDE DEF K
  <2>6. Spans(v[Cell(Shared, Power[K] - 1)], B[0], B[Power[K]]) /\ Downward(u, B, K, K)
    BY <1>2, <1>3, <2>3, <2>4, <2>5, RootStep
  <2>7. Spans(u[z], B[0], B[Power[m + 1]]) BY <2>1, <2>6, <1>2
  <2>8. p + 1 \notin 1 .. m + 2 /\ (2 * m + 4) - (p + 1) = K BY <1>1, <1>2, <1>7
  <2>9. Passed(l, m, g, B, u, p + 1) BY <1>2, <2>6, <2>7, <2>8 DEF Passed
  <2> QED BY <2>2, <2>9 DEF w, B
<1>8. ASSUME NEW s \in 0 .. m, p = s + 1 PROVE Passed(l, m, g, B, w, p + 1)
  <2> DEFINE u == AfterPhase(c, l, g, s + 1, v)
  <2>1. SweptUp(v, u, s, Power[m - s]) BY UpEffect
  <2>2. w = u BY <1>8
  <2>3. s \in Nat /\ s < K /\ K - s - 1 = m - s BY <1>1
  <2> HIDE DEF w, B, u
  <2>4. Upward(v, B, K, s)
    <3>1. p \in 1 .. m + 2 /\ p - 1 = s BY <1>1, <1>8
    <3> QED BY <1>5, <3>1 DEF Passed
  <2> HIDE DEF K
  <2>5. SweptUp(v, u, s, Power[K - s - 1]) BY <2>1, <2>3
  <2>6. Upward(u, B, K, s + 1) BY <1>2, <1>3, <2>3, <2>4, <2>5, UpStep
  <2>7. p + 1 \notin m + 3 .. 2 * m + 4 /\ (p + 1) - 1 = s + 1 BY <1>1, <1>8
  <2> QED BY <1>2, <2>2, <2>6, <2>7 DEF Passed
<1>9. ASSUME NEW j \in 0 .. m, p = m + 3 + j PROVE Passed(l, m, g, B, w, p + 1)
  <2> DEFINE s == m - j
             u == AfterPhase(c, l, g, m + 3 + (m - s), v)
  <2>1. s \in 0 .. m /\ s \in Nat /\ s < K /\ K - s - 1 = m - s /\ m - s = j BY <1>1
  <2> HIDE DEF s
  <2>2. SweptDown(v, u, s, Power[m - s]) BY <2>1, DownEffect
  <2>3. w = u BY <1>9, <2>1
  <2> HIDE DEF w, B, u
  <2>4. /\ p \in m + 3 .. 2 * m + 4 /\ p + 1 \notin 1 .. m + 2 /\ (2 * m + 4) - p = s + 1
        /\ (2 * m + 4) - (p + 1) = s
    BY <1>1, <1>9, <2>1
  <2>5. Downward(v, B, K, s + 1) /\ Spans(v[z], B[0], B[Power[m + 1]])
    BY <1>5, <2>4 DEF Passed
  <2> HIDE DEF K, z
  <2>6. SweptDown(v, u, s, Power[K - s - 1]) BY <2>1, <2>2
  <2>7. Downward(u, B, K, s) BY <1>2, <1>3, <2>1, <2>5, <2>6, DownStep
  <2>8. u[z] = v[z]
    <3>1. \A t \in Nat : z # Node(s, 2 * t + 1) /\ z # Node(s, 2 * t + 2)
      <4>1. \A a : Node(s, a)[1] = Shared BY DEF Node, Cell
      <4> QED BY <4>1, <1>4
    <3> QED BY <1>4, <2>6, <3>1 DEF SweptDown
  <2>9. Spans(u[z], B[0], B[Power[m + 1]]) BY <2>5, <2>8
  <2> QED BY <1>2, <2>3, <2>4, <2>7, <2>9 DEF Passed, z
<1>10. \/ p = 0 \/ p = m + 2
       \/ \E s \in 0 .. m : p = s + 1
       \/ \E s \in 0 .. m : p = m + 3 + s
  <2>1. p < 2 * m + 5 /\ p # 2 * m + 4 BY <1>1
  <2> QED BY <1>1, <2>1, PassPhase
<1> QED BY <1>6, <1>7, <1>8, <1>9, <1>10

\* What a pass leaves in a group's memory.
LEMMA PassMakes ==
  ASSUME NEW c, Sequential(c), NEW k \in DOMAIN Launches(c), NEW l, l = Launches(c)[k],
         NEW m, Treed(l, m), Stocked(c, l), l.sums # l.out,
         NEW g \in GroupOf(l), NEW S, Fed(c, l, S), Delivered(l, Entered(c, k), S)
  PROVE  LET v == Of(c, k, g)[Phases(l, g, 0)]
             n == From(l, g)
         IN  /\ Spans(v[Cell(l.sums, g)], S[n], S[n + l.local])
             /\ \A a \in Nat : a < l.local /\ n + a < l.size =>
                  Spans(v[Cell(l.out, n + a)], S[n], S[n + a])
<1> DEFINE n == From(l, g)
           B == Shifted(S, n)
           v == Of(c, k, g)
           A == {p \in Nat : p <= 2 * m + 4 => Passed(l, m, g, B, v[p], p)}
           e == 2 * m + 4
<1>1. Exclusive(l) BY BeforeIsMemory DEF Orderly
<1>2. /\ v[0] = Entering(Entered(c, k))
      /\ \A p \in Nat : v[p] \in Memory
      /\ \A p \in Nat : v[p + 1] = AfterPhase(c, l, g, p, v[p])
  BY OfIs
<1>3. m \in Nat /\ Phases(l, g, 0) = 2 * m + 5
  <2>1. \A t : Phases(l, g, t) = 2 * m + 5 BY PassSteps
  <2> QED BY <2>1 DEF Treed
<1>4. /\ l.items \in Positive /\ l.groups \in Nat /\ l.local = Power[m + 1] /\ l.local \in Nat
      /\ l.local = 2 * l.items /\ l.items \in Nat /\ l.sums \in DOMAIN Buffers(c) /\ Numbered(c)
  BY PowerSteps DEF Treed, Stocked, Positive
<1> HIDE DEF v
<1>5. Delivered(l, v[0], S)
  <2>1. ASSUME NEW i \in Nat, i < l.size PROVE v[0][Cell(l.in, i)] = Entered(c, k)[Cell(l.in, i)]
    <3>1. Cell(l.in, i) \in Cells /\ Cell(l.in, i)[1] # Shared BY DEF Fed, Cell, Cells
    <3> QED BY <1>2, <3>1 DEF Entering
  <2> QED BY <2>1 DEF Delivered
<1>6. \A p \in Nat : p \in A
  <2>1. 0 \in A
    <3>1. 0 \notin 1 .. m + 2 /\ 0 \notin m + 3 .. 2 * m + 4 BY <1>3
    <3> QED BY <3>1 DEF Passed
  <2>2. ASSUME NEW p \in Nat, p \in A PROVE p + 1 \in A
    <3>1. CASE p + 1 <= 2 * m + 4
      <4>1. p <= 2 * m + 4 /\ p < 2 * m + 4 BY <1>3, <3>1
      <4>2. Passed(l, m, g, B, v[p], p) BY <2>2, <4>1
      <4>3. p = 0 => Delivered(l, v[p], S) BY <1>5
      <4>4. v[p] \in Memory /\ v[p + 1] = AfterPhase(c, l, g, p, v[p]) BY <1>2
      <4> DEFINE u == v[p]
      <4>5. u \in Memory /\ (p = 0 => Delivered(l, u, S)) /\ Passed(l, m, g, B, u, p)
        BY <4>2, <4>3, <4>4
      <4> HIDE DEF u
      <4>6. Passed(l, m, g, B, AfterPhase(c, l, g, p, u), p + 1)
        BY <1>1, <4>1, <4>5, PassedOn
      <4> HIDE DEF B
      <4> QED BY <4>4, <4>6 DEF u
    <3>2. CASE ~ (p + 1 <= 2 * m + 4) BY <3>2
    <3> QED BY <3>1, <3>2
  <2> HIDE DEF A
  <2> QED BY <2>1, <2>2, Naturals
<1>7. e \in Nat /\ e <= 2 * m + 4 /\ e \in m + 3 .. 2 * m + 4 /\ (2 * m + 4) - e = 0
      /\ Phases(l, g, 0) = e + 1
  BY <1>3
<1>8. n \in Nat
  <2>1. 0 \in 0 .. 2 * l.items - 1 BY <1>4 DEF Positive
  <2> QED BY <2>1, <1>4, ItemFor
<1>9. Passed(l, m, g, B, v[e], e) BY <1>6, <1>7
<1>a. e = 2 * m + 4 OBVIOUS
<1> DEFINE u == v[e]
           w == v[e + 1]
<1>10. u \in Memory /\ w = AfterPhase(c, l, g, 2 * m + 4, u) BY <1>2, <1>7
<1>11. Downward(u, B, m + 1, 0) /\ Spans(u[Cell(l.sums, g)], B[0], B[Power[m + 1]])
  <2> HIDE DEF B
  <2> QED BY <1>7, <1>9 DEF Passed
<1>12. \A j \in Nat : B[j] = S[n + j] BY <1>8, ShiftBounded DEF Fed
<1> HIDE DEF n, B, e, u, w
<1>13. /\ \A a \in Nat : a < l.local /\ From(l, g) + a < l.size =>
            w[Cell(l.out, From(l, g) + a)] = u[Cell(Shared, a)]
       /\ \A x \in Cells : x[1] # l.out => w[x] = u[x]
  <2> DEFINE q == AfterPhase(c, l, g, 2 * m + 4, u)
  <2>1. /\ \A a \in Nat : a < l.local /\ From(l, g) + a < l.size =>
             q[Cell(l.out, From(l, g) + a)] = u[Cell(Shared, a)]
        /\ \A x \in Cells : x[1] # l.out => q[x] = u[x]
    BY <1>1, <1>10, CopyEffect
  <2> HIDE DEF q
  <2>2. w = q BY <1>10 DEF q
  <2> QED BY <2>1, <2>2
<1>14. Spans(w[Cell(l.sums, g)], S[n], S[n + l.local])
  <2>1. Cell(l.sums, g) \in Cells /\ Cell(l.sums, g)[1] = l.sums
    <3>1. l.sums \in Int BY <1>4 DEF Numbered
    <3>2. g \in Int BY <1>4 DEF GroupOf
    <3> QED BY <3>1, <3>2 DEF Cell, Cells
  <2>2. w[Cell(l.sums, g)] = u[Cell(l.sums, g)] BY <1>13, <2>1
  <2>3. B[0] = S[n] /\ B[Power[m + 1]] = S[n + l.local] BY <1>4, <1>8, <1>12
  <2> QED BY <1>11, <2>2, <2>3
<1>15. ASSUME NEW a \in Nat, a < l.local, n + a < l.size
       PROVE  Spans(w[Cell(l.out, n + a)], S[n], S[n + a])
  <2>1. w[Cell(l.out, n + a)] = u[Cell(Shared, a)] BY <1>13, <1>15 DEF n
  <2>a. (m + 1) - 0 = m + 1 BY <1>3
  <2>2. a < Power[(m + 1) - 0] BY <1>4, <1>15, <2>a
  <2>3. Spans(u[Node(0, a + 1)], B[0], B[Power[0] * a]) BY <1>11, <2>2 DEF Downward, Prefix
  <2>4. Power[0] = 1 /\ 1 * a = a /\ 1 * (a + 1) - 1 = a BY PowerSteps
  <2>5. Node(0, a + 1) = Cell(Shared, a) BY <2>4 DEF Node
  <2>6. B[0] = S[n] /\ B[a] = S[n + a] BY <1>8, <1>12
  <2> QED BY <2>1, <2>3, <2>4, <2>5, <2>6
<1>16. v[Phases(l, g, 0)] = w BY <1>7 DEF w
<1> QED BY <1>14, <1>15, <1>16 DEF v, n
-----------------------------------------------------------------------------
\* What a pass leaves in the memory of the device.
LEMMA PassStores ==
  ASSUME NEW c, NEW l, NEW m, Treed(l, m), Stocked(c, l), NEW g \in GroupOf(l)
  PROVE  /\ StoredBy(l, g, Cell(l.sums, g))
         /\ \A a \in Nat : a < l.local /\ From(l, g) + a < l.size =>
              StoredBy(l, g, Cell(l.out, From(l, g) + a))
         /\ \A x \in Cells : x[1] \notin {Shared, l.out, l.sums} => ~ StoredBy(l, g, x)
<1>1. /\ l.items \in Positive /\ l.groups \in Nat /\ m \in Nat /\ l.local = Power[m + 1]
      /\ l.local = 2 * l.items /\ l.items \in Nat
  BY PowerSteps DEF Treed, Stocked, Positive
<1>2. \A t : /\ Phases(l, g, t) = 2 * m + 5
             /\ Code(l, g, t, 0) = CacheElements(l, g, t)
             /\ \A s \in 0 .. m : Code(l, g, t, s + 1) = UpSweep(t, Power[m - s], Power[s])
             /\ Code(l, g, t, m + 2) = StoreSum(l, g, t)
             /\ \A s \in 0 .. m : Code(l, g, t, m + 3 + s) = DownSweep(t, Power[s], Power[m - s])
             /\ Code(l, g, t, 2 * m + 4) = CopyBack(l, g, t)
  BY PassSteps
<1> DEFINE y == Cell(l.sums, g)
           r == Cell(Shared, 2 * l.items - 1)
           h == Copied(y, r)
           e == << >>
           f == At(r, e)
<1>3. StoreSum(l, g, 0) = Merged(h, f) /\ \A t : t # 0 => StoreSum(l, g, t) = Nothing
  BY DEF StoreSum
<1>4. y[1] = l.sums /\ r[1] = Shared BY DEF Cell
<1> HIDE DEF y, r, e
<1>5. DOMAIN h = {y} /\ DOMAIN f = {r} BY CodeOfOne, CodeOfCopy
<1> HIDE DEF h, f
<1>6. DOMAIN Merged(h, f) = {y, r}
  <2>1. DOMAIN Merged(h, f) = DOMAIN h \cup DOMAIN f BY CodeOfMerged
  <2> QED BY <1>5, <2>1
<1>7. \A t : DOMAIN StoreSum(l, g, t) \subseteq {y, r} BY <1>3, <1>6, CodeOfNone
<1>8. StoredBy(l, g, y)
  <2>1. 0 \in 0 .. l.items - 1 BY <1>1 DEF Positive
  <2>2. 0 \in ItemOf(l) BY <2>1 DEF ItemOf
  <2>3. m + 2 \in Nat /\ m + 2 < Phases(l, g, 0) BY <1>1, <1>2
  <2>4. y \in DOMAIN Code(l, g, 0, m + 2) BY <1>2, <1>3, <1>6
  <2> QED BY <2>2, <2>3, <2>4 DEF StoredBy
<1>9. ASSUME NEW a \in Nat, a < l.local, From(l, g) + a < l.size
      PROVE  StoredBy(l, g, Cell(l.out, From(l, g) + a))
  <2>1. a \in 0 .. 2 * l.items - 1 BY <1>1, <1>9
  <2>2. PICK t \in ItemOf(l) : From(l, g) + a \in Elements(l, g, t) BY <2>1, <1>1, ItemFor
  <2>3. Cell(l.out, From(l, g) + a) \in DOMAIN CopyBack(l, g, t) BY <1>9, <2>2 DEF CopyBack
  <2>4. 2 * m + 4 \in Nat /\ 2 * m + 4 < Phases(l, g, t) BY <1>1, <1>2
  <2> QED BY <1>2, <2>3, <2>4 DEF StoredBy
<1>10. ASSUME NEW x \in Cells, x[1] \notin {Shared, l.out, l.sums}, NEW t \in ItemOf(l),
              NEW p \in Nat, p < Phases(l, g, t), x \in DOMAIN Code(l, g, t, p)
       PROVE  FALSE
  <2>1. CASE p = 0
    <3>1. DOMAIN CacheElements(l, g, t) = {InGroup(l, g, i) : i \in Elements(l, g, t)}
      BY DEF CacheElements
    <3>2. \A i : InGroup(l, g, i)[1] = Shared BY DEF InGroup, Cell
    <3> QED BY <1>2, <1>10, <2>1, <3>1, <3>2
  <2>2. CASE p = m + 2
    <3>1. x \in {y, r} BY <1>2, <1>7, <1>10, <2>2
    <3> QED BY <1>4, <1>10, <3>1
  <2>3. CASE p = 2 * m + 4
    <3>1. DOMAIN CopyBack(l, g, t) = {Cell(l.out, i) : i \in {j \in Elements(l, g, t) : j < l.size}}
      BY DEF CopyBack
    <3>2. \A i : Cell(l.out, i)[1] = l.out BY DEF Cell
    <3> QED BY <1>2, <1>10, <2>3, <3>1, <3>2
  <2>a. \A d, o : /\ \A z \in DOMAIN UpSweep(t, d, o) : z[1] = Shared
                  /\ \A z \in DOMAIN DownSweep(t, d, o) : z[1] = Shared
    <3> TAKE d, o
    <3>1. Left(t, o)[1] = Shared /\ Right(t, o)[1] = Shared BY DEF Left, Right, Cell
    <3>2. /\ DOMAIN UpSweep(t, d, o) \subseteq {Right(t, o)}
          /\ DOMAIN DownSweep(t, d, o) \subseteq {Right(t, o), Left(t, o)}
      BY SweepCells, CodeOfNone
    <3> QED BY <3>1, <3>2
  <2>4. ASSUME NEW s \in 0 .. m, p = s + 1 PROVE FALSE BY <1>2, <1>10, <2>4, <2>a
  <2>5. ASSUME NEW s \in 0 .. m, p = m + 3 + s PROVE FALSE BY <1>2, <1>10, <2>5, <2>a
  <2>6. \/ p = 0 \/ p = m + 2 \/ p = 2 * m + 4
        \/ \E s \in 0 .. m : p = s + 1
        \/ \E s \in 0 .. m : p = m + 3 + s
    <3>1. p < 2 * m + 5 BY <1>2, <1>10
    <3> QED BY <1>1, <3>1, PassPhase
  <2> QED BY <2>1, <2>2, <2>3, <2>4, <2>5, <2>6
<1>11. \A x \in Cells : x[1] \notin {Shared, l.out, l.sums} => ~ StoredBy(l, g, x)
  BY <1>10 DEF StoredBy
<1> QED BY <1>8, <1>9, <1>11 DEF y

LEMMA PassLeaves ==
  ASSUME NEW c, Sequential(c), NEW k \in DOMAIN Launches(c), NEW l, l = Launches(c)[k],
         NEW m, Treed(l, m), Stocked(c, l), l.sums # l.out,
         NEW S, Fed(c, l, S), Delivered(l, Entered(c, k), S)
  PROVE  LET w == AfterLaunches(c)[k]
         IN  /\ \A g \in GroupOf(l) :
                  Spans(w[Cell(l.sums, g)], S[From(l, g)], S[From(l, g) + l.local])
             /\ \A g \in GroupOf(l), a \in Nat : a < l.local /\ From(l, g) + a < l.size =>
                  Spans(w[Cell(l.out, From(l, g) + a)], S[From(l, g)], S[From(l, g) + a])
             /\ \A x \in Cells : x[1] \notin {Shared, l.out, l.sums} => w[x] = Entered(c, k)[x]
<1> DEFINE w == AfterLaunches(c)[k]
<1>1. /\ l.sums \in Int /\ l.sums # Shared /\ l.out \in Int /\ l.out # Shared
      /\ l.items \in Positive /\ l.groups \in Nat
  BY DEF Stocked, Numbered
<1>2. ASSUME NEW x \in Cells, x[1] # Shared
      PROVE  /\ \A g \in GroupOf(l) : StoredBy(l, g, x) => w[x] = Of(c, k, g)[Phases(l, g, 0)][x]
             /\ (\A g \in GroupOf(l) : ~ StoredBy(l, g, x)) => w[x] = Entered(c, k)[x]
  BY <1>2, LaunchMakes
<1>3. ASSUME NEW g \in GroupOf(l)
      PROVE  Spans(w[Cell(l.sums, g)], S[From(l, g)], S[From(l, g) + l.local])
  <2> DEFINE x == Cell(l.sums, g)
             v == Of(c, k, g)[Phases(l, g, 0)]
  <2>1. x \in Cells /\ x[1] # Shared
    <3>1. g \in Int BY <1>1 DEF GroupOf
    <3> QED BY <1>1, <3>1 DEF Cell, Cells
  <2>2. StoredBy(l, g, x) BY PassStores
  <2>3. Spans(v[x], S[From(l, g)], S[From(l, g) + l.local]) BY PassMakes
  <2> HIDE DEF x
  <2>4. w[x] = v[x] BY <1>2, <2>1, <2>2
  <2> QED BY <2>3, <2>4 DEF x
<1>4. ASSUME NEW g \in GroupOf(l), NEW a \in Nat, a < l.local, From(l, g) + a < l.size
      PROVE  Spans(w[Cell(l.out, From(l, g) + a)], S[From(l, g)], S[From(l, g) + a])
  <2> DEFINE x == Cell(l.out, From(l, g) + a)
             v == Of(c, k, g)[Phases(l, g, 0)]
  <2>1. x \in Cells /\ x[1] # Shared
    <3>1. 0 \in 0 .. 2 * l.items - 1 BY <1>1 DEF Positive
    <3>2. From(l, g) \in Nat BY <1>1, <3>1, ItemFor
    <3>3. From(l, g) + a \in Int BY <3>2
    <3> QED BY <1>1, <3>3 DEF Cell, Cells
  <2>2. StoredBy(l, g, x) BY <1>4, PassStores
  <2>3. Spans(v[x], S[From(l, g)], S[From(l, g) + a]) BY <1>4, PassMakes
  <2> HIDE DEF x
  <2>4. w[x] = v[x] BY <1>2, <2>1, <2>2
  <2> QED BY <2>3, <2>4 DEF x
<1>5. ASSUME NEW x \in Cells, x[1] \notin {Shared, l.out, l.sums} PROVE w[x] = Entered(c, k)[x]
  <2>1. \A g \in GroupOf(l) : ~ StoredBy(l, g, x) BY <1>5, PassStores
  <2> QED BY <1>2, <1>5, <2>1
<1> QED BY <1>3, <1>4, <1>5
-----------------------------------------------------------------------------
Combining(l) == l.kernel = "SCL_UNIFORM_COMBINATION"

LEMMA PhaseKeeps ==
  ASSUME NEW c, NEW l, Exclusive(l), NEW g \in GroupOf(l), NEW p \in Nat, NEW v \in Memory,
         NEW x \in Cells, \A i \in ItemOf(l) : x \notin DOMAIN Code(l, g, i, p)
  PROVE  AfterPhase(c, l, g, p, v)[x] = v[x]
<1>1. \A i \in ItemOf(l) : p < Phases(l, g, i) => x \notin DOMAIN Code(l, g, i, p) OBVIOUS
<1> QED BY <1>1, PhaseSkips

LEMMA ItemMakes ==
  ASSUME NEW c, NEW l, Exclusive(l), NEW g \in GroupOf(l), NEW p \in Nat, NEW v \in Memory,
         NEW x \in Cells, NEW i \in ItemOf(l), p < Phases(l, g, i), x \in DOMAIN Code(l, g, i, p)
  PROVE  AfterPhase(c, l, g, p, v)[x] = Gathered(c, l, v, Code(l, g, i, p)[x])
BY PhaseMakes

LEMMA CombinationAdds ==
  ASSUME NEW c, NEW l, Exclusive(l), Combining(l),
         NEW g \in GroupOf(l), NEW t \in ItemOf(l), 0 \in ItemOf(l), NEW u \in Memory, NEW w \in Memory,
         w = AfterPhase(c, l, g, 0, u),
         NEW x \in Cells, NEW y \in Cells, NEW z \in Cells, x # z,
         x \in CopiedTo(l, g, t), y = Cell(l.sums, g), z = Cell(Shared, 0),
         Within(c, l, x), Within(c, l, y), Within(c, l, z)
  PROVE  AfterPhase(c, l, g, 1, w)[x] = Joined(u[x], u[y])
<1>1. \A i : /\ Phases(l, g, i) = 2
             /\ Code(l, g, i, 0) = IF i = 0 THEN Copied(z, y) ELSE Nothing
             /\ DOMAIN Code(l, g, i, 1) = CopiedTo(l, g, i)
             /\ \A b \in DOMAIN Code(l, g, i, 1) : Code(l, g, i, 1)[b] = <<b, z>>
  BY CombinationSteps DEF Combining
<1> DEFINE p == 0
           q == 1
<1>2. p \in Nat /\ q \in Nat /\ p < 2 /\ q < 2 OBVIOUS
<1>3. DOMAIN Copied(z, y) = {z} /\ Copied(z, y)[z] = <<y>> BY CodeOfCopy
<1>4. Code(l, g, 0, p) = Copied(z, y) /\ \A i : i # 0 => Code(l, g, i, p) = Nothing BY <1>1
<1>5. DOMAIN Code(l, g, t, q) = CopiedTo(l, g, t) /\ Code(l, g, t, q)[x] = <<x, z>> BY <1>1
<1>6. w = AfterPhase(c, l, g, p, u) OBVIOUS
<1>7. AfterPhase(c, l, g, 1, w) = AfterPhase(c, l, g, q, w) OBVIOUS
<1> HIDE DEF p, q
<1>8. w[z] = u[y]
  <2>1. p < Phases(l, g, 0) /\ z \in DOMAIN Code(l, g, 0, p) BY <1>1, <1>2, <1>3, <1>4
  <2>2. AfterPhase(c, l, g, p, u)[z] = Gathered(c, l, u, Code(l, g, 0, p)[z])
    BY <1>2, <2>1, ItemMakes
  <2>3. Gathered(c, l, u, <<y>>) = u[y] BY GatheredOne
  <2> QED BY <1>3, <1>4, <1>6, <2>2, <2>3
<1>9. w[x] = u[x]
  <2>1. \A i \in ItemOf(l) : x \notin DOMAIN Code(l, g, i, p) BY <1>3, <1>4, CodeOfNone
  <2>2. AfterPhase(c, l, g, p, u)[x] = u[x] BY <1>2, <2>1, PhaseKeeps
  <2> QED BY <1>6, <2>2
<1>10. AfterPhase(c, l, g, q, w)[x] = Joined(w[x], w[z])
  <2>1. q < Phases(l, g, t) /\ x \in DOMAIN Code(l, g, t, q) BY <1>1, <1>2, <1>5
  <2>2. AfterPhase(c, l, g, q, w)[x] = Gathered(c, l, w, Code(l, g, t, q)[x])
    BY <1>2, <2>1, ItemMakes
  <2>3. Gathered(c, l, w, <<x, z>>) = Joined(w[x], w[z]) BY GatheredTwo
  <2> QED BY <1>5, <2>2, <2>3
<1> QED BY <1>7, <1>8, <1>9, <1>10

\* The elements of a group.
OfGroup(l, g, i) == i \in Nat /\ i < l.size /\ From(l, g) <= i /\ i < From(l, g) + 2 * l.items

LEMMA OfGroupHas ==
  ASSUME NEW l, l.items \in Positive, l.groups \in Nat, NEW g \in GroupOf(l), NEW i, OfGroup(l, g, i)
  PROVE  \E t \in ItemOf(l) : i \in Elements(l, g, t) /\ Cell(l.out, i) \in CopiedTo(l, g, t)
<1> DEFINE n == From(l, g)
           a == i - n
<1>1. 0 \in 0 .. 2 * l.items - 1 /\ l.items \in Nat BY DEF Positive
<1>2. n \in Nat BY <1>1, ItemFor
<1>3. i \in Nat /\ i < l.size /\ n <= i /\ i < n + 2 * l.items BY DEF OfGroup
<1> HIDE DEF n
<1>4. a \in 0 .. 2 * l.items - 1 /\ n + a = i BY <1>1, <1>2, <1>3
<1> HIDE DEF a
<1>5. PICK t \in ItemOf(l) : n + a \in Elements(l, g, t) BY <1>4, ItemFor DEF n
<1> QED BY <1>3, <1>4, <1>5 DEF CopiedTo

\* What a combination leaves: each element with the sum of its group.
LEMMA CombinationMakes ==
  ASSUME NEW c, Sequential(c), Numbered(c), NEW k \in DOMAIN Launches(c),
         NEW l, l = Launches(c)[k],
         Combining(l), l.local = 1, Leveled(c, l),
         NEW g \in GroupOf(l), NEW i, OfGroup(l, g, i)
  PROVE  LET x == Cell(l.out, i)
         IN  /\ StoredBy(l, g, x)
             /\ Of(c, k, g)[Phases(l, g, 0)][x] =
                  Joined(Entered(c, k)[x], Entered(c, k)[Cell(l.sums, g)])
<1> DEFINE x == Cell(l.out, i)
           y == Cell(l.sums, g)
           z == Cell(Shared, 0)
           v == Of(c, k, g)
           m == Entered(c, k)
<1>1. /\ l.items \in Positive /\ l.groups \in Nat /\ l.size \in Nat /\ l.items \in Nat
      /\ l.sums # l.out /\ l.sums # Shared /\ l.out # Shared /\ l.sums \in Int /\ l.out \in Int
      /\ 0 .. l.size - 1 \subseteq DOMAIN Buffers(c)[l.out]
      /\ g \in DOMAIN Buffers(c)[l.sums] /\ g \in Nat
  BY DEF Leveled, Numbered, Positive, GroupOf
<1>2. Exclusive(l) BY BeforeIsMemory DEF Orderly
<1>3. /\ v[0] = Entering(m)
      /\ v[0] \in Memory /\ v[1] \in Memory
      /\ v[1] = AfterPhase(c, l, g, 0, v[0])
      /\ v[2] = AfterPhase(c, l, g, 1, v[1])
  <2>1. /\ v[0] = Entering(m)
        /\ \A p \in Nat : v[p] \in Memory
        /\ \A p \in Nat : v[p + 1] = AfterPhase(c, l, g, p, v[p])
    BY OfIs
  <2> HIDE DEF v
  <2>2. 0 \in Nat /\ 1 \in Nat /\ 0 + 1 = 1 /\ 1 + 1 = 2 OBVIOUS
  <2> QED BY <2>1, <2>2
<1>4. \A t : /\ Phases(l, g, t) = 2
             /\ Code(l, g, t, 0) =
                  IF t = 0 THEN Copied(Cell(Shared, 0), Cell(l.sums, g)) ELSE Nothing
             /\ DOMAIN Code(l, g, t, 1) = CopiedTo(l, g, t)
             /\ \A u \in DOMAIN Code(l, g, t, 1) : Code(l, g, t, 1)[u] = <<u, Cell(Shared, 0)>>
  BY CombinationSteps DEF Combining
<1>5. i \in Nat /\ i < l.size BY DEF OfGroup
<1>8. PICK t \in ItemOf(l) : x \in CopiedTo(l, g, t) BY <1>1, OfGroupHas
<1>9. /\ x \in Cells /\ x[1] = l.out /\ x[2] = i
      /\ y \in Cells /\ y[1] = l.sums /\ y[2] = g
      /\ z \in Cells /\ z[1] = Shared /\ z[2] = 0
  <2>1. i \in Int /\ g \in Int /\ Shared \in Int BY <1>1, <1>5 DEF Shared
  <2> QED BY <1>1, <2>1 DEF Cell, Cells
<1>10. Within(c, l, x) /\ Within(c, l, y) /\ Within(c, l, z)
  <2>1. i \in 0 .. l.size - 1 BY <1>1, <1>5
  <2>2. 0 \in 0 .. l.local - 1 OBVIOUS
  <2> HIDE DEF x, y, z
  <2> QED BY <1>1, <1>9, <2>1, <2>2 DEF Within
<1>11. x # z BY <1>1, <1>9
<1>12. DOMAIN Code(l, g, t, 1) = CopiedTo(l, g, t) /\ Code(l, g, t, 1)[x] = <<x, z>>
  BY <1>4, <1>8
<1>13. 1 < Phases(l, g, t) /\ 0 < Phases(l, g, 0) BY <1>4
<1>14. StoredBy(l, g, x) BY <1>8, <1>12, <1>13 DEF StoredBy
<1>15. 0 \in ItemOf(l)
  <2>1. 0 \in 0 .. l.items - 1 BY <1>1 DEF Positive
  <2> QED BY <2>1 DEF ItemOf
<1> DEFINE u == v[0]
           w == v[1]
<1>16. u \in Memory /\ w \in Memory BY <1>3
<1>17. u[x] = m[x] /\ u[y] = m[y] BY <1>1, <1>3, <1>9 DEF Entering
<1>18. w = AfterPhase(c, l, g, 0, u) /\ v[2] = AfterPhase(c, l, g, 1, w) BY <1>3
<1>19. y = Cell(l.sums, g) /\ z = Cell(Shared, 0) OBVIOUS
<1>20. Phases(l, g, 0) = 2 BY <1>4
<1> HIDE DEF x, y, z, v, u, w, m
<1>21. AfterPhase(c, l, g, 1, w)[x] = Joined(u[x], u[y])
  BY <1>2, <1>8, <1>9, <1>10, <1>11, <1>15, <1>16, <1>18, <1>19, CombinationAdds
<1>22. v[Phases(l, g, 0)][x] = Joined(m[x], m[y]) BY <1>17, <1>18, <1>20, <1>21
<1> QED BY <1>14, <1>22 DEF x, y, v, m

LEMMA CombinationLeaves ==
  ASSUME NEW c, Sequential(c), Numbered(c), NEW k \in DOMAIN Launches(c),
         NEW l, l = Launches(c)[k],
         Combining(l), l.local = 1, Leveled(c, l)
  PROVE  LET w == AfterLaunches(c)[k]
             m == Entered(c, k)
         IN  /\ \A g \in GroupOf(l) : \A i : OfGroup(l, g, i) =>
                  w[Cell(l.out, i)] =
                    Joined(m[Cell(l.out, i)], m[Cell(l.sums, g)])
             /\ \A x \in Cells : x[1] \notin {Shared, l.out} => w[x] = m[x]
<1> DEFINE w == AfterLaunches(c)[k]
           m == Entered(c, k)
<1>1. /\ l.items \in Positive /\ l.groups \in Nat /\ l.out # Shared /\ l.out \in Int
  BY DEF Leveled, Numbered
<1>2. ASSUME NEW x \in Cells, x[1] # Shared
      PROVE  /\ \A g \in GroupOf(l) : StoredBy(l, g, x) => w[x] = Of(c, k, g)[Phases(l, g, 0)][x]
             /\ (\A g \in GroupOf(l) : ~ StoredBy(l, g, x)) => w[x] = m[x]
  BY <1>2, LaunchMakes
<1>3. ASSUME NEW g \in GroupOf(l), NEW i, OfGroup(l, g, i)
      PROVE  w[Cell(l.out, i)] =
               Joined(m[Cell(l.out, i)], m[Cell(l.sums, g)])
  <2> DEFINE x == Cell(l.out, i)
             v == Of(c, k, g)[Phases(l, g, 0)]
  <2>1. x \in Cells /\ x[1] # Shared
    <3>1. i \in Int BY <1>3 DEF OfGroup
    <3> QED BY <1>1, <3>1 DEF Cell, Cells
  <2>2. StoredBy(l, g, x) /\ v[x] = Joined(m[x], m[Cell(l.sums, g)]) BY <1>3, CombinationMakes
  <2> HIDE DEF x
  <2>4. w[x] = v[x] BY <1>2, <2>1, <2>2
  <2> QED BY <2>2, <2>4 DEF x
<1>4. ASSUME NEW x \in Cells, x[1] \notin {Shared, l.out} PROVE w[x] = m[x]
  <2>1. ASSUME NEW g \in GroupOf(l), NEW t \in ItemOf(l), NEW p \in Nat,
               p < Phases(l, g, t), x \in DOMAIN Code(l, g, t, p)
        PROVE  FALSE
    <3>1. /\ Phases(l, g, t) = 2
          /\ Code(l, g, t, 0) =
               IF t = 0 THEN Copied(Cell(Shared, 0), Cell(l.sums, g)) ELSE Nothing
          /\ DOMAIN Code(l, g, t, 1) = CopiedTo(l, g, t)
      BY CombinationSteps DEF Combining
    <3>2. p = 0 \/ p = 1 BY <2>1, <3>1
    <3>3. DOMAIN Code(l, g, t, 0) \subseteq {Cell(Shared, 0)}
      <4>1. DOMAIN Copied(Cell(Shared, 0), Cell(l.sums, g)) = {Cell(Shared, 0)} BY CodeOfCopy
      <4> QED BY <3>1, <4>1, CodeOfNone
    <3>4. Cell(Shared, 0)[1] = Shared /\ \A i : Cell(l.out, i)[1] = l.out BY DEF Cell
    <3>5. \A y \in CopiedTo(l, g, t) : y[1] = l.out BY <3>4 DEF CopiedTo
    <3> QED BY <1>4, <2>1, <3>1, <3>2, <3>3, <3>4, <3>5
  <2>2. \A g \in GroupOf(l) : ~ StoredBy(l, g, x) BY <2>1 DEF StoredBy
  <2> QED BY <1>2, <1>4, <2>2
<1> QED BY <1>3, <1>4
-----------------------------------------------------------------------------
(***************************************************************************)
(* Scan: the levels.  An element at level k, of a work group for Power[e]  *)
(* elements, combines Power[e * k] inputs, or what is left of them.        *)
(***************************************************************************)
Upto(a, n) == IF a <= n THEN a ELSE n

Bound(n, e, k) == [j \in Nat |-> Upto(j * Power[e * k], n)]

LEMMA UptoFacts ==
  ASSUME NEW n \in Nat
  PROVE  /\ \A a \in Nat : Upto(a, n) \in Nat /\ Upto(a, n) <= n /\ (n <= a => Upto(a, n) = n)
                           /\ (a <= n => Upto(a, n) = a)
         /\ \A a, b \in Nat : a <= b => Upto(a, n) <= Upto(b, n)
BY DEF Upto

LEMMA BoundFacts ==
  ASSUME NEW n \in Nat, NEW e \in Nat, NEW k \in Nat
  PROVE  /\ Bounded(Bound(n, e, k))
         /\ Bound(n, e, k)[0] = 0
         /\ \A j \in Nat : /\ Bound(n, e, 0)[j] = Upto(j, n)
                           /\ Bound(n, e, k + 1)[j] = Bound(n, e, k)[j * Power[e]]
                           /\ n <= j * Power[e * k] => Bound(n, e, k)[j] = n
<1> DEFINE B == Bound(n, e, k)
           p == Power[e * k]
           q == Power[e]
<1>1. e * k \in Nat /\ e * (k + 1) = e * k + e /\ e * 0 = 0 BY Times
<1>2. p \in Nat /\ q \in Nat /\ Power[0] = 1 BY <1>1, PowerSteps
<1>3. Power[e * (k + 1)] = p * q
  <2> DEFINE a == e * k
  <2>1. a \in Nat BY <1>1
  <2> HIDE DEF a
  <2>2. Power[a + e] = Power[a] * Power[e] BY <2>1, PowerGrows
  <2> QED BY <1>1, <2>2 DEF a
<1>4. /\ \A j \in Nat : B[j] = Upto(j * p, n)
      /\ \A j \in Nat : Bound(n, e, k + 1)[j] = Upto(j * (p * q), n)
      /\ \A j \in Nat : Bound(n, e, 0)[j] = Upto(j * 1, n)
  <2>1. \A i : \A j \in Nat : Bound(n, e, i)[j] = Upto(j * Power[e * i], n) BY DEF Bound
  <2>2. \A j \in Nat : B[j] = Upto(j * p, n) BY <2>1
  <2>3. \A j \in Nat : Bound(n, e, k + 1)[j] = Upto(j * (p * q), n) BY <2>1, <1>3
  <2>4. \A j \in Nat : Bound(n, e, 0)[j] = Upto(j * 1, n) BY <2>1, <1>1, <1>2
  <2> QED BY <2>2, <2>3, <2>4
<1> HIDE DEF B, p, q
<1>5. \A j \in Nat : j * p \in Nat BY <1>2, Times
<1>6. Bounded(B)
  <2>1. ASSUME NEW j \in Nat PROVE B[j] \in Int
    <3>1. Upto(j * p, n) \in Nat BY <1>5, UptoFacts
    <3> QED BY <1>4, <3>1
  <2>2. ASSUME NEW i \in Nat, NEW j \in Nat, i <= j PROVE B[i] <= B[j]
    <3>1. i * p <= j * p BY <1>2, <2>2, Monotone
    <3> QED BY <1>4, <1>5, <3>1, UptoFacts
  <2> QED BY <2>1, <2>2 DEF Bounded
<1>7. B[0] = 0
  <2>1. 0 * p = 0 BY <1>2
  <2>2. Upto(0, n) = 0 BY UptoFacts
  <2>3. 0 \in Nat OBVIOUS
  <2> QED BY <1>4, <2>1, <2>2, <2>3
<1>8. ASSUME NEW j \in Nat PROVE Bound(n, e, 0)[j] = Upto(j, n)
  <2>1. j * 1 = j OBVIOUS
  <2> QED BY <1>4, <2>1
<1>9. ASSUME NEW j \in Nat PROVE Bound(n, e, k + 1)[j] = B[j * q]
  <2>1. j * q \in Nat /\ (j * q) * p = j * (p * q) BY <1>2
  <2> QED BY <1>4, <2>1
<1>10. ASSUME NEW j \in Nat, n <= j * p PROVE B[j] = n BY <1>4, <1>5, <1>10, UptoFacts
<1> QED BY <1>6, <1>7, <1>8, <1>9, <1>10 DEF B, p, q

\* A level's elements combine all inputs.
LEMMA LevelReaches ==
  ASSUME NEW c, ScanCall(c), NEW e \in Nat, c.wg = Power[e]
  PROVE  \A k \in Nat : c.n <= ScanSize(c)[k] * Power[e * k]
<1> DEFINE s(k) == ScanSize(c)[k]
           p(k) == Power[e * k]
           A == {k \in Nat : c.n <= s(k) * p(k)}
<1>1. c.wg \in Positive /\ c.wg \in Nat /\ c.n \in Nat BY DEF ScanCall, Positive
<1>2. \A k \in Nat : s(k) \in Positive /\ s(k) \in Nat /\ s(k + 1) = CeilDiv(s(k), c.wg)
  BY ScanSizes DEF Positive
<1>3. s(0) = c.n BY ScanSizes
<1>4. p(0) = 1
  <2>1. e * 0 = 0 OBVIOUS
  <2> QED BY <2>1, PowerSteps
<1>5. ASSUME NEW k \in Nat PROVE p(k) \in Nat /\ p(k + 1) = c.wg * p(k)
  <2> DEFINE a == e * k
  <2>1. a \in Nat /\ e * (k + 1) = a + e BY Times
  <2> HIDE DEF a
  <2>2. Power[a + e] = Power[a] * Power[e] /\ Power[a] \in Nat /\ Power[e] \in Nat
    BY <2>1, PowerGrows, PowerSteps
  <2>3. Power[a] * Power[e] = Power[e] * Power[a] BY <2>2
  <2> QED BY <2>1, <2>2, <2>3 DEF a
<1> HIDE DEF s, p
<1>6. 0 \in A
  <2>1. c.n * 1 = c.n BY <1>1
  <2> QED BY <1>1, <1>3, <1>4, <2>1
<1>7. ASSUME NEW k \in Nat, k \in A PROVE k + 1 \in A
  <2> DEFINE a == s(k)
             b == s(k + 1)
             x == p(k)
             w == c.wg
  <2>1. a \in Nat /\ b \in Nat /\ x \in Nat /\ w \in Nat /\ w \in Positive BY <1>1, <1>2, <1>5
  <2>2. a <= b * w
    <3>1. b = CeilDiv(a, w) BY <1>2
    <3> HIDE DEF a, b, w
    <3> QED BY <2>1, <3>1, CeilDivided
  <2>3. c.n <= a * x BY <1>7
  <2>4. a * x <= (b * w) * x
    <3> DEFINE y == b * w
    <3>1. y \in Nat BY <2>1, Times
    <3> HIDE DEF a, b, w, x, y
    <3>2. a * x <= y * x BY <2>1, <2>2, <3>1, Monotone DEF y
    <3> QED BY <3>2 DEF y
  <2>5. p(k + 1) = w * x BY <1>5
  <2> HIDE DEF a, b, w, x
  <2>6. (b * w) * x = b * (w * x) /\ (b * w) * x \in Nat /\ a * x \in Nat BY <2>1
  <2>7. c.n <= b * p(k + 1) BY <1>1, <2>3, <2>4, <2>5, <2>6
  <2> QED BY <2>7 DEF b
<1>8. \A k \in Nat : k \in A
  <2> HIDE DEF A
  <2> QED BY <1>6, <1>7, Naturals
<1> QED BY <1>8 DEF s, p

\* The launches, by number.
LEMMA LaunchNumbers ==
  ASSUME NEW c, Scans(c)
  PROVE  /\ Passes(c) \in Nat /\ 1 <= Passes(c)
         /\ Len(Launches(c)) = 2 * Passes(c) - 1
         /\ DOMAIN Launches(c) = 1 .. 2 * Passes(c) - 1
         /\ \A i \in 1 .. Passes(c) : Launches(c)[i] = ScanPass(c, i - 1)
         /\ \A i \in 1 .. Passes(c) - 1 :
              Launches(c)[Passes(c) + i] = Combination(c, Passes(c) - 1 - i)
<1> DEFINE n == Passes(c)
           s == [i \in 1 .. n |-> ScanPass(c, i - 1)]
           t == [i \in 1 .. n - 1 |-> Combination(c, n - 1 - i)]
           L == Launches(c)
           X == {x \in {s[i] : i \in 1 .. n} \cup {t[i] : i \in 1 .. n - 1} : TRUE}
<1>1. n \in Nat /\ n >= 1 BY PassesFacts DEF Positive, Scans
<1>2. L = s \o t BY DEF Launches, ScanLaunches, Scans
<1>3. /\ \A i \in 1 .. n : s[i] = ScanPass(c, i - 1)
      /\ \A i \in 1 .. n - 1 : t[i] = Combination(c, n - 1 - i)
  OBVIOUS
<1>4. s \in Seq(X) /\ t \in Seq(X) /\ Len(s) = n /\ Len(t) = n - 1
  <2>1. /\ n \in Nat /\ n - 1 \in Nat
        /\ s \in [1 .. n -> X] /\ t \in [1 .. n - 1 -> X]
    BY <1>1
  <2> HIDE DEF s, t, X
  <2> QED BY <2>1
<1> HIDE DEF s, t, n, L, X
<1>5. /\ Len(L) = n + (n - 1) /\ L \in Seq(X)
      /\ \A i \in 1 .. Len(L) : L[i] = IF i <= Len(s) THEN s[i] ELSE t[i - Len(s)]
  <2>1. /\ Len(s \o t) = Len(s) + Len(t) /\ s \o t \in Seq(X)
        /\ \A i \in 1 .. Len(s) + Len(t) :
             (s \o t)[i] = IF i <= Len(s) THEN s[i] ELSE t[i - Len(s)]
    BY <1>4, ConcatProperties
  <2> QED BY <1>2, <1>4, <2>1
<1>6. DOMAIN L = 1 .. Len(L) BY <1>5, LenProperties
<1>7. Len(L) = 2 * n - 1 BY <1>1, <1>5
<1>8. ASSUME NEW i \in 1 .. n PROVE L[i] = ScanPass(c, i - 1)
  <2>1. i \in 1 .. Len(L) /\ i <= n BY <1>1, <1>7
  <2> QED BY <1>3, <1>4, <1>5, <2>1
<1>9. ASSUME NEW i \in 1 .. n - 1 PROVE L[n + i] = Combination(c, n - 1 - i)
  <2>1. n + i \in 1 .. Len(L) /\ ~ (n + i <= n) /\ (n + i) - n = i BY <1>1, <1>7
  <2> QED BY <1>3, <1>4, <1>5, <2>1
<1> QED BY <1>1, <1>6, <1>7, <1>8, <1>9 DEF n, L
-----------------------------------------------------------------------------
\* A level's input and output, and the first element of an element's group.
InOf(k)     == IF k = 0 THEN In ELSE Temporary(k - 1)
OutOf(c, k) == IF k = 0 THEN c.out ELSE Temporary(k - 1)
Prior(c, j) == (j \div c.wg) * c.wg

Places(c, k) == 0 .. ScanSize(c)[k] - 1

\* A level's input; its output after its pass, and after its combination.
Summed(c, e, k, m)  == LET B == Bound(c.n, e, k) IN
  \A j \in Places(c, k) : Spans(m[Cell(InOf(k), j)], B[j], B[j + 1])

Parted(c, e, k, m)  == LET B == Bound(c.n, e, k) IN
  \A j \in Places(c, k) : Spans(m[Cell(OutOf(c, k), j)], B[Prior(c, j)], B[j])

Scanned(c, e, k, m) == LET B == Bound(c.n, e, k) IN
  \A j \in Places(c, k) : Spans(m[Cell(OutOf(c, k), j)], 0, B[j])

\* The launches of a level.
AtLevel(c, k, l) ==
  /\ l.items \in Positive /\ l.groups \in Nat /\ l.size \in Nat
  /\ 2 * l.items = c.wg /\ l.size = ScanSize(c)[k]
  /\ l.groups * c.wg >= l.size
  /\ l.out = OutOf(c, k) /\ l.sums = Temporary(k)

LEMMA LevelLaunches ==
  ASSUME NEW c, Scans(c), Covered(c), NEW k \in 0 .. Passes(c) - 1
  PROVE  /\ k \in Nat
         /\ AtLevel(c, k, ScanPass(c, k)) /\ AtLevel(c, k, Combination(c, k))
         /\ ScanPass(c, k).in = InOf(k) /\ ScanPass(c, k).local = c.wg
         /\ Combination(c, k).local = 1 /\ Combining(Combination(c, k))
         /\ Leveled(c, Combination(c, k))
         /\ ScanPass(c, k).sums # ScanPass(c, k).out
<1>1. ScanCall(c) /\ c.skeleton = "scan" BY DEF Scans
<1>2. k \in Nat
  <2>1. Passes(c) \in Positive BY <1>1, PassesFacts
  <2> QED BY <2>1 DEF Positive
<1>3. \A l \in {ScanPass(c, k), Combination(c, k)} : Leveled(c, l) BY <1>1, LevelFacts
<1>4. \E m \in Nat : Treed(ScanPass(c, k), m) /\ c.wg = Power[m + 1] BY LevelOf
<1>5. 2 * ScanItems(c) = c.wg
  <2>1. PICK m \in Nat : Treed(ScanPass(c, k), m) /\ c.wg = Power[m + 1] BY <1>4
  <2>2. ScanPass(c, k).items = ScanItems(c) BY DEF ScanPass
  <2>3. ScanItems(c) = Power[m] BY <2>1, <2>2 DEF Treed
  <2> QED BY <2>1, <2>3, PowerSteps
<1>6. ScanGroups(c, k) * c.wg >= ScanSize(c)[k] BY DEF Covered
<1>7. \A l \in {ScanPass(c, k), Combination(c, k)} :
        /\ l.items = ScanItems(c) /\ l.groups = ScanGroups(c, k) /\ l.size = ScanSize(c)[k]
        /\ l.out = OutOf(c, k) /\ l.sums = Temporary(k)
  BY DEF ScanPass, Combination, OutOf
<1>8. \A l \in {ScanPass(c, k), Combination(c, k)} : AtLevel(c, k, l)
  BY <1>3, <1>5, <1>6, <1>7 DEF AtLevel, Leveled
<1>9. ScanPass(c, k).in = InOf(k) /\ ScanPass(c, k).local = c.wg BY DEF ScanPass, InOf
<1>10. Combination(c, k).local = 1 /\ Combining(Combination(c, k)) BY DEF Combination, Combining
<1>11. ScanPass(c, k).sums # ScanPass(c, k).out BY <1>3 DEF Leveled
<1> QED BY <1>2, <1>3, <1>8, <1>9, <1>10, <1>11

LEMMA LevelGroups ==
  ASSUME NEW c, ScanCall(c), NEW k \in Nat, NEW l, AtLevel(c, k, l)
  PROVE  /\ \A g \in GroupOf(l) : g \in Nat /\ From(l, g) = g * c.wg
         /\ \A j \in Places(c, k) : /\ j \in Nat /\ j \div c.wg \in GroupOf(l)
                                  /\ From(l, j \div c.wg) = Prior(c, j)
                                  /\ OfGroup(l, j \div c.wg, j)
                                  /\ j - Prior(c, j) \in Nat /\ j - Prior(c, j) < c.wg
                                  /\ Prior(c, j) \in Nat
                                  /\ j \div c.wg \in Places(c, k + 1)
         /\ Places(c, k + 1) \subseteq GroupOf(l)
<1> DEFINE w == c.wg
           G == l.groups
           s == ScanSize(c)[k]
           b == ScanSize(c)[k + 1]
<1>1. w \in Positive /\ w \in Nat /\ G \in Nat /\ s \in Nat /\ G * w >= s /\ l.size = s /\ w = 2 * l.items
  BY DEF ScanCall, AtLevel, Positive
<1>2. b \in Nat /\ b = CeilDiv(s, w) BY ScanSizes DEF Positive
<1>3. ASSUME NEW g \in GroupOf(l) PROVE g \in Nat /\ From(l, g) = g * c.wg
  <2>1. g \in Nat /\ l.items \in Nat BY DEF GroupOf, AtLevel, Positive
  <2> DEFINE i == l.items
  <2>2. i \in Nat /\ w = 2 * i BY <1>1, <2>1
  <2>3. From(l, g) = 2 * g * i BY DEF From
  <2> HIDE DEF i, w
  <2>4. 2 * g * i = g * w BY <2>1, <2>2
  <2> QED BY <2>1, <2>3, <2>4 DEF w
<1> HIDE DEF w, G, s, b
<1>4. s <= b * w /\ b * w <= s + w - 1 BY <1>1, <1>2, CeilDivided
<1>5. ASSUME NEW j \in Places(c, k)
      PROVE  /\ j \in Nat /\ j \div w \in GroupOf(l)
             /\ From(l, j \div w) = Prior(c, j)
             /\ OfGroup(l, j \div w, j)
             /\ j - Prior(c, j) \in Nat /\ j - Prior(c, j) < w
             /\ Prior(c, j) \in Nat
             /\ j \div w \in Places(c, k + 1)
  <2>1. j \in 0 .. s - 1 /\ j \in Nat BY <1>1 DEF Places, s
  <2> DEFINE q == j \div w
             r == j % w
             p == q * w
  <2>2. q \in 0 .. G - 1
    <3>1. G * w \in Nat BY <1>1, Times
    <3>2. j \in 0 .. G * w - 1 BY <1>1, <2>1, <3>1
    <3> HIDE DEF q
    <3> QED BY <1>1, <3>2, PlaceOf DEF q
  <2>3. q \in 0 .. b - 1 /\ r \in 0 .. w - 1 /\ j = q * w + r
    <3>1. b * w \in Nat BY <1>1, <1>2, Times
    <3>2. j \in 0 .. b * w - 1 BY <1>1, <1>4, <2>1, <3>1
    <3> HIDE DEF q, r
    <3> QED BY <1>1, <1>2, <3>2, PlaceOf DEF q, r
  <2>4. q \in Nat /\ p \in Nat
    <3> HIDE DEF q
    <3>1. q \in Nat BY <2>2
    <3> QED BY <1>1, <3>1, Times
  <2>5. Prior(c, j) = p BY DEF Prior, w
  <2>6. q \in GroupOf(l) BY <2>2 DEF GroupOf, G
  <2>7. From(l, q) = p BY <1>3, <2>6 DEF w
  <2> HIDE DEF q, r
  <2>8. j = p + r BY <2>3
  <2> HIDE DEF p
  <2>9. j - p \in Nat /\ j - p < w /\ p <= j /\ j < p + w BY <1>1, <2>1, <2>3, <2>4, <2>8
  <2>10. OfGroup(l, q, j)
    <3>1. j < l.size BY <1>1, <2>1
    <3> QED BY <1>1, <2>1, <2>7, <2>9, <3>1 DEF OfGroup
  <2>11. q \in Places(c, k + 1) BY <2>3 DEF Places, b
  <2> QED BY <2>1, <2>4, <2>5, <2>6, <2>7, <2>9, <2>10, <2>11 DEF q
<1>6. Places(c, k + 1) \subseteq GroupOf(l)
  <2>1. b <= G
    <3> SUFFICES ASSUME G + 1 <= b PROVE FALSE BY <1>1, <1>2
    <3>1. (G + 1) * w <= b * w BY <1>1, <1>2, Monotone
    <3>2. (G + 1) * w = G * w + w /\ G * w \in Nat /\ b * w \in Nat BY <1>1, <1>2, Times
    <3> DEFINE x == G * w
               y == b * w
    <3>3. x \in Nat /\ y \in Nat /\ x + w <= y /\ y <= s + w - 1 /\ x >= s
      BY <1>1, <1>4, <3>1, <3>2
    <3> HIDE DEF x, y
    <3> QED BY <1>1, <3>3
  <2>2. 0 .. b - 1 \subseteq 0 .. G - 1 BY <1>1, <1>2, <2>1
  <2> QED BY <2>2 DEF Places, GroupOf, b, G
<1> QED BY <1>3, <1>5, <1>6 DEF w
-----------------------------------------------------------------------------
LEMMA BoundStarts ==
  \A n, e, k \in Nat : Bounded(Bound(n, e, k)) /\ Bound(n, e, k)[0] = 0
<1> SUFFICES ASSUME NEW n \in Nat, NEW e \in Nat, NEW k \in Nat
             PROVE  Bounded(Bound(n, e, k)) /\ Bound(n, e, k)[0] = 0
  OBVIOUS
<1> QED BY BoundFacts

\* The boundaries of the next level.
Grouped(c, e, k) == \A j \in Nat : Bound(c.n, e, k + 1)[j] = Bound(c.n, e, k)[j * c.wg]

LEMMA BoundNext ==
  ASSUME NEW c, NEW e \in Nat, c.wg = Power[e], NEW k \in Nat, c.n \in Nat
  PROVE  Grouped(c, e, k)
<1> DEFINE n == c.n
           w == c.wg
<1>1. n \in Nat /\ w = Power[e] OBVIOUS
<1> HIDE DEF n, w
<1>2. \A i \in Nat : Bound(n, e, k + 1)[i] = Bound(n, e, k)[i * Power[e]] BY <1>1, BoundFacts
<1>3. \A i \in Nat : Bound(n, e, k + 1)[i] = Bound(n, e, k)[i * w] BY <1>1, <1>2
<1> QED BY <1>3 DEF Grouped, n, w

LEMMA BoundEnds ==
  ASSUME NEW n \in Nat, NEW e \in Nat, NEW k \in Nat, NEW j \in Nat, n <= j * Power[e * k]
  PROVE  Bound(n, e, k)[j] = n
<1> DEFINE a == j * Power[e * k]
<1>1. Bound(n, e, k)[j] = Upto(a, n) BY DEF Bound
<1>2. a \in Nat /\ n <= a
  <2>1. e * k \in Nat BY Times
  <2> DEFINE b == e * k
  <2> HIDE DEF b
  <2>2. Power[b] \in Nat BY <2>1, PowerSteps DEF b
  <2>3. j * Power[b] \in Nat BY <2>2, Times
  <2> QED BY <2>3 DEF b
<1> HIDE DEF a
<1> QED BY <1>1, <1>2, UptoFacts

LEMMA LevelFed ==
  ASSUME NEW c, Scans(c), NEW e \in Nat, c.wg = Power[e], NEW k \in 0 .. Passes(c) - 1,
         NEW l, l.in = InOf(k), l.size = ScanSize(c)[k]
  PROVE  Fed(c, l, Bound(c.n, e, k))
<1> DEFINE B == Bound(c.n, e, k)
           s == ScanSize(c)[k]
<1>1. ScanCall(c) /\ c.skeleton = "scan" BY DEF Scans
<1>2. k \in Nat /\ c.n \in Nat
  <2>1. Passes(c) \in Positive BY <1>1, PassesFacts
  <2> QED BY <1>1, <2>1 DEF Positive, ScanCall
<1>3. s \in Nat /\ c.n <= s * Power[e * k] BY <1>1, <1>2, ScanSizes, LevelReaches DEF Positive
<1>4. Bounded(B) BY <1>2, BoundFacts
<1>5. ASSUME NEW i \in Nat, s <= i PROVE B[i] = c.n
  <2> DEFINE p == Power[e * k]
             n == c.n
  <2>1. e * k \in Nat BY <1>2, Times
  <2>2. p \in Nat
    <3> DEFINE a == e * k
    <3>1. a \in Nat BY <2>1
    <3> HIDE DEF a
    <3>2. Power[a] \in Nat BY <3>1, PowerSteps
    <3> QED BY <3>2 DEF a
  <2>3. n \in Nat /\ n <= s * p BY <1>2, <1>3
  <2> HIDE DEF p, s, n
  <2>4. s * p <= i * p /\ s * p \in Nat /\ i * p \in Nat BY <1>3, <1>5, <2>2, Monotone, Times
  <2>5. n <= i * p BY <2>3, <2>4
  <2>6. c.n <= i * Power[e * k] BY <2>5 DEF n, p
  <2> QED BY <1>2, <2>6, BoundEnds
<1>6. \A i \in Nat : s <= i => B[i + 1] = B[i]
  <2> TAKE i \in Nat
  <2> HAVE s <= i
  <2>1. i + 1 \in Nat /\ s <= i + 1 BY <1>3
  <2> HIDE DEF B, s
  <2>2. B[i + 1] = c.n BY <1>5, <2>1
  <2> QED BY <1>5, <2>2
<1>7. l.in \in Int \ {Shared} BY <1>2 DEF InOf, In, Temporary, Shared
<1>8. ASSUME NEW i \in Nat, i < s PROVE i \in DOMAIN Buffers(c)[l.in]
  <2>1. /\ DOMAIN Buffers(c)[In] = 0 .. c.n - 1
        /\ \A j \in 0 .. Passes(c) - 1 : DOMAIN Buffers(c)[Temporary(j)] = 0 .. ScanSize(c)[j] - 1
    BY <1>1, ScanMemory
  <2>2. CASE k = 0
    <3>1. s = c.n BY <1>1, <2>2, ScanSizes
    <3>2. i \in 0 .. c.n - 1 BY <1>2, <1>8, <3>1
    <3> QED BY <2>1, <2>2, <3>2 DEF InOf
  <2>3. CASE k # 0
    <3> DEFINE j == k - 1
    <3>a. Passes(c) \in Nat BY <1>1, PassesFacts DEF Positive
    <3>1. j \in Nat /\ j + 1 = k /\ j \in 0 .. Passes(c) - 1 BY <1>2, <2>3, <3>a
    <3>2. l.in = Temporary(j) BY <2>3 DEF InOf
    <3> HIDE DEF j
    <3>3. ScanSize(c)[j] \in Nat /\ s <= ScanSize(c)[j] BY <1>1, <3>1, ScanSizes DEF Positive
    <3>4. i \in 0 .. ScanSize(c)[j] - 1 BY <1>3, <1>8, <3>3
    <3> QED BY <2>1, <3>1, <3>2, <3>4
  <2> QED BY <2>2, <2>3
<1> HIDE DEF B, s
<1> QED BY <1>4, <1>6, <1>7, <1>8 DEF Fed, B, s

LEMMA PassAt ==
  ASSUME NEW c, Scans(c), Covered(c), NEW e \in Nat, c.wg = Power[e],
         NEW k \in 0 .. Passes(c) - 1, Summed(c, e, k, AfterLaunches(c)[k])
  PROVE  LET w == AfterLaunches(c)[k + 1]
         IN  /\ Parted(c, e, k, w) /\ Summed(c, e, k + 1, w)
             /\ \A x \in Cells : x[1] \notin {Shared, OutOf(c, k), Temporary(k)} =>
                  w[x] = AfterLaunches(c)[k][x]
<1> DEFINE w == AfterLaunches(c)[k + 1]
           l == ScanPass(c, k)
           B == Bound(c.n, e, k)
           i == k + 1
<1>1. ScanCall(c) /\ c.n \in Nat BY DEF Scans, ScanCall, Positive
<1>2. /\ k \in Nat /\ AtLevel(c, k, l) /\ l.in = InOf(k) /\ l.local = c.wg /\ l.sums # l.out
  BY LevelLaunches
<1>3. i \in DOMAIN Launches(c) /\ Launches(c)[i] = l /\ i - 1 = k
  <2>1. i \in 1 .. Passes(c) /\ i \in 1 .. 2 * Passes(c) - 1 /\ i - 1 = k BY <1>2, LaunchNumbers
  <2> QED BY <2>1, LaunchNumbers
<1>4. PICK m \in Nat : Treed(l, m) BY LevelOf
<1>5. Stocked(c, l) /\ Sequential(c) BY LevelOf, ScanIsSequential
<1>6. l.size = ScanSize(c)[k] /\ l.out = OutOf(c, k) /\ l.sums = Temporary(k) /\ l.size \in Nat
  BY <1>2 DEF AtLevel
<1> HIDE DEF l
<1>7. Fed(c, l, B) BY <1>2, <1>6, LevelFed
<1>8. Entered(c, i) = AfterLaunches(c)[k] BY <1>3 DEF Entered
<1>9. Delivered(l, Entered(c, i), B)
  <2>1. ASSUME NEW j \in Nat, j < l.size PROVE j \in Places(c, k) BY <1>6, <2>1 DEF Places
  <2>2. \A j \in Places(c, k) : Spans(AfterLaunches(c)[k][Cell(l.in, j)], B[j], B[j + 1])
    BY <1>2 DEF Summed
  <2> QED BY <1>8, <2>1, <2>2 DEF Delivered
<1> HIDE DEF i, B
<1>10. /\ \A g \in GroupOf(l) :
            Spans(AfterLaunches(c)[i][Cell(l.sums, g)], B[From(l, g)], B[From(l, g) + l.local])
       /\ \A g \in GroupOf(l), a \in Nat : a < l.local /\ From(l, g) + a < l.size =>
            Spans(AfterLaunches(c)[i][Cell(l.out, From(l, g) + a)], B[From(l, g)], B[From(l, g) + a])
       /\ \A x \in Cells : x[1] \notin {Shared, l.out, l.sums} =>
            AfterLaunches(c)[i][x] = Entered(c, i)[x]
  BY <1>2, <1>3, <1>4, <1>5, <1>7, <1>9, PassLeaves
<1>11. AfterLaunches(c)[i] = w BY DEF i
<1> HIDE DEF w
<1>12. Parted(c, e, k, w)
  <2> SUFFICES ASSUME NEW j \in Places(c, k)
               PROVE  Spans(w[Cell(OutOf(c, k), j)], B[Prior(c, j)], B[j])
    BY DEF Parted, B
  <2> DEFINE g == j \div c.wg
             p == Prior(c, j)
             a == j - p
  <2>1. /\ j \in Nat /\ g \in GroupOf(l) /\ From(l, g) = p
        /\ a \in Nat /\ a < l.local /\ p \in Nat
    BY <1>1, <1>2, LevelGroups
  <2>2. j < l.size BY <1>6 DEF Places
  <2> HIDE DEF g, p
  <2>3. p + a = j BY <2>1
  <2> HIDE DEF a
  <2>4. Spans(w[Cell(l.out, From(l, g) + a)], B[From(l, g)], B[From(l, g) + a])
    BY <1>10, <1>11, <2>1, <2>2, <2>3
  <2> QED BY <1>6, <2>1, <2>3, <2>4 DEF p
<1>13. Summed(c, e, k + 1, w)
  <2> DEFINE T == Bound(c.n, e, k + 1)
  <2> SUFFICES ASSUME NEW j \in Places(c, k + 1)
               PROVE  Spans(w[Cell(InOf(k + 1), j)], T[j], T[j + 1])
    BY DEF Summed
  <2>1. InOf(k + 1) = l.sums
    <3>1. k + 1 # 0 /\ (k + 1) - 1 = k BY <1>2
    <3> QED BY <1>6, <3>1 DEF InOf
  <2>2. j \in GroupOf(l) /\ j \in Nat /\ From(l, j) = j * c.wg BY <1>1, <1>2, LevelGroups
  <2>3. ASSUME NEW q \in Nat PROVE T[q] = B[q * c.wg]
    <3>1. Grouped(c, e, k) BY <1>1, <1>2, BoundNext
    <3> QED BY <3>1 DEF B, Grouped
  <2> HIDE DEF T
  <2>4. (j + 1) * c.wg = j * c.wg + c.wg /\ j + 1 \in Nat BY <1>1, <2>2 DEF ScanCall
  <2>5. T[j] = B[From(l, j)] /\ T[j + 1] = B[From(l, j) + l.local]
    BY <1>2, <2>2, <2>3, <2>4
  <2> QED BY <1>10, <1>11, <2>1, <2>2, <2>5
<1>14. \A x \in Cells : x[1] \notin {Shared, OutOf(c, k), Temporary(k)} =>
         w[x] = AfterLaunches(c)[k][x]
  BY <1>6, <1>8, <1>10, <1>11
<1> QED BY <1>12, <1>13, <1>14 DEF w

LEMMA CombinationAt ==
  ASSUME NEW c, Scans(c), Covered(c), NEW e \in Nat, c.wg = Power[e],
         NEW i \in 1 .. Passes(c) - 1, NEW k, k = Passes(c) - 1 - i,
         Parted(c, e, k, AfterLaunches(c)[Passes(c) + i - 1]),
         Scanned(c, e, k + 1, AfterLaunches(c)[Passes(c) + i - 1])
  PROVE  LET m == AfterLaunches(c)[Passes(c) + i - 1]
             w == AfterLaunches(c)[Passes(c) + i]
         IN  /\ Scanned(c, e, k, w)
             /\ \A x \in Cells : x[1] \notin {Shared, OutOf(c, k)} => w[x] = m[x]
<1> DEFINE q == Passes(c) + i
           m == AfterLaunches(c)[Passes(c) + i - 1]
           w == AfterLaunches(c)[Passes(c) + i]
           l == Combination(c, k)
           B == Bound(c.n, e, k)
<1>1. ScanCall(c) /\ c.n \in Nat BY DEF Scans, ScanCall, Positive
<1>2. Passes(c) \in Nat /\ k \in 0 .. Passes(c) - 1 /\ k \in Nat BY LaunchNumbers
<1>3. AtLevel(c, k, l) /\ l.local = 1 /\ Combining(l) /\ Leveled(c, l) BY <1>2, LevelLaunches
<1>4. q \in DOMAIN Launches(c) /\ Launches(c)[q] = l
  <2>1. Launches(c)[q] = Combination(c, Passes(c) - 1 - i) BY LaunchNumbers
  <2>2. q \in 1 .. 2 * Passes(c) - 1 BY <1>2
  <2> QED BY <2>1, <2>2, LaunchNumbers
<1>5. Sequential(c) /\ Numbered(c) BY ScanIsSequential
<1>6. l.out = OutOf(c, k) /\ l.sums = Temporary(k) BY <1>3 DEF AtLevel
<1>7. Entered(c, q) = m
  <2>1. q - 1 = Passes(c) + i - 1 BY <1>2
  <2> QED BY <2>1 DEF Entered
<1>8. AfterLaunches(c)[q] = w OBVIOUS
<1> HIDE DEF l, q, B
<1>9. /\ \A g \in GroupOf(l) : \A j : OfGroup(l, g, j) =>
            AfterLaunches(c)[q][Cell(l.out, j)] =
              Joined(Entered(c, q)[Cell(l.out, j)], Entered(c, q)[Cell(l.sums, g)])
      /\ \A x \in Cells : x[1] \notin {Shared, l.out} => AfterLaunches(c)[q][x] = Entered(c, q)[x]
  BY <1>3, <1>4, <1>5, CombinationLeaves
<1>10. Parted(c, e, k, m) /\ Scanned(c, e, k + 1, m) OBVIOUS
<1> HIDE DEF m, w
<1>11. Scanned(c, e, k, w)
  <2> SUFFICES ASSUME NEW j \in Places(c, k) PROVE Spans(w[Cell(OutOf(c, k), j)], 0, B[j])
    BY DEF Scanned, B
  <2> DEFINE g == j \div c.wg
             p == Prior(c, j)
             u == m[Cell(l.sums, g)]
             v == m[Cell(l.out, j)]
  <2>1. /\ j \in Nat /\ g \in GroupOf(l) /\ g \in Nat /\ OfGroup(l, g, j) /\ p \in Nat
        /\ g \in Places(c, k + 1) /\ p = g * c.wg /\ j - p \in Nat
    BY <1>1, <1>2, <1>3, LevelGroups DEF Prior
  <2> HIDE DEF g, p
  <2>2. Spans(v, B[p], B[j]) BY <1>6, <1>10 DEF Parted, B, p
  <2>3. Spans(u, 0, B[p])
    <3> DEFINE T == Bound(c.n, e, k + 1)
    <3>1. OutOf(c, k + 1) = l.sums
      <4>1. k + 1 # 0 /\ (k + 1) - 1 = k BY <1>2
      <4> QED BY <1>6, <4>1 DEF OutOf
    <3>2. Spans(m[Cell(OutOf(c, k + 1), g)], 0, T[g]) BY <1>10, <2>1 DEF Scanned
    <3>a. Grouped(c, e, k) BY <1>1, <1>2, BoundNext
    <3>3. T[g] = B[p] BY <2>1, <3>a DEF B, Grouped
    <3> HIDE DEF T
    <3> QED BY <3>1, <3>2, <3>3
  <2>4. /\ 0 \in Int /\ B[p] \in Int /\ B[j] \in Int /\ 0 <= B[p] /\ B[p] <= B[j]
    <3>1. Bounded(B) /\ B[0] = 0 BY <1>1, <1>2, BoundStarts DEF B
    <3>2. p <= j /\ 0 <= p /\ 0 \in Nat BY <2>1
    <3> QED BY <2>1, <3>1, <3>2 DEF Bounded
  <2>5. w[Cell(l.out, j)] = Joined(v, u) BY <1>7, <1>8, <1>9, <2>1
  <2> HIDE DEF u, v
  <2>6. Spans(Joined(v, u), 0, B[j])
    <3>1. Spans(v \o u, 0, B[j]) BY <2>2, <2>3, <2>4, SpansJoin
    <3> QED BY <3>1 DEF Joined
  <2> QED BY <1>6, <2>5, <2>6
<1>12. \A x \in Cells : x[1] \notin {Shared, OutOf(c, k)} => w[x] = m[x]
  BY <1>6, <1>7, <1>8, <1>9
<1> QED BY <1>11, <1>12 DEF m, w
-----------------------------------------------------------------------------
LEMMA OutsDiffer ==
  ASSUME NEW c, ScanCall(c), NEW k \in Nat, NEW i \in Nat, k < i
  PROVE  OutOf(c, k) \notin {Shared, OutOf(c, i), Temporary(i)} /\ OutOf(c, k) \in Int
<1>1. c.out \in {In, Out} BY DEF ScanCall
<1>2. OutOf(c, i) = 4 + (i - 1) /\ Temporary(i) = 4 + i BY DEF OutOf, Temporary
<1>3. CASE k = 0
  <2>1. OutOf(c, k) \in {0, 1} BY <1>1, <1>3 DEF OutOf, In, Out
  <2> QED BY <1>2, <2>1 DEF Shared
<1>4. CASE k # 0
  <2>1. OutOf(c, k) = 4 + (k - 1) BY <1>4 DEF OutOf, Temporary
  <2> QED BY <1>2, <1>4, <2>1 DEF Shared
<1> QED BY <1>3, <1>4

\* What a launch does not touch stays as it is.
LEMMA LevelKept ==
  ASSUME NEW c, OutOf(c, 0) \in Int, NEW e, NEW k \in Nat, NEW m, NEW w, OutOf(c, k) \in Int,
         \A x \in Cells : x[1] = OutOf(c, k) => w[x] = m[x]
  PROVE  /\ Parted(c, e, k, m) => Parted(c, e, k, w)
         /\ Scanned(c, e, k, m) => Scanned(c, e, k, w)
<1>1. ASSUME NEW j \in Places(c, k) PROVE w[Cell(OutOf(c, k), j)] = m[Cell(OutOf(c, k), j)]
  <2>1. j \in Int BY DEF Places
  <2>2. Cell(OutOf(c, k), j) \in Cells /\ Cell(OutOf(c, k), j)[1] = OutOf(c, k)
    BY <2>1 DEF Cell, Cells
  <2> QED BY <2>2
<1>2. Parted(c, e, k, m) => Parted(c, e, k, w) BY <1>1 DEF Parted
<1>3. Scanned(c, e, k, m) => Scanned(c, e, k, w) BY <1>1 DEF Scanned
<1> QED BY <1>2, <1>3

\* After i passes, and after all passes and i combinations.
Ascended(c, e, i) ==
  /\ \A k \in Nat : k < i => Parted(c, e, k, AfterLaunches(c)[i])
  /\ Summed(c, e, i, AfterLaunches(c)[i])

Descended(c, e, i) ==
  \A k \in 0 .. Passes(c) - 1 :
    /\ k >= Passes(c) - 1 - i => Scanned(c, e, k, AfterLaunches(c)[Passes(c) + i])
    /\ k < Passes(c) - 1 - i => Parted(c, e, k, AfterLaunches(c)[Passes(c) + i])

LEMMA BoundFirst ==
  ASSUME NEW n \in Nat, NEW e \in Nat, NEW j \in Nat
  PROVE  Bound(n, e, 0)[j] = Upto(j, n)
<1> DEFINE k == 0
<1>1. k \in Nat OBVIOUS
<1> HIDE DEF k
<1> QED BY <1>1, BoundFacts

LEMMA FirstInput ==
  ASSUME NEW c, Scans(c), NEW e \in Nat
  PROVE  Summed(c, e, 0, AfterLaunches(c)[0])
<1> DEFINE B == Bound(c.n, e, 0)
           m == AfterLaunches(c)[0]
<1>1. ScanCall(c) /\ c.skeleton = "scan" /\ c.n \in Nat BY DEF Scans, ScanCall, Positive
<1>2. m = [x \in Cells |-> Initially(c, x)] BY AfterLaunchesIs, ScanIsSequential
<1>3. /\ In \in DOMAIN Buffers(c) /\ DOMAIN Buffers(c)[In] = 0 .. c.n - 1
      /\ \A i \in 0 .. c.n - 1 : Buffers(c)[In][i] = <<i + 1>>
  BY <1>1, ScanMemory
<1>4. ScanSize(c)[0] = c.n BY <1>1, ScanSizes
<1> HIDE DEF m
<1> SUFFICES ASSUME NEW j \in Places(c, 0)
             PROVE  Spans(m[Cell(InOf(0), j)], B[j], B[j + 1])
  BY DEF Summed, m
<1>5. j \in 0 .. c.n - 1 /\ j \in Nat /\ j + 1 \in Nat /\ j <= c.n /\ j + 1 <= c.n
  BY <1>1, <1>4 DEF Places
<1>6. B[j] = j /\ B[j + 1] = j + 1
  <2>1. B[j] = Upto(j, c.n) /\ B[j + 1] = Upto(j + 1, c.n)
    <3> DEFINE n == c.n
               i == j + 1
    <3>1. n \in Nat /\ i \in Nat /\ j \in Nat BY <1>1, <1>5
    <3> HIDE DEF n, i, B
    <3>2. Bound(n, e, 0)[j] = Upto(j, n) BY <3>1, BoundFirst
    <3>3. Bound(n, e, 0)[i] = Upto(i, n) BY <3>1, BoundFirst
    <3> QED BY <3>2, <3>3 DEF B, n, i
  <2>2. Upto(j, c.n) = j /\ Upto(j + 1, c.n) = j + 1 BY <1>5 DEF Upto
  <2> HIDE DEF B
  <2> QED BY <1>5, <2>1, <2>2
<1>7. m[Cell(InOf(0), j)] = <<j + 1>>
  <2> DEFINE x == Cell(In, j)
  <2>1. x \in Cells /\ x[1] = In /\ x[2] = j BY <1>5 DEF Cell, Cells, In
  <2>2. InOf(0) = In BY DEF InOf
  <2> HIDE DEF x
  <2>3. m[x] = Initially(c, x) BY <1>2, <2>1
  <2>4. Initially(c, x) = <<j + 1>> BY <1>3, <1>5, <2>1 DEF Initially
  <2> QED BY <2>2, <2>3, <2>4 DEF x
<1> QED BY <1>5, <1>6, <1>7, SpansOne

LEMMA AllAscended ==
  ASSUME NEW c, Scans(c), Covered(c), NEW e \in Nat, c.wg = Power[e]
  PROVE  \A i \in Nat : i <= Passes(c) => Ascended(c, e, i)
<1> DEFINE A == {i \in Nat : i <= Passes(c) => Ascended(c, e, i)}
<1>1. Passes(c) \in Nat /\ ScanCall(c) BY LaunchNumbers DEF Scans
<1>2. 0 \in A
  <2>1. \A k \in Nat : ~ (k < 0) OBVIOUS
  <2>2. Ascended(c, e, 0) BY <2>1, FirstInput DEF Ascended
  <2> QED BY <2>2
<1>3. ASSUME NEW i \in Nat, i \in A PROVE i + 1 \in A
  <2> SUFFICES ASSUME i + 1 <= Passes(c) PROVE Ascended(c, e, i + 1) OBVIOUS
  <2>1. i \in 0 .. Passes(c) - 1 /\ i <= Passes(c) BY <1>1
  <2>2. Ascended(c, e, i) BY <1>3, <2>1
  <2> DEFINE m == AfterLaunches(c)[i]
             w == AfterLaunches(c)[i + 1]
  <2>3. /\ \A k \in Nat : k < i => Parted(c, e, k, m)
        /\ Summed(c, e, i, m)
    BY <2>2 DEF Ascended
  <2>4. /\ Parted(c, e, i, w) /\ Summed(c, e, i + 1, w)
        /\ \A x \in Cells : x[1] \notin {Shared, OutOf(c, i), Temporary(i)} => w[x] = m[x]
    BY <2>1, <2>3, PassAt
  <2> HIDE DEF m, w
  <2>5. ASSUME NEW k \in Nat, k < i + 1 PROVE Parted(c, e, k, w)
    <3>1. CASE k < i
      <4>1. OutOf(c, k) \notin {Shared, OutOf(c, i), Temporary(i)} /\ OutOf(c, k) \in Int
        BY <1>1, <3>1, OutsDiffer
      <4>2. OutOf(c, 0) \in Int BY <1>1 DEF OutOf, ScanCall, In, Out
      <4>3. \A x \in Cells : x[1] = OutOf(c, k) => w[x] = m[x] BY <2>4, <4>1
      <4>4. Parted(c, e, k, m) BY <2>3, <3>1
      <4> QED BY <4>1, <4>2, <4>3, <4>4, LevelKept
    <3>2. CASE ~ (k < i)
      <4>1. k = i BY <2>5, <3>2
      <4> QED BY <2>4, <4>1
    <3> QED BY <3>1, <3>2
  <2> QED BY <2>4, <2>5 DEF Ascended, w
<1> HIDE DEF A
<1>4. \A i \in Nat : i \in A BY <1>2, <1>3, Naturals
<1> QED BY <1>4 DEF A

LEMMA AllDescended ==
  ASSUME NEW c, Scans(c), Covered(c), NEW e \in Nat, c.wg = Power[e]
  PROVE  \A i \in Nat : i <= Passes(c) - 1 => Descended(c, e, i)
<1> DEFINE n == Passes(c)
           A == {i \in Nat : i <= n - 1 => Descended(c, e, i)}
<1>1. n \in Nat /\ n >= 1 /\ ScanCall(c) /\ ScanSize(c)[n] <= 1 /\ c.n \in Nat /\ c.wg \in Nat
  BY LaunchNumbers, PassesFacts DEF Scans, ScanCall, Positive
<1>2. 0 \in A
  <2> DEFINE m == AfterLaunches(c)[n]
             B == Bound(c.n, e, n - 1)
  <2>1. Ascended(c, e, n) BY <1>1, AllAscended
  <2>2. \A k \in 0 .. n - 1 : Parted(c, e, k, m)
    <3>1. \A k \in 0 .. n - 1 : k \in Nat /\ k < n BY <1>1
    <3> QED BY <2>1, <3>1 DEF Ascended
  <2>3. n - 1 \in 0 .. n - 1 /\ n - 1 \in Nat /\ (n - 1) + 1 = n BY <1>1
  <2>4. Scanned(c, e, n - 1, m)
    <3> SUFFICES ASSUME NEW j \in Places(c, n - 1)
                 PROVE  Spans(m[Cell(OutOf(c, n - 1), j)], 0, B[j])
      BY DEF Scanned
    <3>1. Spans(m[Cell(OutOf(c, n - 1), j)], B[Prior(c, j)], B[j]) BY <2>2, <2>3 DEF Parted
    <3> DEFINE k == n - 1
    <3>2. k \in Nat /\ k \in 0 .. n - 1 /\ k + 1 = n /\ j \in Places(c, k) BY <2>3
    <3> HIDE DEF k
    <3>3. AtLevel(c, k, ScanPass(c, k)) BY <3>2, LevelLaunches DEF n
    <3>4. j \div c.wg \in Places(c, k + 1) BY <1>1, <3>2, <3>3, LevelGroups
    <3>5. j \div c.wg = 0
      <4> DEFINE q == j \div c.wg
      <4>1. q \in 0 .. ScanSize(c)[n] - 1 BY <3>2, <3>4 DEF Places
      <4>2. ScanSize(c)[n] \in Nat BY <1>1, ScanSizes DEF Positive
      <4> HIDE DEF q
      <4>3. q = 0 BY <1>1, <4>1, <4>2
      <4> QED BY <4>3 DEF q
    <3>6. Prior(c, j) = 0 BY <1>1, <3>5 DEF Prior
    <3>7. B[0] = 0 BY <1>1, <2>3, BoundStarts
    <3> QED BY <3>1, <3>6, <3>7
  <2>5. n + 0 = n /\ n - 1 - 0 = n - 1 BY <1>1
  <2>6. \A k \in 0 .. n - 1 : k >= n - 1 => k = n - 1 BY <1>1
  <2> HIDE DEF m
  <2>7. Descended(c, e, 0) BY <2>2, <2>4, <2>5, <2>6 DEF Descended, m
  <2> QED BY <2>7
<1>3. ASSUME NEW i \in Nat, i \in A PROVE i + 1 \in A
  <2> SUFFICES ASSUME i + 1 <= n - 1 PROVE Descended(c, e, i + 1) OBVIOUS
  <2> DEFINE q == n - 1 - (i + 1)
             m == AfterLaunches(c)[n + i]
             w == AfterLaunches(c)[n + (i + 1)]
  <2>1. /\ i <= n - 1 /\ i + 1 \in 1 .. n - 1 /\ q \in Nat /\ q \in 0 .. n - 1 /\ q + 1 \in 0 .. n - 1
        /\ q + 1 = n - 1 - i /\ n + (i + 1) - 1 = n + i /\ q < n - 1 - i
    BY <1>1
  <2>2. \A k \in 0 .. n - 1 : /\ k >= q + 1 => Scanned(c, e, k, m)
                              /\ k < q + 1 => Parted(c, e, k, m)
    BY <1>3, <2>1 DEF Descended
  <2> HIDE DEF m
  <2>3. Parted(c, e, q, m) /\ Scanned(c, e, q + 1, m)
    <3>1. q < q + 1 /\ q + 1 >= q + 1 BY <2>1
    <3> QED BY <2>1, <2>2, <3>1
  <2>4. /\ Scanned(c, e, q, w)
        /\ \A x \in Cells : x[1] \notin {Shared, OutOf(c, q)} => w[x] = m[x]
    <3> DEFINE h == i + 1
    <3>1. /\ h \in 1 .. Passes(c) - 1 /\ q = Passes(c) - 1 - h
          /\ m = AfterLaunches(c)[Passes(c) + h - 1] /\ w = AfterLaunches(c)[Passes(c) + h]
      BY <2>1 DEF m
    <3> HIDE DEF h, q, w
    <3> QED BY <2>3, <3>1, CombinationAt
  <2> HIDE DEF q, w
  <2>5. ASSUME NEW k \in 0 .. n - 1, k # q
        PROVE  /\ Parted(c, e, k, m) => Parted(c, e, k, w)
               /\ Scanned(c, e, k, m) => Scanned(c, e, k, w)
    <3>1. k \in Nat /\ q \in Nat /\ (k < q \/ q < k) BY <1>1, <2>1, <2>5
    <3>2. OutOf(c, k) # Shared /\ OutOf(c, k) # OutOf(c, q) /\ OutOf(c, k) \in Int
      <4>1. CASE k < q BY <1>1, <3>1, <4>1, OutsDiffer
      <4>2. CASE q < k
        <5>1. OutOf(c, q) # OutOf(c, k) BY <1>1, <3>1, <4>2, OutsDiffer
        <5>2. k < k + 1 /\ k + 1 \in Nat BY <3>1
        <5>3. OutOf(c, k) # Shared /\ OutOf(c, k) \in Int BY <1>1, <3>1, <5>2, OutsDiffer
        <5> QED BY <5>1, <5>3
      <4> QED BY <3>1, <4>1, <4>2
    <3>3. \A x \in Cells : x[1] = OutOf(c, k) => w[x] = m[x] BY <2>4, <3>2
    <3>4. OutOf(c, 0) \in Int BY <1>1 DEF OutOf, ScanCall, In, Out
    <3> QED BY <3>1, <3>2, <3>3, <3>4, LevelKept
  <2>6. ASSUME NEW k \in 0 .. n - 1
        PROVE  /\ k >= q => Scanned(c, e, k, w)
               /\ k < q => Parted(c, e, k, w)
    <3>1. k = q \/ (k # q /\ k >= q + 1) \/ (k # q /\ k < q) BY <1>1, <2>1
    <3>2. CASE k = q BY <2>1, <2>4, <3>2
    <3>3. CASE k # q /\ k >= q + 1
      <4>1. Scanned(c, e, k, w) BY <2>2, <2>5, <3>3
      <4>2. ~ (k < q) BY <1>1, <2>1, <3>3
      <4> QED BY <4>1, <4>2
    <3>4. CASE k # q /\ k < q
      <4>1. k < q + 1 /\ ~ (k >= q) BY <1>1, <2>1, <3>4
      <4>2. Parted(c, e, k, w) BY <2>2, <2>5, <3>4, <4>1
      <4> QED BY <4>1, <4>2
    <3> QED BY <3>1, <3>2, <3>3, <3>4
  <2> QED BY <2>6 DEF Descended, q, w
<1> HIDE DEF A
<1>4. \A i \in Nat : i \in A BY <1>2, <1>3, Naturals
<1> QED BY <1>4 DEF A
-----------------------------------------------------------------------------
LEMMA SpansCombine ==
  ASSUME NEW n \in Nat, NEW v, Spans(v, 0, n)
  PROVE  CombinationOf(v, n)
<1>1. v \in Seq(Int) /\ Distinct(v) BY DEF Spans
<1>2. \A y : y \in Range(v) <=> y \in 1 .. n
  <2> SUFFICES ASSUME NEW y PROVE y \in Range(v) <=> y \in 1 .. n OBVIOUS
  <2>1. y \in Range(v) <=> y \in Int /\ 0 < y /\ y <= n BY DEF Spans
  <2>2. (y \in Int /\ 0 < y /\ y <= n) <=> y \in 1 .. n OBVIOUS
  <2> QED BY <2>1, <2>2
<1>3. Len(v) = n /\ Range(v) = 1 .. n BY <1>1, <1>2, DistinctLen
<1> QED BY <1>3 DEF CombinationOf

LEMMA ScanExplained ==
  ASSUME NEW c, Scans(c), Covered(c)
  PROVE  /\ Explained(c)
         /\ \A j \in 0 .. c.n - 1 :
              CombinationOf(Start(c, Len(Launches(c)) + 1, Cell(c.out, j)), j)
<1> DEFINE last == Len(Launches(c))
           m == AfterLaunches(c)[last]
<1>1. /\ Explained(c) /\ \A x \in Cells : Start(c, last + 1, x) = m[x]
  BY ScanIsSequential, SequenceExplains
<1>2. ScanCall(c) /\ PowerOfTwo(c) /\ c.n \in Nat /\ c.wg \in Nat /\ c.out \in Int
  BY DEF Scans, ScanCall, Positive, In, Out
<1>3. PICK e \in 1 .. c.wg : c.wg = Power[e] BY <1>2 DEF PowerOfTwo
<1>4. e \in Nat
  <2>1. \A a \in 1 .. c.wg : a \in Nat BY <1>2
  <2> QED BY <2>1
<1>5. Scanned(c, e, 0, m)
  <2> DEFINE i == Passes(c) - 1
             k == 0
  <2>1. /\ i \in Nat /\ i <= Passes(c) - 1 /\ k \in 0 .. Passes(c) - 1 /\ k >= Passes(c) - 1 - i
        /\ Passes(c) + i = last
    <3>1. Passes(c) \in Nat /\ 1 <= Passes(c) /\ last = 2 * Passes(c) - 1 BY LaunchNumbers
    <3> DEFINE p == Passes(c)
    <3>2. p \in Nat /\ 1 <= p /\ last = 2 * p - 1 BY <3>1
    <3> HIDE DEF p, last
    <3> QED BY <3>2 DEF p
  <2> HIDE DEF i, k, m, last
  <2>2. Descended(c, e, i) BY <1>3, <1>4, <2>1, AllDescended
  <2>3. Scanned(c, e, k, AfterLaunches(c)[Passes(c) + i]) BY <2>1, <2>2 DEF Descended
  <2> QED BY <2>1, <2>3 DEF m, k
<1> HIDE DEF m, last
<1>6. ASSUME NEW j \in 0 .. c.n - 1
      PROVE  CombinationOf(Start(c, last + 1, Cell(c.out, j)), j)
  <2> DEFINE b == Bound(c.n, e, 0)
  <2>1. j \in Nat /\ j <= c.n /\ j \in Int BY <1>2
  <2>2. j \in Places(c, 0)
    <3>1. ScanSize(c)[0] = c.n BY <1>2, ScanSizes
    <3> QED BY <3>1 DEF Places
  <2>3. Spans(m[Cell(OutOf(c, 0), j)], 0, b[j]) BY <1>5, <2>2 DEF Scanned
  <2>4. OutOf(c, 0) = c.out BY DEF OutOf
  <2>5. b[j] = j
    <3>1. b[j] = Upto(j, c.n) BY <1>2, <1>4, <2>1, BoundFirst
    <3>2. Upto(j, c.n) = j BY <2>1 DEF Upto
    <3> QED BY <3>1, <3>2
  <2> HIDE DEF b
  <2>6. Spans(m[Cell(c.out, j)], 0, j) BY <2>3, <2>4, <2>5
  <2>7. CombinationOf(m[Cell(c.out, j)], j) BY <2>1, <2>6, SpansCombine
  <2>8. Cell(c.out, j) \in Cells BY <1>2, <2>1 DEF Cell, Cells
  <2> QED BY <1>1, <2>7, <2>8
<1> QED BY <1>1, <1>6 DEF last

-----------------------------------------------------------------------------
(***************************************************************************)
(* Every scan's output is the exclusive prefixes of its input, for every   *)
(* number of elements and every work-group size that is a power of two,    *)
(* in whatever order groups and warps run.                                 *)
(***************************************************************************)
LEMMA DoneScan ==
  ASSUME Tolerated \cap {"covered", "powerOfTwo"} = {}
  PROVE  KInv /\ VInv => ScanIsPrefix
<1> SUFFICES ASSUME KInv, VInv, call.skeleton = "scan", todo = << >>,
                    NEW i \in 0 .. call.n - 1
             PROVE  CombinationOf(mem[call.out][i], i)
  BY DEF ScanIsPrefix, Computed
<1>1. call # None BY DEF None
<1>2. call \in Requests /\ Acceptable(call) BY <1>1 DEF KInv, CallOK
<1>3. Covered(call) /\ PowerOfTwo(call)
  <2>1. Meets("covered", Covered(call)) /\ Meets("powerOfTwo", PowerOfTwo(call))
    BY <1>2 DEF Acceptable
  <2> QED BY <2>1 DEF Meets
<1>4. Scans(call) BY <1>2, <1>3, RequestsAssumption DEF IsCall, Scans
<1>5. /\ Explained(call)
      /\ \A j \in 0 .. call.n - 1 :
           CombinationOf(Start(call, Len(Launches(call)) + 1, Cell(call.out, j)), j)
  BY <1>3, <1>4, ScanExplained
<1>6. /\ DOMAIN mem = DOMAIN Buffers(call)
      /\ \A b \in DOMAIN mem : DOMAIN mem[b] = DOMAIN Buffers(call)[b]
      /\ \A b \in DOMAIN mem : \A n \in DOMAIN mem[b] :
           mem[b][n] = Start(call, Len(Launches(call)) + 1, Cell(b, n))
  BY <1>1, <1>5, EveryCallIsScheduled, DoneValues
<1>7. call.out \in DOMAIN Buffers(call) /\ i \in DOMAIN Buffers(call)[call.out]
  <2>1. ScanCall(call) /\ call.out \in {In, Out} BY <1>4 DEF Scans, ScanCall
  <2>2. /\ In \in DOMAIN Buffers(call) /\ Out \in DOMAIN Buffers(call)
        /\ DOMAIN Buffers(call)[In] = 0 .. call.n - 1
        /\ DOMAIN Buffers(call)[Out] = 0 .. call.n - 1
    BY <2>1, ScanMemory
  <2> QED BY <2>1, <2>2
<1>8. mem[call.out][i] = Start(call, Len(Launches(call)) + 1, Cell(call.out, i)) BY <1>6, <1>7
<1> QED BY <1>5, <1>8

\* Scan (detail/ScanDef.h, detail/ScanKernel.cl): when a call is over whose
\* work-group size is a power of two and whose launches cover their elements,
\* element i of its output is made of the elements before i, each of them taken
\* once.
THEOREM ScansArePrefixes ==
  ASSUME Tolerated \cap {"covered", "powerOfTwo"} = {}
  PROVE  Spec => []ScanIsPrefix
<1>1. Spec => [](KInv /\ VInv) BY ValuesInvariance
<1>2. KInv /\ VInv => ScanIsPrefix BY DoneScan
<1> QED BY <1>1, <1>2, PTL
=============================================================================
