---------------------------- MODULE KernelResults ----------------------------
(***************************************************************************)
(* What the kernels compute.  A kernel is annotated with the values that   *)
(* each of its phases stores, as if the phases were done one after the     *)
(* other.  A kernel that does not race, and whose code makes those values  *)
(* of those before, computes them in every order in which groups and warps *)
(* may run; so the results of a skeleton are a matter of its annotations.  *)
(***************************************************************************)
EXTENDS KernelContracts

-----------------------------------------------------------------------------
(***************************************************************************)
(* Lists that are put together of pieces.                                  *)
(***************************************************************************)
\* One element more.
Onto(t, x) == t \o <<x>>

IsOnto(S, w, u, x) ==
  /\ w \in Seq(S)
  /\ Len(w) = Len(u) + 1
  /\ \A j \in 1 .. Len(u) : w[j] = u[j]
  /\ w[Len(u) + 1] = x

LEMMA OneMore ==
  ASSUME NEW S, NEW u \in Seq(S), NEW x \in S
  PROVE  IsOnto(S, Onto(u, x), u, x)
<1> DEFINE b == <<x>>
           n == Len(u)
<1>1. b \in Seq(S) /\ Len(b) = 1 /\ b[1] = x /\ Onto(u, x) = u \o b /\ n \in Nat
  BY LenProperties DEF Onto
<1> HIDE DEF b
<1>2. /\ u \o b \in Seq(S) /\ Len(u \o b) = n + Len(b)
      /\ \A j \in 1 .. n + Len(b) : (u \o b)[j] = IF j <= n THEN u[j] ELSE b[j - n]
  BY <1>1, ConcatProperties
<1> HIDE DEF n
<1>3. \A j \in 1 .. n : j \in 1 .. n + 1 /\ j <= n BY <1>1
<1>4. n + 1 \in 1 .. n + 1 /\ ~ (n + 1 <= n) /\ (n + 1) - n = 1 BY <1>1
<1> QED BY <1>1, <1>2, <1>3, <1>4 DEF n, IsOnto

\* Lists of one element are put together to the list of the elements.
Singles(f, n) == [k \in 1 .. n |-> <<f[k]>>]

Firsts(f, n) == [k \in 1 .. n |-> f[k]]

Among(S, f, n) == \A k \in 1 .. n : f[k] \in S

LEMMA FirstsFacts ==
  ASSUME NEW S, NEW f, NEW n \in Nat, Among(S, f, n)
  PROVE  /\ Firsts(f, n) \in Seq(S) /\ Len(Firsts(f, n)) = n
         /\ \A k \in 1 .. n : Firsts(f, n)[k] = f[k]
         /\ Singles(f, n) \in Seq(Seq(S)) /\ Len(Singles(f, n)) = n
         /\ \A k \in 1 .. n : Singles(f, n)[k] = <<f[k]>>
<1>1. \A k \in 1 .. n : f[k] \in S /\ <<f[k]>> \in Seq(S) BY DEF Among
<1> QED BY <1>1 DEF Firsts, Singles

LEMMA FirstsOneMore ==
  ASSUME NEW S, NEW f, NEW n \in Nat, Among(S, f, n + 1)
  PROVE  Firsts(f, n + 1) = Onto(Firsts(f, n), f[n + 1])
<1> DEFINE u == Firsts(f, n)
           v == Firsts(f, n + 1)
           w == Onto(u, f[n + 1])
<1>1. /\ n + 1 \in Nat /\ n + 1 \in 1 .. n + 1 /\ f[n + 1] \in S
      /\ Among(S, f, n)
  BY DEF Among
<1>2. /\ u \in Seq(S) /\ Len(u) = n
      /\ \A k \in 1 .. n : u[k] = f[k]
  BY <1>1, FirstsFacts
<1>3. /\ v \in Seq(S) /\ Len(v) = n + 1
      /\ \A k \in 1 .. n + 1 : v[k] = f[k]
  BY <1>1, FirstsFacts
<1> HIDE DEF u, v
<1> DEFINE x == f[n + 1]
<1>4. /\ w \in Seq(S) /\ Len(w) = n + 1
      /\ (\A j \in 1 .. n : w[j] = u[j]) /\ w[n + 1] = x
  <2>1. x \in S /\ w = Onto(u, x) BY <1>1
  <2> HIDE DEF x, w
  <2>2. IsOnto(S, w, u, x) BY <1>2, <2>1, OneMore
  <2> QED BY <1>2, <2>2 DEF IsOnto
<1> HIDE DEF w
<1>5. ASSUME NEW j \in 1 .. n + 1 PROVE v[j] = w[j]
  <2>1. j \in 1 .. n \/ j = n + 1 OBVIOUS
  <2> QED BY <1>2, <1>3, <1>4, <2>1
<1>6. v = w BY <1>3, <1>4, <1>5, SeqEqual
<1> QED BY <1>6 DEF v, w, u

LEMMA FlattenSingles ==
  ASSUME NEW S, NEW n \in Nat, NEW f, Among(S, f, n)
  PROVE  FlattenSeq(Singles(f, n)) = Firsts(f, n)
<1> DEFINE A == {m \in Nat : m <= n => FlattenSeq(Singles(f, m)) = Firsts(f, m)}
<1>1. 0 \in A
  <2>1. Singles(f, 0) = << >> /\ Firsts(f, 0) = << >> BY DEF Singles, Firsts
  <2> QED BY <2>1, FlattenNone
<1>2. ASSUME NEW m \in Nat, m \in A PROVE m + 1 \in A
  <2> SUFFICES ASSUME m + 1 <= n
               PROVE  FlattenSeq(Singles(f, m + 1)) = Firsts(f, m + 1)
    OBVIOUS
  <2> DEFINE last == <<f[m + 1]>>
  <2>1. /\ m <= n /\ m + 1 \in Nat /\ m + 1 \in 1 .. m + 1
        /\ f[m + 1] \in S /\ Among(S, f, m) /\ Among(S, f, m + 1)
    BY DEF Among
  <2>2. FlattenSeq(Singles(f, m)) = Firsts(f, m) BY <1>2, <2>1
  <2>3. OneLonger(S, Singles(f, m), Singles(f, m + 1), last)
    <3>1. last \in Seq(S) BY <2>1
    <3>a. Among(S, f, m) /\ Among(S, f, m + 1) /\ m + 1 \in Nat BY <2>1
    <3>2. /\ Singles(f, m) \in Seq(Seq(S)) /\ Len(Singles(f, m)) = m
          /\ \A k \in 1 .. m : Singles(f, m)[k] = <<f[k]>>
      BY <3>a, FirstsFacts, SMTT(30)
    <3>3. /\ Singles(f, m + 1) \in Seq(Seq(S)) /\ Len(Singles(f, m + 1)) = m + 1
          /\ \A k \in 1 .. m + 1 : Singles(f, m + 1)[k] = <<f[k]>>
      BY <3>a, FirstsFacts, SMTT(30)
    <3> DEFINE s == Singles(f, m)
               t == Singles(f, m + 1)
    <3>4. /\ (\A i \in 1 .. m : t[i] = s[i]) /\ t[m + 1] = last
      <4> HIDE DEF s, t
      <4>1. \A i \in 1 .. m : i \in 1 .. m + 1 OBVIOUS
      <4> QED BY <2>1, <3>2, <3>3, <4>1 DEF s, t
    <3> HIDE DEF s, t, last
    <3> QED BY <3>1, <3>2, <3>3, <3>4 DEF OneLonger, s, t
  <2>4. FlattenSeq(Singles(f, m + 1)) = FlattenSeq(Singles(f, m)) \o last
    <3> HIDE DEF last
    <3> QED BY <2>3, FlattenLast
  <2> QED BY <2>1, <2>2, <2>4, FirstsOneMore DEF Onto
<1>3. \A m \in Nat : m \in A
  <2> HIDE DEF A
  <2> QED BY <1>1, <1>2, Naturals
<1> QED BY <1>3

\* And onto a list that comes before.
SinglesOnto(v, f, n) == [k \in 1 .. n + 1 |-> IF k = 1 THEN v ELSE <<f[k - 1]>>]

IsSinglesOnto(S, s, v, f, n) ==
  /\ s \in Seq(Seq(S)) /\ Len(s) = n + 1 /\ s[1] = v
  /\ \A k \in 2 .. n + 1 : s[k] = <<f[k - 1]>>

LEMMA SinglesOntoFacts ==
  ASSUME NEW S, NEW v \in Seq(S), NEW n \in Nat, NEW f, Among(S, f, n)
  PROVE  IsSinglesOnto(S, SinglesOnto(v, f, n), v, f, n)
<1>1. ASSUME NEW k \in 1 .. n + 1 PROVE (IF k = 1 THEN v ELSE <<f[k - 1]>>) \in Seq(S)
  <2>1. CASE k = 1 BY <2>1
  <2>2. CASE k # 1
    <3>1. k - 1 \in 1 .. n BY <2>2
    <3>2. f[k - 1] \in S BY <3>1 DEF Among
    <3> QED BY <2>2, <3>2
  <2> QED BY <2>1, <2>2
<1>2. n + 1 \in Nat /\ 1 \in 1 .. n + 1 /\ \A k \in 2 .. n + 1 : k \in 1 .. n + 1 /\ k # 1
  OBVIOUS
<1> DEFINE e(k) == IF k = 1 THEN v ELSE <<f[k - 1]>>
<1>3. SinglesOnto(v, f, n) = [k \in 1 .. n + 1 |-> e(k)] BY DEF SinglesOnto
<1>4. \A k \in 1 .. n + 1 : e(k) \in Seq(S) BY <1>1
<1>5. e(1) = v /\ \A k \in 2 .. n + 1 : e(k) = <<f[k - 1]>> BY <1>2
<1> HIDE DEF e
<1> QED BY <1>2, <1>3, <1>4, <1>5 DEF IsSinglesOnto

LEMMA FlattenOnto ==
  ASSUME NEW S, NEW v \in Seq(S), NEW n \in Nat, NEW f, Among(S, f, n)
  PROVE  FlattenSeq(SinglesOnto(v, f, n)) = v \o Firsts(f, n)
<1> DEFINE A == {m \in Nat : m <= n => FlattenSeq(SinglesOnto(v, f, m)) = v \o Firsts(f, m)}
<1>1. 0 \in A
  <2>1. Firsts(f, 0) = << >> BY DEF Firsts
  <2>2. /\ SinglesOnto(v, f, 0) \in Seq(Seq(S)) /\ Len(SinglesOnto(v, f, 0)) = 0 + 1
        /\ SinglesOnto(v, f, 0)[1] = v
    <3>1. Among(S, f, 0) BY DEF Among
    <3>2. 0 \in Nat OBVIOUS
    <3>3. IsSinglesOnto(S, SinglesOnto(v, f, 0), v, f, 0) BY <3>1, <3>2, SinglesOntoFacts
    <3> QED BY <3>3 DEF IsSinglesOnto
  <2>3. << >> \in Seq(Seq(S)) /\ Len(<< >>) = 0 OBVIOUS
  <2>4. OneLonger(S, << >>, SinglesOnto(v, f, 0), v) BY <2>2, <2>3 DEF OneLonger
  <2>5. FlattenSeq(SinglesOnto(v, f, 0)) = FlattenSeq(<< >>) \o v BY <2>4, FlattenLast
  <2>6. v \o << >> = v /\ << >> \o v = v BY ConcatEmptySeq
  <2> QED BY <2>1, <2>5, <2>6, FlattenNone
<1>2. ASSUME NEW m \in Nat, m \in A PROVE m + 1 \in A
  <2> SUFFICES ASSUME m + 1 <= n
               PROVE  FlattenSeq(SinglesOnto(v, f, m + 1)) = v \o Firsts(f, m + 1)
    OBVIOUS
  <2> DEFINE last == <<f[m + 1]>>
             s == SinglesOnto(v, f, m)
             t == SinglesOnto(v, f, m + 1)
             x == Firsts(f, m)
  <2>1. /\ m <= n /\ m + 1 \in Nat /\ m + 1 \in 1 .. m + 1
        /\ f[m + 1] \in S /\ Among(S, f, m) /\ Among(S, f, m + 1)
    BY DEF Among
  <2>2. FlattenSeq(s) = v \o x BY <1>2, <2>1
  <2>a. last \in Seq(S) BY <2>1
  <2>3. OneLonger(S, s, t, last)
    <3>2. /\ s \in Seq(Seq(S)) /\ Len(s) = m + 1 /\ s[1] = v
          /\ \A k \in 2 .. m + 1 : s[k] = <<f[k - 1]>>
      <4>1. IsSinglesOnto(S, s, v, f, m) BY <2>1, SinglesOntoFacts
      <4> HIDE DEF s
      <4> QED BY <4>1 DEF IsSinglesOnto
    <3>3. /\ t \in Seq(Seq(S)) /\ Len(t) = (m + 1) + 1 /\ t[1] = v
          /\ \A k \in 2 .. (m + 1) + 1 : t[k] = <<f[k - 1]>>
      <4>1. IsSinglesOnto(S, t, v, f, m + 1)
        <5> DEFINE n1 == m + 1
        <5>1. n1 \in Nat /\ Among(S, f, n1) BY <2>1
        <5> HIDE DEF n1
        <5>2. IsSinglesOnto(S, SinglesOnto(v, f, n1), v, f, n1) BY <5>1, SinglesOntoFacts
        <5> QED BY <5>2 DEF n1
      <4> HIDE DEF t
      <4> QED BY <4>1 DEF IsSinglesOnto
    <3> HIDE DEF s, t
    <3>4. ASSUME NEW i \in 1 .. m + 1 PROVE t[i] = s[i]
      <4>1. i = 1 \/ (i \in 2 .. m + 1 /\ i \in 2 .. (m + 1) + 1) OBVIOUS
      <4> QED BY <3>2, <3>3, <4>1
    <3>5. t[(m + 1) + 1] = last
      <4>1. (m + 1) + 1 \in 2 .. (m + 1) + 1 /\ ((m + 1) + 1) - 1 = m + 1 OBVIOUS
      <4> QED BY <3>3, <4>1
    <3> HIDE DEF last
    <3> QED BY <2>a, <3>2, <3>3, <3>4, <3>5 DEF OneLonger
  <2>4. FlattenSeq(t) = FlattenSeq(s) \o last
    <3> HIDE DEF last, s, t
    <3> QED BY <2>3, FlattenLast
  <2>5. x \in Seq(S) BY <2>1, FirstsFacts
  <2>6. (v \o x) \o last = v \o (x \o last)
    <3> HIDE DEF x, last
    <3> QED BY <2>5, <2>a, ConcatAssociative
  <2>7. Firsts(f, m + 1) = x \o last BY <2>1, FirstsOneMore DEF Onto
  <2> QED BY <2>2, <2>4, <2>6, <2>7
<1>3. \A m \in Nat : m \in A
  <2> HIDE DEF A
  <2> QED BY <1>1, <1>2, Naturals
<1> QED BY <1>3

-----------------------------------------------------------------------------
(***************************************************************************)
(* What the kernels compute.  A kernel is annotated with what each phase   *)
(* of a group stores (Written), as if the phases of its items were done    *)
(* one after the other, and with what a launch leaves behind (Result).     *)
(* If the code makes that of what is there before the phase (Value), then  *)
(* whatever the order of groups and warps, a warp of a kernel that does    *)
(* not race loads and stores just these values.                            *)
(***************************************************************************)
StoredBy(l, g, x) ==
  \E i \in ItemOf(l) : \E q \in Nat : q < Phases(l, g, i) /\ x \in DOMAIN Code(l, g, i, q)

StoredIn(l, g, p, x) ==
  \E i \in ItemOf(l) : p < Phases(l, g, i) /\ x \in DOMAIN Code(l, g, i, p)

Zip_Result(x) == <<x[2] + 1, 100 + x[2] + 1>>

\* What an element of the output of Map is made of.
MapSource(c, n) ==
  CASE c.form = "indices" -> n + Offset(c)
    [] c.form = "points" ->
         (n \div c.cols + Offset(c)) * CeilToMultipleOf(c.cols, c.side) + (n % c.cols)
    [] c.form = "points, no result" ->
         (n \div c.cols) * CeilToMultipleOf(c.cols, c.side) + (n % c.cols)
    [] c.form \in {"elements", "elements, no result", "indices, no result"} -> n

Map_Result(c, x) == <<MapSource(c, x[2]) + 1>>

\* The labels of the left matrix and the right one, and the first m of row r and
\* of column k, one of each at a time.
LeftLabel(c, r, k)  == r * c.dimension + k + 1
RightLabel(c, k, n) == 100 + k * c.width + n + 1

ProductAt(c, r, k, n) ==
  IF n % 2 = 1 THEN LeftLabel(c, r, n \div 2) ELSE RightLabel(c, n \div 2 - 1, k)

ProductTo(c, r, k, m) == [n \in 1 .. 2 * m |-> ProductAt(c, r, k, n)]

\* Where segment q of a row begins.
UpTo(l, q) == Min({q * l.D, l.dimension})

\* Segments and tiles, in phases: a piece of each matrix, and their product.
AllPairs_Written(c, l, g, p, x) ==
  LET tile == (p - 1) \div 2
      q    == tile \div Tiles(l, g, 0)
      s    == tile % Tiles(l, g, 0)
      y    == x[2] - l.R * l.D
  IN  CASE p = 0 -> << >>
        [] p # 0 /\ p % 2 = 1 /\ y < 0 ->
             <<LeftLabel(c, row(l, g, 0) + x[2] \div l.D + s * l.R, q * l.D + (x[2] % l.D))>>
        [] p # 0 /\ p % 2 = 1 /\ ~ (y < 0) ->
             <<RightLabel(c, q * l.D + y \div l.C, col(l, g, 0) + (y % l.C))>>
        [] p # 0 /\ p % 2 # 1 ->
             ProductTo(c, x[2] \div c.width, x[2] % c.width, UpTo(l, q + 1))

AllPairs_Result(c, x) == ProductTo(c, x[2] \div c.width, x[2] % c.width, c.dimension)

\* What an item of MapOverlap sees at row y of the input and column x.
InputLabel(c, n) ==
  IF n \in 0 .. (c.rows + 2 * c.range) * c.cols - 1 THEN n + 1 ELSE 0

SeenLabel(c, y, x) ==
  CASE x \in 0 .. c.cols - 1 -> InputLabel(c, y * c.cols + x)
    [] x \notin 0 .. c.cols - 1 /\ c.neutral -> -1
    [] x \notin 0 .. c.cols - 1 /\ ~ c.neutral ->
         InputLabel(c, y * c.cols + (IF x < 0 THEN 0 ELSE c.cols - 1))

\* The neighbourhood of the element at row y of the buffer and column x.
Stencil(c, y, x) ==
  LET w == 2 * c.range + 1
  IN  [n \in 1 .. w * w |->
         SeenLabel(c, y + (n - 1) \div w - c.range, x + ((n - 1) % w) - c.range)]

Overlap_Result(c, x) == Stencil(c, x[2] \div c.cols, x[2] % c.cols)

\* Both phases that fill the tile store what is at a cell's place.
TileLabel(c, l, g, n) ==
  SeenLabel(c, (g \div l.across) * l.side + n \div TileWidth(l),
               (g % l.across) * l.side + (n % TileWidth(l)) - l.range)

Overlap_Written(c, l, g, p, x) ==
  IF p = 2 THEN Overlap_Result(c, x) ELSE <<TileLabel(c, l, g, x[2])>>

\* Element y of the input of Reduce; an item at the end of it reads what is behind.
GivenLabel(c, y) == IF y < c.n THEN y + 1 ELSE 0

\* What item t of the first launch leaves, and has of it in the second one ...
FirstFold(c, t) ==
  [k \in 1 .. Max({1, CeilDiv(c.n - t, GlobalSize)}) |->
     GivenLabel(c, t + (k - 1) * GlobalSize)]

SecondFold(c, t) ==
  LET l == ReduceSecond(c)
  IN  FlattenSeq([k \in 1 .. Max({1, CeilDiv(l.size - t, l.items)}) |->
                    FirstFold(c, t + (k - 1) * l.items)])

\* ... and what the items have after so many rounds.
Halved(l, f, size) ==
  [t \in ItemOf(l) |-> IF t < size \div 2 THEN f[t] \o f[t + CeilDiv(size, 2)] ELSE f[t]]

RoundFold(c) ==
  LET l == ReduceSecond(c)
      fold[n \in Nat] ==
        IF n = 0 THEN [t \in ItemOf(l) |-> SecondFold(c, t)]
        ELSE Halved(l, fold[n - 1], Remaining(l)[n - 1])
  IN  fold

Reduce_Result(c, k, x) ==
  IF k = 1 THEN FirstFold(c, x[2]) ELSE RoundFold(c)[Rounds(ReduceSecond(c))][0]

Reduce_Written(c, k, p, x) ==
  IF p > Rounds(ReduceSecond(c)) THEN Reduce_Result(c, k, x) ELSE RoundFold(c)[p][x[2]]

\* Scan is annotated with what its code does, if done phase by phase and launch by
\* launch: memory is a function of the cells, what a phase makes of it ...
Cells == Int \X Int

Initially(c, x) ==
  IF x[1] \in DOMAIN Buffers(c) /\ x[2] \in DOMAIN Buffers(c)[x[1]]
  THEN Buffers(c)[x[1]][x[2]] ELSE JunkValue

Within(c, l, x) ==
  IF x[1] = Shared THEN x[2] \in 0 .. l.local - 1 ELSE x[2] \in DOMAIN Buffers(c)[x[1]]

PhaseCode(l, g, p, x) ==
  LET i == CHOOSE j \in ItemOf(l) : p < Phases(l, g, j) /\ x \in DOMAIN Code(l, g, j, p)
  IN  Code(l, g, i, p)[x]

Gathered(c, l, v, cells) ==
  FlattenSeq([n \in DOMAIN cells |-> IF Within(c, l, cells[n]) THEN v[cells[n]] ELSE JunkValue])

AfterPhase(c, l, g, p, v) ==
  [x \in Cells |->
     IF StoredIn(l, g, p, x) THEN Gathered(c, l, v, PhaseCode(l, g, p, x)) ELSE v[x]]

\* ... after so many phases of a group that finds m, ...
Entering(m) == [x \in Cells |-> IF x[1] = Shared THEN JunkValue ELSE m[x]]

AfterPhases(c, l, g, m) ==
  LET v[p \in Nat] == IF p = 0 THEN Entering(m) ELSE AfterPhase(c, l, g, p - 1, v[p - 1]) IN v

\* ... after a launch, each cell by the group that stores it, and after k launches.
StoringGroup(l, x) == CHOOSE g \in GroupOf(l) : StoredBy(l, g, x)

AfterLaunch(c, l, m) ==
  [x \in Cells |->
     IF \E g \in GroupOf(l) : StoredBy(l, g, x)
     THEN AfterPhases(c, l, StoringGroup(l, x), m)[Phases(l, StoringGroup(l, x), 0)][x]
     ELSE m[x]]

AfterLaunches(c) ==
  LET m[k \in 0 .. Len(Launches(c))] ==
        IF k = 0 THEN [x \in Cells |-> Initially(c, x)]
        ELSE AfterLaunch(c, Launches(c)[k], m[k - 1])
  IN  m

\* What launch k leaves in x, if it stores it.
Result(c, k, x) ==
  CASE c.skeleton = "zip"      -> Zip_Result(x)
    [] c.skeleton = "map"      -> Map_Result(c, x)
    [] c.skeleton = "allpairs" -> AllPairs_Result(c, x)
    [] c.skeleton = "overlap"  -> Overlap_Result(c, x)
    [] c.skeleton = "reduce"   -> Reduce_Result(c, k, x)
    [] c.skeleton = "scan"     -> AfterLaunches(c)[k][x]

\* What phase p of group g stores in x.
Written(c, k, g, p, x) ==
  CASE OnePhase(Launches(c)[k]) -> Result(c, k, x)
    [] ~ OnePhase(Launches(c)[k]) /\ c.skeleton = "allpairs" ->
         AllPairs_Written(c, Launches(c)[k], g, p, x)
    [] ~ OnePhase(Launches(c)[k]) /\ c.skeleton = "overlap" ->
         Overlap_Written(c, Launches(c)[k], g, p, x)
    [] ~ OnePhase(Launches(c)[k]) /\ c.skeleton = "reduce" -> Reduce_Written(c, k, p, x)
    [] ~ OnePhase(Launches(c)[k]) /\ c.skeleton \notin {"allpairs", "overlap", "reduce"} ->
         AfterPhases(c, Launches(c)[k], g, AfterLaunches(c)[k - 1])[p + 1][x]

\* The last launch before k that stores x, and the values before launch k.
StoresOf(c, k, x) ==
  {j \in DOMAIN Launches(c) : j < k /\ \E g \in GroupOf(Launches(c)[j]) :
                                         StoredBy(Launches(c)[j], g, x)}

Latest(S) == CHOOSE j \in S : \A i \in S : i <= j

Start(c, k, x) ==
  IF StoresOf(c, k, x) = {} THEN Initially(c, x)
  ELSE Result(c, Latest(StoresOf(c, k, x)), x)

\* The last phase before p that stores x, and the values before phase p.
LastIn(l, g, p, x) ==
  CHOOSE q \in 0 .. p - 1 : /\ StoredIn(l, g, q, x)
                            /\ \A r \in q + 1 .. p - 1 : ~ StoredIn(l, g, r, x)

Value(c, k, g, p, x) ==
  LET l == Launches(c)[k]
  IN  IF \E q \in 0 .. p - 1 : StoredIn(l, g, q, x)
      THEN Written(c, k, g, LastIn(l, g, p, x), x)
      ELSE IF x[1] = Shared THEN JunkValue ELSE Start(c, k, x)

-----------------------------------------------------------------------------
\* What only g stores.  All groups have local memory of their own.
Alone(l, g, x) == x[1] = Shared \/ \A h \in GroupOf(l) : h # g => ~ StoredBy(l, h, x)

\* What an item finds in a cell.
Found(c, k, g, p, x) ==
  IF Within(c, Launches(c)[k], x) THEN Value(c, k, g, p, x) ELSE JunkValue

\* All cells are numbered, and in some buffer.
Addressed(c, l) ==
  \A g \in GroupOf(l), i \in ItemOf(l) : \A p \in Nat : p < Phases(l, g, i) =>
    \A x \in DOMAIN Code(l, g, i, p) :
      /\ x \in Int \X Int
      /\ Range(Code(l, g, i, p)[x]) \subseteq (DOMAIN Buffers(c) \cup {Shared}) \X Int

\* The values fit the launch.
Begins(c, k) ==
  LET l == Launches(c)[k]
  IN  \A g \in GroupOf(l) : \A x \in Int \X Int :
        Value(c, k, g, 0, x) = IF x[1] = Shared THEN JunkValue ELSE Start(c, k, x)

Proceeds(c, k) ==
  LET l == Launches(c)[k]
  IN  \A g \in GroupOf(l) : \A p \in Nat :
        /\ \A i \in ItemOf(l) : p < Phases(l, g, i) =>
             \A x \in DOMAIN Code(l, g, i, p) :
               Value(c, k, g, p + 1, x) =
                 FlattenSeq([n \in DOMAIN Code(l, g, i, p)[x] |->
                               Found(c, k, g, p, Code(l, g, i, p)[x][n])])
        /\ \A x \in Int \X Int : Alone(l, g, x) /\ ~ StoredIn(l, g, p, x) =>
             Value(c, k, g, p + 1, x) = Value(c, k, g, p, x)

\* A phase that all items of the group have left behind.
Ends(c, k) ==
  LET l == Launches(c)[k]
  IN  \A b \in DOMAIN Buffers(c) : \A n \in DOMAIN Buffers(c)[b] :
        LET x == Cell(b, n)
        IN  /\ \A g \in GroupOf(l) : \A p \in Nat :
                 StoredBy(l, g, x) /\ (\A i \in ItemOf(l) : Phases(l, g, i) <= p) =>
                   Start(c, k + 1, x) = Value(c, k, g, p, x)
            /\ (\A g \in GroupOf(l) : ~ StoredBy(l, g, x)) =>
                 Start(c, k + 1, x) = Start(c, k, x)

Explained(c) ==
  /\ \A b \in DOMAIN Buffers(c) : \A n \in DOMAIN Buffers(c)[b] :
       Start(c, 1, Cell(b, n)) = Buffers(c)[b][n]
  /\ DOMAIN Buffers(c) \subseteq Int \ {Shared}
  /\ \A b \in DOMAIN Buffers(c) : DOMAIN Buffers(c)[b] \subseteq Int
  /\ \A k \in DOMAIN Launches(c) :
       LET l == Launches(c)[k]
       IN  Addressed(c, l) /\ Apart(c, l) /\ Begins(c, k) /\ Proceeds(c, k) /\ Ends(c, k)

\* How far the warps of a group are, if the stores of x before phase p are done
\* and no others.
Stage(c, l, g, done, p, x) ==
  \A i \in ItemOf(l) : \A q \in Nat :
    q < Phases(l, g, i) /\ x \in DOMAIN Code(l, g, i, q) =>
      (q < p <=> q < done[i \div c.warp])

\* The memory content of buffer buf has the values of g's cells.
Valued(c, k, g, done, buf, content) ==
  \A n \in DOMAIN content : \A p \in Nat :
    /\ Alone(Launches(c)[k], g, Cell(buf, n))
    /\ Stage(c, Launches(c)[k], g, done, p, Cell(buf, n))
    => content[n] = Value(c, k, g, p, Cell(buf, n))

\* A value lasts while nobody stores.
LEMMA ValueLasts ==
  ASSUME NEW c, NEW k, Proceeds(c, k), NEW g \in GroupOf(Launches(c)[k]),
         NEW x \in Int \X Int, Alone(Launches(c)[k], g, x),
         NEW a \in Nat, NEW b \in Nat, a <= b,
         \A q \in Nat : a <= q /\ q < b => ~ StoredIn(Launches(c)[k], g, q, x)
  PROVE  Value(c, k, g, b, x) = Value(c, k, g, a, x)
<1> DEFINE S == {d \in Nat : a + d <= b => Value(c, k, g, a + d, x) = Value(c, k, g, a, x)}
<1>1. 0 \in S OBVIOUS
<1>2. ASSUME NEW d \in Nat, d \in S PROVE d + 1 \in S
  <2> SUFFICES ASSUME a + (d + 1) <= b
               PROVE  Value(c, k, g, a + (d + 1), x) = Value(c, k, g, a, x)
    OBVIOUS
  <2>1. a + d <= b /\ a + d < b /\ a <= a + d /\ a + d \in Nat OBVIOUS
  <2>2. ~ StoredIn(Launches(c)[k], g, a + d, x) BY <2>1
  <2>3. Value(c, k, g, (a + d) + 1, x) = Value(c, k, g, a + d, x)
    BY <2>1, <2>2 DEF Proceeds
  <2>4. a + (d + 1) = (a + d) + 1 OBVIOUS
  <2> QED BY <1>2, <2>1, <2>3, <2>4
<1> HIDE DEF S
<1>3. b - a \in S BY <1>1, <1>2, Naturals
<1>4. a + (b - a) = b /\ b - a \in Nat OBVIOUS
<1> QED BY <1>3, <1>4 DEF S

\* What a warp that runs touches is as it should be before its phase.
LEMMA TouchedAtStage ==
  ASSUME NEW c, NEW l, Shape(c, l), Apart(c, l), NEW g \in GroupOf(l), NEW G,
         G.phase \in [WarpOf(c, l) -> Nat], Met(c, l, G),
         NEW w \in WarpOf(c, l), Runs(c, l, G, w),
         NEW i \in InWarp(c, l, w), G.phase[w] < Phases(l, g, i),
         NEW y \in Touched(Code(l, g, i, G.phase[w]))
  PROVE  Alone(l, g, y) /\ Stage(c, l, g, G.phase, G.phase[w], y)
<1> DEFINE p == G.phase[w]
<1>0. p \in Nat /\ i \in ItemOf(l) /\ i \div c.warp = w BY DEF InWarp
<1>1. Alone(l, g, y)
  <2> SUFFICES ASSUME y[1] # Shared, NEW h \in GroupOf(l), h # g, StoredBy(l, h, y)
               PROVE  FALSE
    BY DEF Alone
  <2>1. PICK j \in ItemOf(l), q \in Nat : q < Phases(l, h, j) /\ y \in DOMAIN Code(l, h, j, q)
    BY DEF StoredBy
  <2>2. y \notin Touched(Code(l, g, i, p)) BY <1>0, <2>1 DEF Apart
  <2> QED BY <2>2
<1>2. ASSUME NEW j \in ItemOf(l), NEW q \in Nat, q < Phases(l, g, j),
             y \in DOMAIN Code(l, g, j, q), j \div c.warp # w
      PROVE  ~ Together(l, q, p)
  BY <1>0, <1>2 DEF Apart
<1>3. ASSUME NEW j \in ItemOf(l), NEW q \in Nat, q < Phases(l, g, j),
             y \in DOMAIN Code(l, g, j, q)
      PROVE  q < p <=> q < G.phase[j \div c.warp]
  <2> DEFINE v == j \div c.warp
  <2>1. v \in WarpOf(c, l) BY WarpsOfItems
  <2> HIDE DEF v
  <2> SUFFICES q < p <=> q < G.phase[v] BY DEF v
  <2>2. G.phase[v] \in Nat BY <2>1
  <2>3. CASE v = w BY <2>3
  <2>4. CASE v # w
    <3>1. PICK b \in Nat : Barrier(l, b) /\ ((q < b /\ b <= p) \/ (p < b /\ b <= q))
      BY <1>2, <1>3, <2>4 DEF v, Together
    <3>2. CASE q < b /\ b <= p
      <4>1. CASE b < p
        <5>1. b <= G.phase[v] BY <2>1, <3>1, <4>1 DEF Met
        <5> QED BY <1>0, <2>2, <3>2, <5>1
      <4>2. CASE b = p
        <5>1. ~ (G.phase[v] < p) BY <2>1, <3>1, <4>2 DEF Runs, Waits
        <5> QED BY <1>0, <2>2, <3>2, <4>2, <5>1
      <4> QED BY <1>0, <3>2, <4>1, <4>2
    <3>3. CASE p < b /\ b <= q
      <4>1. ~ (b < G.phase[v]) BY <1>0, <2>1, <3>1, <3>3 DEF Met
      <4> QED BY <1>0, <2>2, <3>3, <4>1
    <3> QED BY <3>1, <3>2, <3>3
  <2> QED BY <2>3, <2>4
<1> QED BY <1>1, <1>3 DEF Stage

\* After a store, nobody has stored or will store the cell in the phases up to p.
LEMMA StoredAtStage ==
  ASSUME NEW c, NEW l, Shape(c, l), Apart(c, l), NEW g \in GroupOf(l), NEW G,
         G.phase \in [WarpOf(c, l) -> Nat], Met(c, l, G),
         NEW w \in WarpOf(c, l),
         NEW i \in InWarp(c, l, w), G.phase[w] < Phases(l, g, i),
         NEW x \in DOMAIN Code(l, g, i, G.phase[w]), NEW p \in Nat,
         Stage(c, l, g, [G.phase EXCEPT ![w] = @ + 1], p, x)
  PROVE  /\ G.phase[w] + 1 <= p
         /\ \A q \in Nat : G.phase[w] + 1 <= q /\ q < p => ~ StoredIn(l, g, q, x)
<1> DEFINE a == G.phase[w]
           done == [G.phase EXCEPT ![w] = @ + 1]
<1>0. a \in Nat /\ i \in ItemOf(l) /\ i \div c.warp = w BY DEF InWarp
<1>1. done[w] = a + 1 /\ \A v \in WarpOf(c, l) : v # w => done[v] = G.phase[v] OBVIOUS
<1> HIDE DEF done
<1>2. a < p
  <2>1. a < p <=> a < done[w] BY <1>0 DEF Stage, done
  <2> QED BY <2>1, <1>0, <1>1
<1>3. ASSUME NEW q \in Nat, a + 1 <= q, q < p, StoredIn(l, g, q, x) PROVE FALSE
  <2>1. PICK j \in ItemOf(l) : q < Phases(l, g, j) /\ x \in DOMAIN Code(l, g, j, q)
    BY <1>3 DEF StoredIn
  <2> DEFINE v == j \div c.warp
  <2>2. v \in WarpOf(c, l) BY WarpsOfItems
  <2>3. q < done[v] BY <1>3, <2>1 DEF Stage, done
  <2>4. v # w BY <1>0, <1>1, <1>3, <2>3
  <2>5. q < G.phase[v] /\ G.phase[v] \in Nat BY <1>1, <2>2, <2>3, <2>4
  <2>6. Together(l, a, q)
    <3> SUFFICES ASSUME NEW b \in Nat, Barrier(l, b), a < b, b <= q PROVE FALSE
      BY <1>0, <1>3 DEF Together
    <3>1. b < G.phase[v] BY <2>5
    <3>2. b <= a BY <2>2, <3>1 DEF Met
    <3> QED BY <1>0, <3>2
  <2>7. x \in Touched(Code(l, g, j, q)) BY <2>1 DEF Touched
  <2>8. x \notin Touched(Code(l, g, j, q)) BY <1>0, <2>1, <2>4, <2>6 DEF Apart
  <2> QED BY <2>7, <2>8
<1> QED BY <1>0, <1>2, <1>3

\* A warp's stores are the values after its phase.
LEMMA StoreKeepsValues ==
  ASSUME NEW c, NEW k, NEW l, l = Launches(c)[k], Shape(c, l), Apart(c, l), Proceeds(c, k),
         NEW g \in GroupOf(l), NEW G, G.phase \in [WarpOf(c, l) -> Nat], Met(c, l, G),
         NEW w \in WarpOf(c, l), NEW held,
         DOMAIN held = FetchOf(c, l, g, w, G.phase[w]).writes,
         \A x \in DOMAIN held : held[x] = Value(c, k, g, G.phase[w] + 1, x),
         NEW buf \in Int, NEW content, DOMAIN content \subseteq Int, Valued(c, k, g, G.phase, buf, content)
  PROVE  Valued(c, k, g, [G.phase EXCEPT ![w] = @ + 1], buf, Overwrite(content, held, buf))
<1> DEFINE a == G.phase[w]
           done == [G.phase EXCEPT ![w] = @ + 1]
<1>0. a \in Nat OBVIOUS
<1>1. DOMAIN Overwrite(content, held, buf) = DOMAIN content BY DEF Overwrite
<1> SUFFICES ASSUME NEW n \in DOMAIN content, NEW p \in Nat,
                    Alone(l, g, Cell(buf, n)), Stage(c, l, g, done, p, Cell(buf, n))
             PROVE  Overwrite(content, held, buf)[n] = Value(c, k, g, p, Cell(buf, n))
  BY <1>1 DEF Valued
<1> DEFINE x == Cell(buf, n)
<1>2. x \in Int \X Int BY DEF Cell
<1>3. Overwrite(content, held, buf)[n] = IF x \in DOMAIN held THEN held[x] ELSE content[n] BY DEF Overwrite
<1>4. x \in DOMAIN held <=> \E i \in InWarp(c, l, w) :
        a < Phases(l, g, i) /\ x \in DOMAIN Code(l, g, i, a)
  BY Fetched
<1> HIDE DEF x
<1>5. CASE x \in DOMAIN held
  <2>1. PICK i \in InWarp(c, l, w) : a < Phases(l, g, i) /\ x \in DOMAIN Code(l, g, i, a)
    BY <1>4, <1>5
  <2>2. /\ a + 1 <= p
        /\ \A q \in Nat : a + 1 <= q /\ q < p => ~ StoredIn(l, g, q, x)
    BY <2>1, StoredAtStage DEF x
  <2>3. a + 1 \in Nat BY <1>0
  <2> HIDE DEF a
  <2>4. Value(c, k, g, p, x) = Value(c, k, g, a + 1, x)
    BY <1>2, <2>2, <2>3, ValueLasts DEF x
  <2> QED BY <1>3, <1>5, <2>4 DEF x, a
<1>6. CASE x \notin DOMAIN held
  <2>1. Stage(c, l, g, G.phase, p, x)
    <3> SUFFICES ASSUME NEW j \in ItemOf(l), NEW q \in Nat, q < Phases(l, g, j),
                        x \in DOMAIN Code(l, g, j, q)
                 PROVE  q < p <=> q < G.phase[j \div c.warp]
      BY DEF Stage
    <3> DEFINE v == j \div c.warp
    <3>1. v \in WarpOf(c, l) BY WarpsOfItems
    <3>2. q < p <=> q < done[v] BY DEF Stage, x
    <3>3. CASE v # w BY <3>1, <3>2, <3>3
    <3>4. CASE v = w
      <4>1. q # a BY <1>4, <1>6, <3>4 DEF InWarp
      <4>2. done[v] = a + 1 BY <3>4
      <4> QED BY <1>0, <3>2, <3>4, <4>1, <4>2
    <3> QED BY <3>3, <3>4
  <2>2. content[n] = Value(c, k, g, p, x) BY <2>1 DEF Valued, x
  <2> QED BY <1>3, <1>6, <2>2 DEF x
<1> QED BY <1>5, <1>6

\* They are not of other groups' cells.
LEMMA HeldIsStored ==
  ASSUME NEW c, NEW l, NEW g, NEW w, NEW p \in Nat,
         NEW held, DOMAIN held = FetchOf(c, l, g, w, p).writes
  PROVE  \A x \in DOMAIN held : StoredBy(l, g, x)
<1> TAKE x \in DOMAIN held
<1>1. PICK i \in InWarp(c, l, w) : p < Phases(l, g, i) /\ x \in DOMAIN Code(l, g, i, p)
  BY Fetched
<1> QED BY <1>1 DEF StoredBy, InWarp

LEMMA StoreSparesCells ==
  ASSUME NEW l, NEW g, NEW held, \A x \in DOMAIN held : StoredBy(l, g, x),
         NEW buf, NEW content
  PROVE  \A n \in DOMAIN content : ~ StoredBy(l, g, Cell(buf, n)) =>
           Overwrite(content, held, buf)[n] = content[n]
BY DEF Overwrite

LEMMA StoreSparesOthers ==
  ASSUME NEW c, NEW k, NEW l, l = Launches(c)[k], NEW g \in GroupOf(l),
         NEW held, \A x \in DOMAIN held : StoredBy(l, g, x),
         NEW buf \in Int \ {Shared}, NEW content, NEW h \in GroupOf(l), h # g,
         NEW done, Valued(c, k, h, done, buf, content)
  PROVE  Valued(c, k, h, done, buf, Overwrite(content, held, buf))
<1>1. DOMAIN Overwrite(content, held, buf) = DOMAIN content BY DEF Overwrite
<1> SUFFICES ASSUME NEW n \in DOMAIN content, NEW q \in Nat,
                    Alone(l, h, Cell(buf, n)), Stage(c, l, h, done, q, Cell(buf, n))
             PROVE  Overwrite(content, held, buf)[n] = Value(c, k, h, q, Cell(buf, n))
  BY <1>1 DEF Valued
<1>2. Cell(buf, n)[1] = buf BY DEF Cell
<1>3. ~ StoredBy(l, g, Cell(buf, n)) BY <1>2 DEF Alone
<1>4. content[n] = Value(c, k, h, q, Cell(buf, n)) BY DEF Valued
<1> QED BY <1>3, <1>4, StoreSparesCells

-----------------------------------------------------------------------------
(***************************************************************************)
(* The state.                                                              *)
(***************************************************************************)
\* How far a group is in the end.
AllDone(c, l, g) == [w \in WarpOf(c, l) |-> LastPhase(c, l, g, w)]

\* Which launch is at the head of todo.
Turn == Len(Launches(call)) - Len(todo) + 1

Progress(g) ==
  IF g \in left THEN [w \in WarpOf(call, Launch) |-> 0]
  ELSE IF g \in DOMAIN running THEN running[g].phase
  ELSE AllDone(call, Launch, g)

\* The memories have the values of the groups' progress ...
MemoryRight ==
  \A b \in DOMAIN mem :
    /\ \A g \in GroupOf(Launch) : Valued(call, Turn, g, Progress(g), b, mem[b])
    /\ \A n \in DOMAIN mem[b] :
         (\A g \in GroupOf(Launch) : ~ StoredBy(Launch, g, Cell(b, n))) =>
           mem[b][n] = Start(call, Turn, Cell(b, n))

LocalRight(g) == Valued(call, Turn, g, running[g].phase, Shared, running[g].local)

\* ... and the warps hold those of their next phase.
HeldRight(g) ==
  \A w \in WarpOf(call, Launch) : running[g].held[w] # Nothing =>
    \A x \in DOMAIN running[g].held[w] :
      running[g].held[w][x] = Value(call, Turn, g, running[g].phase[w] + 1, x)

Computing == MemoryRight /\ \A g \in DOMAIN running : LocalRight(g) /\ HeldRight(g)

Finishing ==
  \A b \in DOMAIN mem : \A n \in DOMAIN mem[b] :
    mem[b][n] = Start(call, Turn, Cell(b, n))

InTurn ==
  /\ Len(todo) <= Len(Launches(call))
  /\ \A j \in 1 .. Len(todo) : todo[j] = Launches(call)[Turn - 1 + j]

VInv ==
  call # None /\ Explained(call) =>
    InTurn /\ IF todo = << >> THEN Finishing ELSE Computing

\* What is known of the launch that runs.
LEMMA InLaunch ==
  ASSUME AllScheduled, CallOK, InTurn, call # None, Explained(call), todo # << >>
  PROVE  /\ Turn \in DOMAIN Launches(call) /\ Launch = Launches(call)[Turn]
         /\ Shape(call, Launch) /\ Even(Launch)
         /\ Addressed(call, Launch) /\ Apart(call, Launch)
         /\ Begins(call, Turn) /\ Proceeds(call, Turn) /\ Ends(call, Turn)
         /\ Turn \in Nat
         /\ DOMAIN mem \subseteq Int \ {Shared}
         /\ \A b \in DOMAIN mem : DOMAIN mem[b] \subseteq Int
<1>1. call \in Requests /\ todo \in Seq(LaunchOf(call))
      /\ DOMAIN mem = DOMAIN Buffers(call)
      /\ \A b \in DOMAIN mem : DOMAIN mem[b] = DOMAIN Buffers(call)[b]
  BY DEF CallOK
<1>2. Launches(call) \in Seq(LaunchOf(call)) /\ Launch \in LaunchOf(call)
  <2>1. Launch \in LaunchOf(call) BY <1>1, HeadTailProperties DEF Launch
  <2> QED BY <1>1, <2>1 DEF AllScheduled, Scheduled
<1>3. Shape(call, Launch) /\ Even(Launch) BY <1>1, <1>2 DEF AllScheduled, Scheduled
<1> DEFINE all == Launches(call)
           S == LaunchOf(call)
<1> HIDE DEF all, S
<1>4. /\ todo \in Seq(S) /\ all \in Seq(S) /\ todo # << >> /\ Len(todo) <= Len(all)
      /\ \A j \in 1 .. Len(todo) : todo[j] = all[Turn - 1 + j]
      /\ Turn = Len(all) - Len(todo) + 1
  BY <1>1, <1>2 DEF InTurn, Turn, all, S
<1>5. Len(todo) \in Nat /\ Len(all) \in Nat /\ Len(todo) # 0 BY <1>4, EmptySeq, LenProperties
<1>6. Turn \in 1 .. Len(all) /\ Turn \in Nat BY <1>4, <1>5
<1>7. todo[1] = all[Turn - 1 + 1] /\ Turn - 1 + 1 = Turn BY <1>4, <1>5, <1>6
<1>8. Launch = todo[1] BY <1>4 DEF Launch
<1>9. Turn \in DOMAIN all BY <1>4, <1>6
<1>10. Turn \in DOMAIN Launches(call) /\ Launch = Launches(call)[Turn]
  BY <1>7, <1>8, <1>9 DEF all
<1>11. /\ Addressed(call, Launch) /\ Apart(call, Launch)
       /\ Begins(call, Turn) /\ Proceeds(call, Turn) /\ Ends(call, Turn)
  BY <1>10 DEF Explained
<1>12. /\ DOMAIN mem \subseteq Int \ {Shared}
       /\ \A b \in DOMAIN mem : DOMAIN mem[b] \subseteq Int
  BY <1>1 DEF Explained
<1> QED BY <1>3, <1>6, <1>10, <1>11, <1>12

\* A warp loads the values before its phase, and combines them to those after it.
LEMMA LoadsValues ==
  ASSUME AllScheduled, KInv, call # None, Explained(call), InTurn, Computing,
         NEW g \in DOMAIN running, NEW w \in Warps, Active(g, w),
         NEW i \in DOMAIN running[g].now[w].codes,
         NEW x \in DOMAIN running[g].now[w].codes[i]
  PROVE  Combined(g, running[g].now[w].codes[i][x])
           = Value(call, Turn, g, running[g].phase[w] + 1, x)
<1> DEFINE c == call
           l == Launch
           k == Turn
           G == running[g]
           p == G.phase[w]
           cells == Code(l, g, i, p)[x]
<1>1. Sane(c, l, g, G) /\ g \in Groups(todo) BY DEF KInv, GroupsOK
<1>2. todo # << >> BY <1>1 DEF Groups
<1>3. /\ l = Launches(c)[k] /\ Shape(c, l) /\ Addressed(c, l) /\ Apart(c, l)
      /\ Proceeds(c, k)
      /\ DOMAIN mem = DOMAIN Buffers(c)
      /\ \A b \in DOMAIN mem : DOMAIN mem[b] = DOMAIN Buffers(c)[b]
  BY <1>2, InLaunch DEF KInv, CallOK
<1>4. g \in GroupOf(l) /\ p \in Nat /\ i \in InWarp(c, l, w) /\ p < Phases(l, g, i)
      /\ G.now[w].codes[i] = Code(l, g, i, p)
  BY NowOf
<1>5. w \in WarpOf(c, l) /\ Runs(c, l, G, w) BY OfTheState
<1>6. G.phase \in [WarpOf(c, l) -> Nat] /\ Met(c, l, G) /\ DOMAIN G.local = 0 .. l.local - 1
  BY <1>1 DEF Sane, GroupType
<1>7. i \in ItemOf(l) BY <1>4 DEF InWarp
<1>8. x \in DOMAIN Code(l, g, i, p) BY <1>4
<1>9. Value(c, k, g, p + 1, x)
        = FlattenSeq([n \in DOMAIN cells |-> Found(c, k, g, p, cells[n])])
  BY <1>3, <1>4, <1>7, <1>8 DEF Proceeds
<1>10. ASSUME NEW n \in DOMAIN cells PROVE ValueAt(g, cells[n]) = Found(c, k, g, p, cells[n])
  <2> DEFINE y == cells[n]
  <2>1. y \in Range(cells) BY DEF Range
  <2>2. y \in (DOMAIN Buffers(c) \cup {Shared}) \X Int
    BY <1>3, <1>4, <1>7, <1>8, <2>1 DEF Addressed
  <2>3. y \in Touched(Code(l, g, i, p)) BY <1>8, <2>1 DEF Touched, Reads
  <2> HIDE DEF y, cells
  <2>4. y = Cell(y[1], y[2]) /\ y[1] \in DOMAIN Buffers(c) \cup {Shared} /\ y[2] \in Int
    BY <2>2 DEF Cell
  <2>5. Alone(l, g, y) /\ Stage(c, l, g, G.phase, p, y)
    BY <1>3, <1>4, <1>5, <1>6, <2>3, TouchedAtStage
  <2>6. CASE y[1] = Shared
    <3>1. LocalRight(g) BY DEF Computing
    <3>2. y[2] \in DOMAIN G.local => G.local[y[2]] = Value(c, k, g, p, y)
      BY <1>3, <1>4, <2>4, <2>5, <2>6, <3>1 DEF LocalRight, Valued
    <3> QED BY <1>3, <1>6, <2>6, <3>2 DEF ValueAt, Found, Within, y
  <2>7. CASE y[1] # Shared
    <3> DEFINE b == y[1]
    <3>1. b \in DOMAIN mem BY <1>3, <2>4, <2>7
    <3>2. Valued(c, k, g, Progress(g), b, mem[b]) BY <1>4, <3>1 DEF Computing, MemoryRight
    <3>3. Progress(g) = G.phase BY <1>1 DEF Progress, KInv, GroupsOK
    <3>4. y[2] \in DOMAIN mem[b] => mem[b][y[2]] = Value(c, k, g, p, y)
      BY <1>3, <1>4, <2>4, <2>5, <3>2, <3>3 DEF Valued
    <3> QED BY <1>3, <2>7, <3>1, <3>4 DEF ValueAt, Found, Within, y
  <2> QED BY <2>6, <2>7
<1>11. Combined(g, cells) = FlattenSeq([n \in DOMAIN cells |-> Found(c, k, g, p, cells[n])])
  <2> HIDE DEF cells
  <2>1. [n \in DOMAIN cells |-> ValueAt(g, cells[n])]
          = [n \in DOMAIN cells |-> Found(c, k, g, p, cells[n])]
    BY <1>10
  <2> QED BY <2>1 DEF Combined
<1> QED BY <1>4, <1>9, <1>11

\* Nothing is stored yet, or everything is.
LEMMA BeginsValued ==
  ASSUME NEW c, NEW k, NEW l, l = Launches(c)[k], Shape(c, l), Proceeds(c, k),
         NEW g \in GroupOf(l), NEW buf \in Int, NEW content, DOMAIN content \subseteq Int,
         \A n \in DOMAIN content : content[n] = Value(c, k, g, 0, Cell(buf, n))
  PROVE  Valued(c, k, g, [w \in WarpOf(c, l) |-> 0], buf, content)
<1> DEFINE done == [w \in WarpOf(c, l) |-> 0]
<1> SUFFICES ASSUME NEW n \in DOMAIN content, NEW p \in Nat,
                    Alone(l, g, Cell(buf, n)), Stage(c, l, g, done, p, Cell(buf, n))
             PROVE  content[n] = Value(c, k, g, p, Cell(buf, n))
  BY DEF Valued
<1> DEFINE x == Cell(buf, n)
<1>1. x \in Int \X Int BY DEF Cell
<1>2. ASSUME NEW q \in Nat, q < p, StoredIn(l, g, q, x) PROVE FALSE
  <2>1. PICK i \in ItemOf(l) : q < Phases(l, g, i) /\ x \in DOMAIN Code(l, g, i, q)
    BY <1>2 DEF StoredIn
  <2>2. i \div c.warp \in WarpOf(c, l) BY WarpsOfItems
  <2>3. q < done[i \div c.warp] BY <1>2, <2>1 DEF Stage
  <2> QED BY <2>2, <2>3
<1> HIDE DEF x
<1>3. \A q \in Nat : 0 <= q /\ q < p => ~ StoredIn(l, g, q, x) BY <1>2
<1>4. Value(c, k, g, p, x) = Value(c, k, g, 0, x) BY <1>1, <1>3, ValueLasts DEF x
<1> QED BY <1>4 DEF x

LEMMA EndsValued ==
  ASSUME NEW c, NEW k, NEW l, l = Launches(c)[k], Shape(c, l), Even(l), Apart(c, l),
         Ends(c, k), NEW b \in DOMAIN Buffers(c), b # Shared,
         NEW n \in DOMAIN Buffers(c)[b], NEW content, n \in DOMAIN content,
         \A g \in GroupOf(l) : Valued(c, k, g, AllDone(c, l, g), b, content),
         (\A g \in GroupOf(l) : ~ StoredBy(l, g, Cell(b, n))) =>
           content[n] = Start(c, k, Cell(b, n))
  PROVE  content[n] = Start(c, k + 1, Cell(b, n))
<1> DEFINE x == Cell(b, n)
<1>1. CASE \A g \in GroupOf(l) : ~ StoredBy(l, g, x) BY <1>1 DEF Ends
<1>2. ASSUME NEW g \in GroupOf(l), StoredBy(l, g, x) PROVE content[n] = Start(c, k + 1, x)
  <2>1. PICK m \in Nat : /\ \A i \in ItemOf(l) : Phases(l, g, i) = m
                         /\ \A w \in WarpOf(c, l) : LastPhase(c, l, g, w) = m
    BY LastPhases
  <2>2. Stage(c, l, g, AllDone(c, l, g), m, x)
    <3> SUFFICES ASSUME NEW i \in ItemOf(l), NEW q \in Nat, q < Phases(l, g, i)
                 PROVE  q < m <=> q < AllDone(c, l, g)[i \div c.warp]
      BY DEF Stage
    <3> DEFINE w == i \div c.warp
    <3>1. w \in WarpOf(c, l) BY WarpsOfItems
    <3> HIDE DEF w
    <3>2. AllDone(c, l, g)[w] = m BY <2>1, <3>1 DEF AllDone
    <3> QED BY <3>2 DEF w
  <2>3. Alone(l, g, x)
    <3> SUFFICES ASSUME NEW h \in GroupOf(l), h # g, StoredBy(l, h, x) PROVE FALSE
      BY DEF Alone
    <3>1. PICK i \in ItemOf(l), q \in Nat : q < Phases(l, g, i) /\ x \in DOMAIN Code(l, g, i, q)
      BY <1>2 DEF StoredBy
    <3>2. PICK j \in ItemOf(l), r \in Nat : r < Phases(l, h, j) /\ x \in DOMAIN Code(l, h, j, r)
      BY DEF StoredBy
    <3>3. x[1] # Shared BY DEF Cell
    <3>4. x \notin Touched(Code(l, h, j, r)) BY <3>1, <3>2, <3>3 DEF Apart
    <3> QED BY <3>2, <3>4 DEF Touched
  <2>4. content[n] = Value(c, k, g, m, x) BY <2>2, <2>3 DEF Valued
  <2>5. \A i \in ItemOf(l) : Phases(l, g, i) <= m BY <2>1
  <2>6. Start(c, k + 1, x) = Value(c, k, g, m, x) BY <1>2, <2>5 DEF Ends
  <2> QED BY <2>4, <2>6
<1> QED BY <1>1, <1>2

-----------------------------------------------------------------------------
(***************************************************************************)
(* The steps.                                                              *)
(***************************************************************************)
\* Steps of the groups that leave the call where it is.
LEMMA SameTurn ==
  ASSUME call' = call, todo' = todo
  PROVE  /\ Turn' = Turn /\ Launch' = Launch /\ InTurn' = InTurn
         /\ Explained(call)' = Explained(call)
BY DEF Turn, Launch, InTurn

LEMMA RunningHas ==
  ASSUME KInv, NEW g \in DOMAIN running
  PROVE  /\ Sane(call, Launch, g, running[g]) /\ g \in Groups(todo) /\ todo # << >>
         /\ g \in GroupOf(Launch) /\ g \notin left
         /\ running[g].phase \in [WarpOf(call, Launch) -> Nat]
         /\ Met(call, Launch, running[g])
         /\ DOMAIN running[g].local = 0 .. Launch.local - 1
         /\ DOMAIN running[g] = GroupFields
         /\ DOMAIN running[g].held = WarpOf(call, Launch)
<1>1. Sane(call, Launch, g, running[g]) /\ g \in Groups(todo) /\ g \notin left
  BY DEF KInv, GroupsOK
<1> QED BY <1>1 DEF Sane, GroupType, Groups, GroupOf, Launch

LEMMA StartKeepsValues ==
  ASSUME AllScheduled, KInv, VInv, NEW g, StartGroup(g)
  PROVE  VInv'
<1>1. /\ g \in left /\ left' = left \ {g}
      /\ running' = Merged(running, At(g, NewGroup(g)))
      /\ call' = call /\ todo' = todo /\ mem' = mem
  BY DEF StartGroup
<1> SUFFICES ASSUME call # None, Explained(call) PROVE (InTurn /\ Computing)'
  <2>1. todo # << >> BY <1>1 DEF KInv, GroupsOK, Groups
  <2> QED BY <1>1, <2>1 DEF VInv
<1>2. g \in Groups(todo) /\ g \notin DOMAIN running BY <1>1 DEF KInv, GroupsOK
<1>3. todo # << >> /\ g \in GroupOf(Launch) BY <1>2 DEF Groups, GroupOf, Launch
<1>4. InTurn /\ Computing BY <1>3 DEF VInv
<1>5. Turn' = Turn /\ Launch' = Launch /\ InTurn' BY <1>1, <1>4, SameTurn
<1>6. /\ Launch = Launches(call)[Turn] /\ Shape(call, Launch)
      /\ Begins(call, Turn) /\ Proceeds(call, Turn)
  BY <1>3, <1>4, InLaunch DEF KInv
<1>7. /\ DOMAIN running' = DOMAIN running \cup {g}
      /\ running'[g] = NewGroupOf(call, Launch, g)
      /\ \A h \in DOMAIN running : running'[h] = running[h]
  <2>1. NewGroup(g) = NewGroupOf(call, Launch, g) BY OfTheState
  <2> QED BY <1>1, <1>2, <2>1 DEF Merged, At
<1> DEFINE zero == [w \in WarpOf(call, Launch) |-> 0]
<1>8. /\ running'[g].phase = zero
      /\ running'[g].local = Fresh(Launch.local)
      /\ running'[g].held = [w \in WarpOf(call, Launch) |-> Nothing]
  BY <1>7 DEF NewGroupOf
<1>9. \A h : Progress(h)' = Progress(h)
  <2> TAKE h
  <2>1. CASE h = g BY <1>1, <1>5, <1>7, <1>8, <2>1 DEF Progress
  <2>2. CASE h # g BY <1>1, <1>5, <1>7, <2>2 DEF Progress
  <2> QED BY <2>1, <2>2
<1>10. MemoryRight'
  <2>1. MemoryRight BY <1>4 DEF Computing
  <2> QED BY <1>1, <1>5, <1>9, <2>1 DEF MemoryRight
<1>11. ASSUME NEW h \in DOMAIN running' PROVE (LocalRight(h) /\ HeldRight(h))'
  <2>1. CASE h # g
    <3>1. h \in DOMAIN running /\ running'[h] = running[h] BY <1>7, <2>1
    <3>2. LocalRight(h) /\ HeldRight(h) BY <1>4, <3>1 DEF Computing
    <3> QED BY <1>1, <1>5, <3>1, <3>2 DEF LocalRight, HeldRight
  <2>2. CASE h = g
    <3> DEFINE F == Fresh(Launch.local)
    <3>1. DOMAIN F = 0 .. Launch.local - 1 /\ \A n \in DOMAIN F : F[n] = JunkValue
      BY DEF Fresh
    <3>2. Shared \in Int BY DEF Shared
    <3>3. Launch.local \in Nat BY <1>6 DEF Shape
    <3> HIDE DEF F
    <3>4. \A n \in DOMAIN F : F[n] = Value(call, Turn, g, 0, Cell(Shared, n))
      <4> TAKE n \in DOMAIN F
      <4>1. Cell(Shared, n) \in Int \X Int /\ Cell(Shared, n)[1] = Shared
        BY <3>1, <3>2, <3>3 DEF Cell
      <4> QED BY <1>3, <1>6, <3>1, <4>1 DEF Begins
    <3>5. Valued(call, Turn, g, zero, Shared, F)
      BY <1>3, <1>6, <3>1, <3>2, <3>3, <3>4, BeginsValued
    <3>6. LocalRight(g)' BY <1>1, <1>5, <1>8, <3>5 DEF LocalRight, F
    <3>7. HeldRight(g)' BY <1>1, <1>5, <1>8 DEF HeldRight
    <3> QED BY <2>2, <3>6, <3>7
  <2> QED BY <2>1, <2>2
<1> QED BY <1>5, <1>10, <1>11 DEF Computing

\* Steps of a group that leave the others alone.
LEMMA GroupKeepsValues ==
  ASSUME AllScheduled, KInv, VInv, NEW g \in DOMAIN running, NEW G,
         running' = [running EXCEPT ![g] = G], UNCHANGED <<call, todo, left>>,
         DOMAIN mem' = DOMAIN mem,
         call # None /\ Explained(call) /\ InTurn /\ Computing =>
           /\ \A b \in DOMAIN mem :
                /\ \A h \in GroupOf(Launch) :
                     Valued(call, Turn, h, IF h = g THEN G.phase ELSE Progress(h), b, mem'[b])
                /\ \A n \in DOMAIN mem'[b] :
                     (\A h \in GroupOf(Launch) : ~ StoredBy(Launch, h, Cell(b, n))) =>
                       mem'[b][n] = Start(call, Turn, Cell(b, n))
           /\ Valued(call, Turn, g, G.phase, Shared, G.local)
           /\ \A w \in WarpOf(call, Launch) : G.held[w] # Nothing =>
                \A x \in DOMAIN G.held[w] :
                  G.held[w][x] = Value(call, Turn, g, G.phase[w] + 1, x)
  PROVE  VInv'
<1>0. todo # << >> /\ g \notin left BY RunningHas
<1> SUFFICES ASSUME call # None, Explained(call) PROVE (InTurn /\ Computing)'
  BY <1>0 DEF VInv
<1>1. InTurn /\ Computing BY <1>0 DEF VInv
<1>2. Turn' = Turn /\ Launch' = Launch /\ InTurn' BY <1>1, SameTurn
<1>3. /\ DOMAIN running' = DOMAIN running /\ running'[g] = G
      /\ \A h \in DOMAIN running : h # g => running'[h] = running[h]
  OBVIOUS
<1>4. \A h : Progress(h)' = IF h = g THEN G.phase ELSE Progress(h)
  <2> TAKE h
  <2>1. CASE h = g BY <1>0, <1>2, <1>3, <2>1 DEF Progress
  <2>2. CASE h # g BY <1>2, <1>3, <2>2 DEF Progress
  <2> QED BY <2>1, <2>2
<1>5. MemoryRight' BY <1>1, <1>2, <1>4 DEF MemoryRight
<1>6. ASSUME NEW h \in DOMAIN running' PROVE (LocalRight(h) /\ HeldRight(h))'
  <2>1. CASE h # g
    <3>1. h \in DOMAIN running /\ running'[h] = running[h] BY <1>3, <2>1
    <3>2. LocalRight(h) /\ HeldRight(h) BY <1>1, <3>1 DEF Computing
    <3> QED BY <1>2, <3>1, <3>2 DEF LocalRight, HeldRight
  <2>2. CASE h = g
    <3>1. LocalRight(g)' BY <1>1, <1>2, <1>3 DEF LocalRight
    <3>2. HeldRight(g)' BY <1>1, <1>2, <1>3 DEF HeldRight
    <3> QED BY <2>2, <3>1, <3>2
  <2> QED BY <2>1, <2>2
<1> QED BY <1>2, <1>5, <1>6 DEF Computing

LEMMA LoadKeepsValues ==
  ASSUME AllScheduled, KInv, VInv, NEW g \in DOMAIN running, NEW w \in Warps, Load(g, w)
  PROVE  VInv'
<1> DEFINE now == running[g].now[w]
           held == [x \in now.writes |->
                      Combined(g, now.codes[CHOOSE i \in DOMAIN now.codes :
                                              x \in DOMAIN now.codes[i]][x])]
           G == [running[g] EXCEPT !.held[w] = held]
<1>1. /\ Active(g, w)
      /\ running' = [running EXCEPT ![g].held[w] = held]
      /\ call' = call /\ todo' = todo /\ mem' = mem /\ left' = left
  BY DEF Load
<1>2. w \in WarpOf(call, Launch) BY OfTheState
<1>3. /\ Sane(call, Launch, g, running[g]) /\ DOMAIN running[g] = GroupFields
      /\ DOMAIN running[g].held = WarpOf(call, Launch) /\ g \notin left
  BY RunningHas
<1>4. now = FetchOf(call, Launch, g, w, running[g].phase[w])
  BY <1>2, <1>3 DEF Sane, GroupType
<1>5. now.writes = UNION {DOMAIN now.codes[i] : i \in DOMAIN now.codes}
  <2> HIDE DEF now
  <2> QED BY <1>4, Fetched
<1>6. ASSUME call # None, Explained(call), InTurn, Computing
      PROVE  \A x \in DOMAIN held : held[x] = Value(call, Turn, g, running[g].phase[w] + 1, x)
  <2> TAKE x \in DOMAIN held
  <2> DEFINE i == CHOOSE i \in DOMAIN now.codes : x \in DOMAIN now.codes[i]
  <2>1. i \in DOMAIN now.codes /\ x \in DOMAIN now.codes[i]
    <3> HIDE DEF now
    <3> QED BY <1>5
  <2> HIDE DEF i
  <2>2. Combined(g, now.codes[i][x]) = Value(call, Turn, g, running[g].phase[w] + 1, x)
    BY <1>1, <1>6, <2>1, LoadsValues
  <2> QED BY <2>2 DEF i
<1> HIDE DEF held
<1>7. running' = [running EXCEPT ![g] = G] BY <1>1
<1>8. /\ G.phase = running[g].phase /\ G.local = running[g].local
      /\ G.held[w] = held
      /\ \A v \in WarpOf(call, Launch) : v # w => G.held[v] = running[g].held[v]
  BY <1>2, <1>3 DEF GroupFields
<1> HIDE DEF G
<1>9. Progress(g) = running[g].phase BY <1>3 DEF Progress
<1>10. ASSUME call # None, Explained(call), InTurn, Computing
       PROVE  /\ \A b \in DOMAIN mem :
                /\ \A h \in GroupOf(Launch) :
                     Valued(call, Turn, h, IF h = g THEN G.phase ELSE Progress(h), b, mem'[b])
                /\ \A n \in DOMAIN mem'[b] :
                     (\A h \in GroupOf(Launch) : ~ StoredBy(Launch, h, Cell(b, n))) =>
                       mem'[b][n] = Start(call, Turn, Cell(b, n))
           /\ Valued(call, Turn, g, G.phase, Shared, G.local)
           /\ \A v \in WarpOf(call, Launch) : G.held[v] # Nothing =>
                \A x \in DOMAIN G.held[v] :
                  G.held[v][x] = Value(call, Turn, g, G.phase[v] + 1, x)
  <2>1. MemoryRight /\ LocalRight(g) /\ HeldRight(g) BY <1>10 DEF Computing
  <2>2. ASSUME NEW v \in WarpOf(call, Launch), G.held[v] # Nothing, NEW x \in DOMAIN G.held[v]
        PROVE  G.held[v][x] = Value(call, Turn, g, G.phase[v] + 1, x)
    <3>1. CASE v = w BY <1>6, <1>8, <1>10, <2>2, <3>1
    <3>2. CASE v # w BY <1>8, <2>1, <2>2, <3>2 DEF HeldRight
    <3> QED BY <3>1, <3>2
  <2> QED BY <1>1, <1>8, <1>9, <2>1, <2>2 DEF MemoryRight, LocalRight
<1> QED BY <1>1, <1>7, <1>10, GroupKeepsValues

Alike(f, h) == DOMAIN f = DOMAIN h /\ \A n \in DOMAIN f : f[n] = h[n]

\* A store, or a phase in which there is nothing to do.
Advances(g, w, held, G) ==
  /\ running' = [running EXCEPT ![g] = G]
  /\ UNCHANGED <<call, todo, left>>
  /\ DOMAIN mem' = DOMAIN mem
  /\ \A b \in DOMAIN mem : Alike(mem'[b], Overwrite(mem[b], held, b))
  /\ G.phase = [running[g].phase EXCEPT ![w] = @ + 1]
  /\ Alike(G.local, Overwrite(running[g].local, held, Shared))
  /\ \A v \in WarpOf(call, Launch) : G.held[v] = IF v = w THEN Nothing ELSE running[g].held[v]

RightlyHeld(g, w, held) ==
  call # None /\ Explained(call) /\ InTurn /\ Computing =>
    \A x \in DOMAIN held : held[x] = Value(call, Turn, g, running[g].phase[w] + 1, x)

LEMMA AdvanceKeepsValues ==
  ASSUME AllScheduled, KInv, VInv, NEW g \in DOMAIN running, NEW w \in WarpOf(call, Launch),
         NEW held, DOMAIN held = running[g].now[w].writes, NEW G,
         RightlyHeld(g, w, held), Advances(g, w, held, G)
  PROVE  VInv'
<1> USE DEF Advances, RightlyHeld
<1>1. /\ Sane(call, Launch, g, running[g]) /\ g \notin left /\ todo # << >>
      /\ g \in GroupOf(Launch) /\ running[g].phase \in [WarpOf(call, Launch) -> Nat]
      /\ Met(call, Launch, running[g])
      /\ DOMAIN running[g].local = 0 .. Launch.local - 1
  BY RunningHas
<1> DEFINE p == running[g].phase[w]
<1>2. running[g].now[w] = FetchOf(call, Launch, g, w, p) /\ p \in Nat
  BY <1>1 DEF Sane, GroupType
<1>3. DOMAIN held = FetchOf(call, Launch, g, w, p).writes BY <1>2
<1>4. Progress(g) = running[g].phase BY <1>1 DEF Progress
<1>6. \A x \in DOMAIN held : StoredBy(Launch, g, x) BY <1>2, <1>3, HeldIsStored
<1>5. ASSUME call # None, Explained(call), InTurn, Computing
      PROVE  /\ \A b \in DOMAIN mem :
                /\ \A h \in GroupOf(Launch) :
                     Valued(call, Turn, h, IF h = g THEN G.phase ELSE Progress(h), b, mem'[b])
                /\ \A n \in DOMAIN mem'[b] :
                     (\A h \in GroupOf(Launch) : ~ StoredBy(Launch, h, Cell(b, n))) =>
                       mem'[b][n] = Start(call, Turn, Cell(b, n))
           /\ Valued(call, Turn, g, G.phase, Shared, G.local)
           /\ \A v \in WarpOf(call, Launch) : G.held[v] # Nothing =>
                \A x \in DOMAIN G.held[v] :
                  G.held[v][x] = Value(call, Turn, g, G.phase[v] + 1, x)
  <2>1. MemoryRight /\ LocalRight(g) /\ HeldRight(g) BY <1>5 DEF Computing
  <2>2. /\ Launch = Launches(call)[Turn] /\ Shape(call, Launch) /\ Apart(call, Launch)
        /\ Proceeds(call, Turn) /\ DOMAIN mem \subseteq Int \ {Shared}
        /\ \A b \in DOMAIN mem : DOMAIN mem[b] \subseteq Int
    BY <1>1, <1>5, InLaunch DEF KInv
  <2>3. \A x \in DOMAIN held : held[x] = Value(call, Turn, g, p + 1, x) BY <1>5
  <2> HIDE DEF p
  <2>4. ASSUME NEW b \in DOMAIN mem, NEW h \in GroupOf(Launch)
        PROVE  Valued(call, Turn, h, IF h = g THEN G.phase ELSE Progress(h), b,
                      Overwrite(mem[b], held, b))
    <3>1. Valued(call, Turn, h, Progress(h), b, mem[b]) BY <2>1 DEF MemoryRight
    <3>2. b \in Int \ {Shared} /\ DOMAIN mem[b] \subseteq Int BY <2>2
    <3>3. CASE h = g
      <4>1. Valued(call, Turn, g, running[g].phase, b, mem[b]) BY <1>4, <3>1, <3>3
      <4>2. Valued(call, Turn, g, [running[g].phase EXCEPT ![w] = @ + 1], b,
                   Overwrite(mem[b], held, b))
        BY <1>1, <1>3, <2>2, <2>3, <3>2, <4>1, StoreKeepsValues DEF p
      <4> QED BY <3>3, <4>2
    <3>4. CASE h # g
      <4> USE <1>1, <1>6, <2>2, <3>1, <3>2, <3>4
      <4> HIDE DEF Advances, RightlyHeld
      <4>1. Valued(call, Turn, h, Progress(h), b, Overwrite(mem[b], held, b))
        BY StoreSparesOthers
      <4> QED BY <4>1
    <3> QED BY <3>3, <3>4
  <2>5. ASSUME NEW b \in DOMAIN mem, NEW n \in DOMAIN Overwrite(mem[b], held, b),
               \A h \in GroupOf(Launch) : ~ StoredBy(Launch, h, Cell(b, n))
        PROVE  Overwrite(mem[b], held, b)[n] = Start(call, Turn, Cell(b, n))
    <3>1. b \in Int \ {Shared} BY <2>2
    <3>2. n \in DOMAIN mem[b] BY DEF Overwrite
    <3>3. Overwrite(mem[b], held, b)[n] = mem[b][n]
      <4> HIDE DEF Advances, RightlyHeld
      <4> QED BY <1>1, <1>6, <2>5, <3>2, StoreSparesCells
    <3> QED BY <2>1, <2>5, <3>2, <3>3 DEF MemoryRight
  <2>6. Valued(call, Turn, g, G.phase, Shared, G.local)
    <3>0. SUFFICES Valued(call, Turn, g, G.phase, Shared, Overwrite(running[g].local, held, Shared))
      BY DEF Valued, Alike
    <3>1. Shared \in Int /\ DOMAIN running[g].local \subseteq Int
      BY <1>1, <2>2 DEF Shape, Shared
    <3>2. Valued(call, Turn, g, running[g].phase, Shared, running[g].local)
      BY <2>1 DEF LocalRight
    <3>3. Valued(call, Turn, g, [running[g].phase EXCEPT ![w] = @ + 1], Shared,
                 Overwrite(running[g].local, held, Shared))
      <4> HIDE DEF Advances, RightlyHeld
      <4> QED BY <1>1, <1>3, <2>2, <2>3, <3>1, <3>2, StoreKeepsValues DEF p
    <3> QED BY <3>3
  <2>7. ASSUME NEW v \in WarpOf(call, Launch), G.held[v] # Nothing, NEW x \in DOMAIN G.held[v]
        PROVE  G.held[v][x] = Value(call, Turn, g, G.phase[v] + 1, x)
    <3>1. v # w /\ G.held[v] = running[g].held[v] BY <2>7
    <3>2. G.phase[v] = running[g].phase[v] BY <1>1, <3>1
    <3> QED BY <2>1, <2>7, <3>1, <3>2 DEF HeldRight
  <2>8. \A b \in DOMAIN mem :
          /\ \A h \in GroupOf(Launch) :
               Valued(call, Turn, h, IF h = g THEN G.phase ELSE Progress(h), b, mem'[b])
          /\ \A n \in DOMAIN mem'[b] :
               (\A h \in GroupOf(Launch) : ~ StoredBy(Launch, h, Cell(b, n))) =>
                 mem'[b][n] = Start(call, Turn, Cell(b, n))
    BY <2>4, <2>5 DEF Valued, Alike
  <2> QED BY <2>6, <2>7, <2>8
<1> QED BY <1>5, GroupKeepsValues

LEMMA StoresKeepValues ==
  ASSUME AllScheduled, KInv, VInv, NEW g \in DOMAIN running, NEW w \in Warps, Store(g, w)
  PROVE  VInv'
<1> DEFINE held == running[g].held[w]
           group == [running[g] EXCEPT !.local = Overwrite(@, held, Shared),
                                       !.held[w] = Nothing]
           G == Advanced(group, g, w)
<1>1. /\ held # Nothing
      /\ mem' = [b \in DOMAIN mem |-> Overwrite(mem[b], held, b)]
      /\ running' = [running EXCEPT ![g] = G]
      /\ call' = call /\ todo' = todo /\ left' = left
  BY DEF Store
<1>2. w \in WarpOf(call, Launch) BY OfTheState
<1>3. /\ Sane(call, Launch, g, running[g]) /\ DOMAIN running[g] = GroupFields
      /\ DOMAIN running[g].held = WarpOf(call, Launch) /\ g \notin left
      /\ running[g].phase \in [WarpOf(call, Launch) -> Nat]
  BY RunningHas
<1>4. /\ DOMAIN group = GroupFields
      /\ group.local = Overwrite(running[g].local, held, Shared)
      /\ group.phase = running[g].phase
      /\ group.held = [running[g].held EXCEPT ![w] = Nothing]
  BY <1>3 DEF GroupFields
<1>5. DOMAIN held = running[g].now[w].writes BY <1>1, <1>2, <1>3 DEF Sane, Holds
<1> HIDE DEF group
<1>6. /\ G.phase = [running[g].phase EXCEPT ![w] = @ + 1]
      /\ G.local = Overwrite(running[g].local, held, Shared)
      /\ \A v \in WarpOf(call, Launch) : G.held[v] = IF v = w THEN Nothing ELSE running[g].held[v]
  BY <1>2, <1>3, <1>4 DEF Advanced, GroupFields
<1> HIDE DEF G
<1>7. RightlyHeld(g, w, held)
  BY <1>1, <1>2 DEF Computing, HeldRight, RightlyHeld
<1>8. Advances(g, w, held, G) BY <1>1, <1>6 DEF Alike, Advances
<1> HIDE DEF held
<1> QED BY <1>2, <1>5, <1>7, <1>8, AdvanceKeepsValues

LEMMA PassKeepsValues ==
  ASSUME AllScheduled, KInv, VInv, NEW g \in DOMAIN running, NEW w \in Warps, Pass(g, w)
  PROVE  VInv'
<1> DEFINE G == Advanced(running[g], g, w)
           held == Nothing
<1>1. /\ running[g].now[w].writes = {}
      /\ running' = [running EXCEPT ![g] = G]
      /\ call' = call /\ todo' = todo /\ mem' = mem /\ left' = left
      /\ Runs(call, Launch, running[g], w)
  BY OfTheState DEF Pass
<1>2. w \in WarpOf(call, Launch) BY OfTheState
<1>3. /\ Sane(call, Launch, g, running[g]) /\ DOMAIN running[g] = GroupFields
      /\ DOMAIN running[g].held = WarpOf(call, Launch) /\ g \notin left
      /\ running[g].phase \in [WarpOf(call, Launch) -> Nat]
      /\ DOMAIN running[g].local = 0 .. Launch.local - 1
  BY RunningHas
<1>4. DOMAIN held = {} BY CodeOfNone
<1>5. running[g].held[w] = Nothing BY <1>1, <1>2, <1>3 DEF Sane, Holds
<1>6. \A f, b : Alike(f, Overwrite(f, held, b)) BY <1>4 DEF Alike, Overwrite
<1>7. /\ G.phase = [running[g].phase EXCEPT ![w] = @ + 1]
      /\ G.local = running[g].local
      /\ G.held = running[g].held
  BY <1>3 DEF Advanced, GroupFields
<1> HIDE DEF G, held
<1>8. RightlyHeld(g, w, held) BY <1>4 DEF RightlyHeld
<1>9. Advances(g, w, held, G) BY <1>1, <1>5, <1>6, <1>7 DEF Advances, Alike
<1> QED BY <1>1, <1>2, <1>4, <1>8, <1>9, AdvanceKeepsValues

LEMMA LaunchBegins ==
  ASSUME AllScheduled, NEW c \in Requests, Explained(c), NEW k \in DOMAIN Launches(c),
         NEW m, DOMAIN m = DOMAIN Buffers(c),
         \A b \in DOMAIN m : DOMAIN m[b] = DOMAIN Buffers(c)[b],
         \A b \in DOMAIN m : \A n \in DOMAIN m[b] : m[b][n] = Start(c, k, Cell(b, n)),
         NEW b \in DOMAIN m, NEW g \in GroupOf(Launches(c)[k])
  PROVE  Valued(c, k, g, [w \in WarpOf(c, Launches(c)[k]) |-> 0], b, m[b])
<1> DEFINE l == Launches(c)[k]
<1>1. l \in LaunchOf(c) BY DEF LaunchOf
<1>2. Shape(c, l) BY <1>1 DEF AllScheduled, Scheduled
<1>3. Proceeds(c, k) /\ Begins(c, k) BY DEF Explained
<1>4. b \in Int /\ b # Shared /\ DOMAIN m[b] \subseteq Int BY DEF Explained
<1>5. ASSUME NEW n \in DOMAIN m[b] PROVE m[b][n] = Value(c, k, g, 0, Cell(b, n))
  <2>1. Cell(b, n) \in Int \X Int /\ Cell(b, n)[1] # Shared BY <1>4 DEF Cell
  <2> QED BY <1>3, <2>1 DEF Begins
<1> QED BY <1>2, <1>3, <1>4, <1>5, BeginsValued

\* When a launch is done, the memory is as it should be.
LEMMA LaunchEnds ==
  ASSUME AllScheduled, KInv, call # None, Explained(call), InTurn, Computing,
         todo # << >>, left = {}, DOMAIN running = {}
  PROVE  \A b \in DOMAIN mem : \A n \in DOMAIN mem[b] :
           mem[b][n] = Start(call, Turn + 1, Cell(b, n))
<1> TAKE b \in DOMAIN mem
<1> TAKE n \in DOMAIN mem[b]
<1>1. /\ Launch = Launches(call)[Turn] /\ Shape(call, Launch) /\ Even(Launch)
      /\ Apart(call, Launch) /\ Ends(call, Turn) /\ b # Shared
  BY InLaunch DEF KInv
<1>2. b \in DOMAIN Buffers(call) /\ n \in DOMAIN Buffers(call)[b] BY DEF KInv, CallOK
<1>5. /\ \A g \in GroupOf(Launch) : Valued(call, Turn, g, AllDone(call, Launch, g), b, mem[b])
      /\ (\A g \in GroupOf(Launch) : ~ StoredBy(Launch, g, Cell(b, n))) =>
           mem[b][n] = Start(call, Turn, Cell(b, n))
  BY DEF Computing, MemoryRight, Progress
<1> DEFINE k == Turn
           content == mem[b]
<1> HIDE DEF k, content
<1>6. /\ Launch = Launches(call)[k] /\ Ends(call, k) /\ n \in DOMAIN content
      /\ \A g \in GroupOf(Launch) : Valued(call, k, g, AllDone(call, Launch, g), b, content)
      /\ (\A g \in GroupOf(Launch) : ~ StoredBy(Launch, g, Cell(b, n))) =>
           content[n] = Start(call, k, Cell(b, n))
  BY <1>1, <1>5 DEF k, content
<1>7. content[n] = Start(call, k + 1, Cell(b, n))
  BY <1>1, <1>2, <1>6, EndsValued
<1> QED BY <1>7 DEF k, content

\* A launch that has not started, when the memory is as it should be.
LEMMA NotStarted ==
  ASSUME AllScheduled, call' \in Requests, Explained(call)', InTurn', todo' # << >>,
         todo' \in Seq(LaunchOf(call')), left' = Groups(todo'), DOMAIN running' = {},
         DOMAIN mem' = DOMAIN Buffers(call)',
         \A b \in DOMAIN mem' : DOMAIN mem'[b] = (DOMAIN Buffers(call)[b])',
         Finishing'
  PROVE  Computing'
<1> DEFINE all == Launches(call')
           S == LaunchOf(call')
           k == Turn'
           T == todo'
<1>1. all \in Seq(S) BY DEF AllScheduled, Scheduled
<1>2. /\ T \in Seq(S) /\ T # << >> /\ Len(T) <= Len(all)
      /\ \A j \in 1 .. Len(T) : T[j] = all[k - 1 + j]
      /\ k = Len(all) - Len(T) + 1
  BY DEF InTurn, Turn
<1>3. Launch' = Head(T) /\ left' = 0 .. Head(T).groups - 1 BY <1>2 DEF Launch, Groups
<1> HIDE DEF all, S, T, k
<1>4. Len(T) \in Nat /\ Len(all) \in Nat /\ Len(T) # 0 BY <1>1, <1>2, EmptySeq, LenProperties
<1>5. k \in 1 .. Len(all) /\ k - 1 + 1 = k BY <1>2, <1>4
<1>6. T[1] = all[k] BY <1>2, <1>4, <1>5
<1>7. Head(T) = T[1] /\ DOMAIN all = 1 .. Len(all) BY <1>1, <1>2
<1>8. Launch' = all[k] /\ k \in DOMAIN all /\ left' = GroupOf(Launch')
  BY <1>3, <1>5, <1>6, <1>7 DEF GroupOf
<1>9. \A g \in GroupOf(Launch') : Progress(g)' = [w \in WarpOf(call', Launch') |-> 0]
  BY <1>8 DEF Progress
<1>10. ASSUME NEW b \in DOMAIN mem', NEW g \in GroupOf(Launch')
       PROVE  Valued(call', k, g, [w \in WarpOf(call', Launch') |-> 0], b, mem'[b])
  <2>1. \A x \in DOMAIN mem' : \A n \in DOMAIN mem'[x] : mem'[x][n] = Start(call', k, Cell(x, n))
    BY DEF Finishing, k
  <2> QED BY <1>8, <2>1, LaunchBegins DEF all
<1>11. MemoryRight' BY <1>9, <1>10 DEF MemoryRight, Finishing, k
<1> QED BY <1>11 DEF Computing

LEMMA EndKeepsValues ==
  ASSUME AllScheduled, KInv, VInv, NEW g \in DOMAIN running, EndGroup(g)
  PROVE  VInv'
<1>1. /\ \A w \in Warps : Finished(g, w)
      /\ running' = Restrict(running, DOMAIN running \ {g})
      /\ call' = call /\ todo' = todo /\ mem' = mem /\ left' = left
  BY DEF EndGroup
<1>2. /\ DOMAIN running' = DOMAIN running \ {g}
      /\ \A h \in DOMAIN running' : running'[h] = running[h]
  BY <1>1 DEF Restrict
<1>3. /\ Sane(call, Launch, g, running[g]) /\ g \notin left /\ todo # << >>
      /\ running[g].phase \in [WarpOf(call, Launch) -> Nat]
  BY RunningHas
<1> SUFFICES ASSUME call # None, Explained(call) PROVE (InTurn /\ Computing)'
  BY <1>1, <1>3 DEF VInv
<1>4. InTurn /\ Computing BY <1>3 DEF VInv
<1>5. Turn' = Turn /\ Launch' = Launch /\ InTurn' BY <1>1, <1>4, SameTurn
<1>6. running[g].phase = AllDone(call, Launch, g)
  <2>1. running[g].end = [w \in WarpOf(call, Launch) |-> LastPhase(call, Launch, g, w)]
    BY <1>3 DEF Sane, GroupType
  <2>2. \A w \in WarpOf(call, Launch) : running[g].phase[w] = running[g].end[w]
    BY <1>1, OfTheState DEF Finished
  <2> QED BY <1>3, <2>1, <2>2 DEF AllDone
<1>7. \A h : Progress(h)' = Progress(h)
  <2> TAKE h
  <2>1. CASE h = g BY <1>1, <1>2, <1>3, <1>5, <1>6, <2>1 DEF Progress
  <2>2. CASE h # g BY <1>1, <1>2, <1>5, <2>2 DEF Progress
  <2> QED BY <2>1, <2>2
<1>8. MemoryRight' BY <1>1, <1>4, <1>5, <1>7 DEF MemoryRight, Computing
<1>9. ASSUME NEW h \in DOMAIN running' PROVE (LocalRight(h) /\ HeldRight(h))'
  <2>1. h \in DOMAIN running /\ running'[h] = running[h] BY <1>2
  <2>2. LocalRight(h) /\ HeldRight(h) BY <1>4, <2>1 DEF Computing
  <2> QED BY <1>1, <1>5, <2>1, <2>2 DEF LocalRight, HeldRight
<1> QED BY <1>5, <1>8, <1>9 DEF Computing

LEMMA NextLaunchKeepsValues ==
  ASSUME AllScheduled, KInv, VInv, NextLaunch
  PROVE  VInv'
<1>1. /\ todo # << >> /\ left = {} /\ running = << >>
      /\ todo' = Tail(todo) /\ left' = Groups(todo')
      /\ call' = call /\ mem' = mem /\ running' = running
  BY DEF NextLaunch
<1> SUFFICES ASSUME call # None, Explained(call)
             PROVE  (InTurn /\ IF todo = << >> THEN Finishing ELSE Computing)'
  BY <1>1 DEF VInv
<1>2. InTurn /\ Computing BY <1>1 DEF VInv
<1>3. DOMAIN running = {} BY <1>1
<1>4. \A b \in DOMAIN mem : \A n \in DOMAIN mem[b] :
        mem[b][n] = Start(call, Turn + 1, Cell(b, n))
  BY <1>1, <1>2, <1>3, LaunchEnds
<1>5. /\ call \in Requests /\ todo \in Seq(LaunchOf(call))
      /\ DOMAIN mem = DOMAIN Buffers(call)
      /\ \A b \in DOMAIN mem : DOMAIN mem[b] = DOMAIN Buffers(call)[b]
  BY DEF KInv, CallOK
<1>6. Launches(call) \in Seq(LaunchOf(call)) BY <1>5 DEF AllScheduled, Scheduled
<1> DEFINE all == Launches(call)
           S == LaunchOf(call)
           T == todo
<1>7. /\ T \in Seq(S) /\ all \in Seq(S) /\ T # << >> /\ Len(T) <= Len(all)
      /\ \A j \in 1 .. Len(T) : T[j] = all[Turn - 1 + j]
      /\ Turn = Len(all) - Len(T) + 1 /\ Turn' = Len(all) - Len(Tail(T)) + 1
  BY <1>1, <1>2, <1>5, <1>6 DEF InTurn, Turn
<1> HIDE DEF all, S, T
<1>8. /\ Tail(T) \in Seq(S) /\ Len(Tail(T)) = Len(T) - 1
      /\ \A j \in 1 .. Len(Tail(T)) : Tail(T)[j] = T[j + 1]
      /\ Len(T) \in Nat /\ Len(all) \in Nat /\ Len(T) # 0
  BY <1>7, HeadTailProperties, EmptySeq, LenProperties
<1>9. Turn' = Turn + 1 /\ Len(Tail(T)) <= Len(all) BY <1>7, <1>8
<1>10. ASSUME NEW j \in 1 .. Len(Tail(T)) PROVE Tail(T)[j] = all[Turn' - 1 + j]
  <2>1. j + 1 \in 1 .. Len(T) BY <1>8
  <2>2. Turn - 1 + (j + 1) = Turn' - 1 + j /\ Turn \in Int BY <1>7, <1>8, <1>9
  <2> QED BY <1>7, <1>8, <2>1, <2>2
<1>11. InTurn' BY <1>1, <1>9, <1>10 DEF InTurn, all, T
<1>12. Finishing' BY <1>1, <1>4, <1>9 DEF Finishing
<1>13. ASSUME todo' # << >> PROVE Computing'
  BY <1>1, <1>3, <1>5, <1>8, <1>11, <1>12, <1>13, NotStarted DEF S, T
<1> QED BY <1>11, <1>12, <1>13

LEMMA RequestBeginsValues ==
  ASSUME AllScheduled, KInv, NEW c \in Requests, Request(c)
  PROVE  VInv'
<1>1. /\ call = None /\ call' = c /\ todo' = Launches(c)
      /\ mem' = Buffers(c) /\ left' = Groups(todo') /\ running' = running
  BY DEF Request
<1> SUFFICES ASSUME Explained(call)'
             PROVE  (InTurn /\ IF todo = << >> THEN Finishing ELSE Computing)'
  BY DEF VInv
<1>2. todo = << >> BY <1>1 DEF KInv, CallOK
<1>3. DOMAIN running' = {} BY <1>1, <1>2 DEF KInv, GroupsOK, Groups
<1>4. Launches(c) \in Seq(LaunchOf(c)) BY DEF AllScheduled, Scheduled
<1> DEFINE n == Len(Launches(c))
<1>5. n \in Nat BY <1>4, LenProperties
<1>6. Turn' = n - n + 1 BY <1>1 DEF Turn
<1> HIDE DEF n
<1>7. Turn' = 1 BY <1>5, <1>6
<1>8. \A j \in 1 .. n : Turn' - 1 + j = j BY <1>5, <1>7
<1>9. InTurn' BY <1>1, <1>5, <1>8 DEF InTurn, n
<1>10. Finishing' BY <1>1, <1>7 DEF Finishing, Explained
<1>11. ASSUME todo' # << >> PROVE Computing'
  <2>1. todo' \in Seq(LaunchOf(call')) BY <1>1, <1>4
  <2>2. /\ DOMAIN mem' = DOMAIN Buffers(call)'
        /\ \A b \in DOMAIN mem' : DOMAIN mem'[b] = (DOMAIN Buffers(call)[b])'
    BY <1>1
  <2> QED BY <1>1, <1>3, <1>9, <1>10, <1>11, <2>1, <2>2, NotStarted
<1> QED BY <1>9, <1>10, <1>11

LEMMA VInvStep ==
  ASSUME AllScheduled, KInv, VInv, [Next]_vars
  PROVE  VInv'
<1>1. CASE \E c \in Requests : Request(c) BY <1>1, RequestBeginsValues
<1>2. CASE \E g \in left : StartGroup(g) BY <1>2, StartKeepsValues
<1>3. ASSUME NEW g \in DOMAIN running, NEW w \in Warps, Load(g, w) PROVE VInv'
  BY <1>3, LoadKeepsValues
<1>4. ASSUME NEW g \in DOMAIN running, NEW w \in Warps, Store(g, w) PROVE VInv'
  BY <1>4, StoresKeepValues
<1>5. ASSUME NEW g \in DOMAIN running, NEW w \in Warps, Pass(g, w) PROVE VInv'
  BY <1>5, PassKeepsValues
<1>6. CASE \E g \in DOMAIN running : EndGroup(g) BY <1>6, EndKeepsValues
<1>7. CASE NextLaunch BY <1>7, NextLaunchKeepsValues
<1>8. CASE Return BY <1>8 DEF Return, VInv
<1>9. CASE UNCHANGED vars
  <2>1. /\ call' = call /\ todo' = todo /\ mem' = mem /\ left' = left /\ running' = running
    BY <1>9 DEF vars
  <2>2. Turn' = Turn /\ Launch' = Launch BY <2>1 DEF Turn, Launch
  <2>3. \A g : Progress(g)' = Progress(g) BY <2>1, <2>2 DEF Progress
  <2>4. Computing = Computing'
    BY <2>1, <2>2, <2>3 DEF Computing, MemoryRight, LocalRight, HeldRight
  <2> QED BY <2>1, <2>2, <2>4 DEF VInv, InTurn, Finishing
<1> QED BY <1>1, <1>2, <1>3, <1>4, <1>5, <1>6, <1>7, <1>8, <1>9 DEF Next, DeviceWorks

(***************************************************************************)
(* Every behaviour has the values.                                         *)
(***************************************************************************)
LEMMA ValuesInvariance == Spec => [](KInv /\ VInv)
<1>1. Init => KInv /\ VInv BY InitKInv DEF Init, VInv
<1>2. KInv /\ VInv /\ [Next]_vars => KInv' /\ VInv'
  BY KInvStep, VInvStep, EveryCallIsScheduled
<1> QED BY <1>1, <1>2, PTL DEF Spec

\* What the buffers of a call that is done have in them.
LEMMA DoneValues ==
  ASSUME AllScheduled, KInv, VInv, call # None, Explained(call), todo = << >>
  PROVE  /\ call \in Requests /\ Acceptable(call)
         /\ DOMAIN mem = DOMAIN Buffers(call)
         /\ \A b \in DOMAIN mem : DOMAIN mem[b] = DOMAIN Buffers(call)[b]
         /\ \A b \in DOMAIN mem : \A n \in DOMAIN mem[b] :
              mem[b][n] = Start(call, Len(Launches(call)) + 1, Cell(b, n))
<1>1. Launches(call) \in Seq(LaunchOf(call)) /\ call \in Requests
  BY DEF KInv, CallOK, AllScheduled, Scheduled
<1>2. Len(Launches(call)) \in Nat BY <1>1, LenProperties
<1>3. Turn = Len(Launches(call)) + 1 BY <1>2 DEF Turn
<1> QED BY <1>3 DEF VInv, KInv, CallOK, Finishing

-----------------------------------------------------------------------------
(***************************************************************************)
(* The values are those that the last phase, or the last launch, has       *)
(* written.                                                                *)
(***************************************************************************)
LEMMA ValueWritten ==
  ASSUME NEW c, NEW k, NEW g, NEW x, NEW p \in Nat, NEW q \in 0 .. p - 1,
         StoredIn(Launches(c)[k], g, q, x),
         \A r \in q + 1 .. p - 1 : ~ StoredIn(Launches(c)[k], g, r, x)
  PROVE  Value(c, k, g, p, x) = Written(c, k, g, q, x)
<1> DEFINE l == Launches(c)[k]
           Ok(z) == /\ StoredIn(l, g, z, x)
                   /\ \A r \in z + 1 .. p - 1 : ~ StoredIn(l, g, r, x)
<1> HIDE DEF l
<1>1. ASSUME NEW z \in 0 .. p - 1, Ok(z) PROVE z = q
  <2>1. ~ (z < q)
    <3> SUFFICES ASSUME z < q PROVE FALSE OBVIOUS
    <3>1. q \in z + 1 .. p - 1 OBVIOUS
    <3> QED BY <1>1, <3>1 DEF l
  <2>2. ~ (q < z)
    <3> SUFFICES ASSUME q < z PROVE FALSE OBVIOUS
    <3>1. z \in q + 1 .. p - 1 OBVIOUS
    <3> QED BY <1>1, <3>1 DEF l
  <2> QED BY <2>1, <2>2
<1>2. Ok(q) BY DEF l
<1>3. LastIn(l, g, p, x) = CHOOSE z \in 0 .. p - 1 : Ok(z) BY DEF LastIn
<1> HIDE DEF Ok
<1>4. LastIn(l, g, p, x) = q BY <1>1, <1>2, <1>3
<1> QED BY <1>4 DEF Value, l

LEMMA ValueKept ==
  ASSUME NEW c, NEW k, NEW g, NEW x, NEW p \in Nat,
         ~ StoredIn(Launches(c)[k], g, p, x)
  PROVE  Value(c, k, g, p + 1, x) = Value(c, k, g, p, x)
<1> DEFINE l == Launches(c)[k]
<1> HIDE DEF l
<1>0. ~ StoredIn(l, g, p, x) BY DEF l
<1>1. ASSUME NEW q \in 0 .. (p + 1) - 1, StoredIn(l, g, q, x) PROVE q \in 0 .. p - 1
  BY <1>0, <1>1
<1>2. \A q \in 0 .. p - 1 : q \in 0 .. (p + 1) - 1 OBVIOUS
<1>3. CASE \E q \in 0 .. p - 1 : StoredIn(l, g, q, x)
  <2>1. \E q \in 0 .. (p + 1) - 1 : StoredIn(l, g, q, x) BY <1>2, <1>3
  <2> DEFINE A(q) == /\ StoredIn(l, g, q, x)
                     /\ \A r \in q + 1 .. p - 1 : ~ StoredIn(l, g, r, x)
             B(q) == /\ StoredIn(l, g, q, x)
                     /\ \A r \in q + 1 .. (p + 1) - 1 : ~ StoredIn(l, g, r, x)
  <2>2. \A q : (q \in 0 .. p - 1 /\ A(q)) <=> (q \in 0 .. (p + 1) - 1 /\ B(q))
    <3> TAKE q
    <3>1. ASSUME q \in 0 .. p - 1, A(q) PROVE q \in 0 .. (p + 1) - 1 /\ B(q)
      <4>1. \A r \in q + 1 .. (p + 1) - 1 : r \in q + 1 .. p - 1 \/ r = p BY <3>1
      <4> QED BY <1>0, <3>1, <4>1
    <3>2. ASSUME q \in 0 .. (p + 1) - 1, B(q) PROVE q \in 0 .. p - 1 /\ A(q)
      <4>1. q \in 0 .. p - 1 BY <1>1, <3>2
      <4>2. \A r \in q + 1 .. p - 1 : r \in q + 1 .. (p + 1) - 1 BY <4>1
      <4> QED BY <3>2, <4>1, <4>2
    <3> QED BY <3>1, <3>2
  <2>3. LastIn(l, g, p, x) = (CHOOSE q \in 0 .. p - 1 : A(q))
        /\ LastIn(l, g, p + 1, x) = (CHOOSE q \in 0 .. (p + 1) - 1 : B(q))
    BY DEF LastIn
  <2> HIDE DEF A, B
  <2> DEFINE a == {q \in 0 .. p - 1 : A(q)}
             b == {q \in 0 .. (p + 1) - 1 : B(q)}
  <2>4. (CHOOSE q \in 0 .. p - 1 : A(q)) = (CHOOSE q \in 0 .. (p + 1) - 1 : B(q))
    <3>1. \A q : (q \in 0 .. p - 1 /\ A(q)) = (q \in 0 .. (p + 1) - 1 /\ B(q)) BY <2>2
    <3> QED BY <3>1
  <2>5. LastIn(l, g, p, x) = LastIn(l, g, p + 1, x) BY <2>3, <2>4
  <2> QED BY <1>3, <2>1, <2>5 DEF Value, l
<1>4. CASE ~ \E q \in 0 .. p - 1 : StoredIn(l, g, q, x)
  <2>1. ~ \E q \in 0 .. (p + 1) - 1 : StoredIn(l, g, q, x) BY <1>1, <1>4
  <2> QED BY <1>4, <2>1 DEF Value, l
<1> QED BY <1>3, <1>4

LEMMA ValueFirst ==
  ASSUME NEW c, NEW k, NEW g, NEW x, NEW p \in Nat,
         \A q \in 0 .. p - 1 : ~ StoredIn(Launches(c)[k], g, q, x)
  PROVE  Value(c, k, g, p, x) = IF x[1] = Shared THEN JunkValue ELSE Start(c, k, x)
BY DEF Value

LEMMA StartOfFirst ==
  ASSUME NEW c, NEW x, Launches(c) \in Seq(LaunchOf(c))
  PROVE  Start(c, 1, x) = Initially(c, x)
<1>1. DOMAIN Launches(c) = 1 .. Len(Launches(c)) /\ Len(Launches(c)) \in Nat
  BY LenProperties
<1>2. StoresOf(c, 1, x) = {} BY <1>1 DEF StoresOf
<1> QED BY <1>2 DEF Start

\* After a launch that stores x, and after one that does not.
LEMMA StartAfter ==
  ASSUME NEW c, Launches(c) \in Seq(LaunchOf(c)), NEW k \in DOMAIN Launches(c), NEW x
  PROVE  /\ (\E g \in GroupOf(Launches(c)[k]) : StoredBy(Launches(c)[k], g, x)) =>
              Start(c, k + 1, x) = Result(c, k, x)
         /\ (\A g \in GroupOf(Launches(c)[k]) : ~ StoredBy(Launches(c)[k], g, x)) =>
              Start(c, k + 1, x) = Start(c, k, x)
<1>1. DOMAIN Launches(c) = 1 .. Len(Launches(c)) /\ Len(Launches(c)) \in Nat
  BY LenProperties
<1> DEFINE S(j) == \E g \in GroupOf(Launches(c)[j]) : StoredBy(Launches(c)[j], g, x)
           now  == StoresOf(c, k, x)
           then == StoresOf(c, k + 1, x)
           D    == DOMAIN Launches(c)
<1>2. now = {j \in D : j < k /\ S(j)} /\ then = {j \in D : j < k + 1 /\ S(j)}
  BY DEF StoresOf
<1>3. D \subseteq Int /\ k \in D BY <1>1
<1> HIDE DEF S, now, then, D
<1>4. ASSUME S(k) PROVE Start(c, k + 1, x) = Result(c, k, x)
  <2>1. k \in then /\ \A j \in then : j <= k /\ j \in Int BY <1>2, <1>3, <1>4
  <2> DEFINE T(j) == \A i \in then : i <= j
  <2>2. (CHOOSE j \in then : T(j)) = k
    <3>1. \A j \in then : T(j) => j = k
      <4> SUFFICES ASSUME NEW j \in then, T(j) PROVE j = k OBVIOUS
      <4>1. j <= k /\ k <= j /\ j \in Int /\ k \in Int BY <1>3, <2>1
      <4> QED BY <4>1
    <3>2. T(k) BY <2>1
    <3> HIDE DEF T
    <3> QED BY <2>1, <3>1, <3>2
  <2>3. then # {} BY <2>1
  <2>4. Latest(then) = k BY <2>2 DEF Latest
  <2> QED BY <2>3, <2>4 DEF Start, then
<1>5. ASSUME ~ S(k) PROVE Start(c, k + 1, x) = Start(c, k, x)
  <2>1. \A j : j \in then <=> j \in now
    <3> TAKE j
    <3>1. j \in D => (j < k + 1 <=> j < k \/ j = k) BY <1>3
    <3> QED BY <1>2, <1>5, <3>1
  <2>2. then = now BY <2>1
  <2> QED BY <2>2 DEF Start, then, now
<1> QED BY <1>4, <1>5 DEF S

(***************************************************************************)
(* A launch whose code writes what the annotation says, and leaves it.     *)
(***************************************************************************)
Writes(c, k) ==
  LET l == Launches(c)[k]
  IN  \A g \in GroupOf(l), i \in ItemOf(l) : \A p \in Nat : p < Phases(l, g, i) =>
        \A x \in DOMAIN Code(l, g, i, p) :
          Written(c, k, g, p, x) =
            FlattenSeq([n \in DOMAIN Code(l, g, i, p)[x] |->
                          Found(c, k, g, p, Code(l, g, i, p)[x][n])])

Leaves(c, k) ==
  LET l == Launches(c)[k]
  IN  \A g \in GroupOf(l) : \A p \in Nat : \A x :
        x[1] # Shared /\ StoredBy(l, g, x) /\ (\A i \in ItemOf(l) : Phases(l, g, i) <= p) =>
          Value(c, k, g, p, x) = Result(c, k, x)

LEMMA WritesExplain ==
  ASSUME NEW c, Launches(c) \in Seq(LaunchOf(c)), NEW k \in DOMAIN Launches(c),
         Shared \notin DOMAIN Buffers(c), Writes(c, k), Leaves(c, k)
  PROVE  Begins(c, k) /\ Proceeds(c, k) /\ Ends(c, k)
<1> DEFINE l == Launches(c)[k]
<1>1. Begins(c, k)
  <2> SUFFICES ASSUME NEW g \in GroupOf(l), NEW x \in Int \X Int
               PROVE  Value(c, k, g, 0, x) = IF x[1] = Shared THEN JunkValue ELSE Start(c, k, x)
    BY DEF Begins
  <2>1. 0 \in Nat /\ 0 .. 0 - 1 = {} OBVIOUS
  <2> QED BY <2>1, ValueFirst
<1>2. Proceeds(c, k)
  <2> SUFFICES ASSUME NEW g \in GroupOf(l), NEW p \in Nat
               PROVE  /\ \A i \in ItemOf(l) : p < Phases(l, g, i) =>
                           \A x \in DOMAIN Code(l, g, i, p) :
                             Value(c, k, g, p + 1, x) =
                               FlattenSeq([n \in DOMAIN Code(l, g, i, p)[x] |->
                                             Found(c, k, g, p, Code(l, g, i, p)[x][n])])
                      /\ \A x \in Int \X Int : Alone(l, g, x) /\ ~ StoredIn(l, g, p, x) =>
                           Value(c, k, g, p + 1, x) = Value(c, k, g, p, x)
    BY DEF Proceeds
  <2>1. ASSUME NEW i \in ItemOf(l), p < Phases(l, g, i), NEW x \in DOMAIN Code(l, g, i, p)
        PROVE  Value(c, k, g, p + 1, x) =
                 FlattenSeq([n \in DOMAIN Code(l, g, i, p)[x] |->
                               Found(c, k, g, p, Code(l, g, i, p)[x][n])])
    <3>1. StoredIn(l, g, p, x) BY <2>1 DEF StoredIn
    <3>2. p + 1 \in Nat /\ p \in 0 .. (p + 1) - 1 /\ p + 1 .. (p + 1) - 1 = {} OBVIOUS
    <3>3. Value(c, k, g, p + 1, x) = Written(c, k, g, p, x) BY <3>1, <3>2, ValueWritten
    <3> QED BY <2>1, <3>3 DEF Writes
  <2> QED BY <2>1, ValueKept
<1>3. Ends(c, k)
  <2> SUFFICES ASSUME NEW b \in DOMAIN Buffers(c), NEW n \in DOMAIN Buffers(c)[b]
               PROVE  /\ \A g \in GroupOf(l) : \A p \in Nat :
                           StoredBy(l, g, Cell(b, n)) /\ (\A i \in ItemOf(l) : Phases(l, g, i) <= p) =>
                             Start(c, k + 1, Cell(b, n)) = Value(c, k, g, p, Cell(b, n))
                      /\ (\A g \in GroupOf(l) : ~ StoredBy(l, g, Cell(b, n))) =>
                           Start(c, k + 1, Cell(b, n)) = Start(c, k, Cell(b, n))
    BY DEF Ends
  <2> DEFINE x == Cell(b, n)
  <2>1. x[1] # Shared BY DEF Cell
  <2> HIDE DEF x
  <2>2. ASSUME NEW g \in GroupOf(l), NEW p \in Nat, StoredBy(l, g, x),
               \A i \in ItemOf(l) : Phases(l, g, i) <= p
        PROVE  Start(c, k + 1, x) = Value(c, k, g, p, x)
    <3>1. Value(c, k, g, p, x) = Result(c, k, x) BY <2>1, <2>2 DEF Leaves
    <3>2. Start(c, k + 1, x) = Result(c, k, x) BY <2>2, StartAfter
    <3> QED BY <3>1, <3>2
  <2> QED BY <2>2, StartAfter DEF x
<1> QED BY <1>1, <1>2, <1>3

\* What is found before the first phase.
FirstFound(c, k, x) ==
  IF Within(c, Launches(c)[k], x) /\ x[1] # Shared THEN Start(c, k, x) ELSE JunkValue

LEMMA FoundFirst ==
  ASSUME NEW c, NEW k, NEW g, NEW x
  PROVE  Found(c, k, g, 0, x) = FirstFound(c, k, x)
<1>1. 0 \in Nat /\ 0 .. 0 - 1 = {} OBVIOUS
<1>2. Value(c, k, g, 0, x) = IF x[1] = Shared THEN JunkValue ELSE Start(c, k, x)
  BY <1>1, ValueFirst
<1> QED BY <1>2 DEF Found, FirstFound

-----------------------------------------------------------------------------
(***************************************************************************)
(* A kernel with one phase.                                                *)
(***************************************************************************)
WritesOnce(c, k) ==
  LET l == Launches(c)[k]
  IN  \A g \in GroupOf(l), i \in ItemOf(l) : \A x \in DOMAIN Code(l, g, i, 0) :
        Result(c, k, x) =
          FlattenSeq([n \in DOMAIN Code(l, g, i, 0)[x] |->
                        FirstFound(c, k, Code(l, g, i, 0)[x][n])])

LEMMA OnceExplains ==
  ASSUME NEW c, NEW k, OnePhase(Launches(c)[k]), WritesOnce(c, k)
  PROVE  Writes(c, k) /\ Leaves(c, k)
<1> DEFINE l == Launches(c)[k]
<1>1. ASSUME NEW g, NEW i PROVE Phases(l, g, i) = 1 BY DEF Phases, OnePhase
<1>2. ASSUME NEW g, NEW p, NEW x PROVE Written(c, k, g, p, x) = Result(c, k, x)
  BY DEF Written
<1> HIDE DEF l
<1>3. Writes(c, k)
  <2> SUFFICES ASSUME NEW g \in GroupOf(l), NEW i \in ItemOf(l), NEW p \in Nat,
                      p < Phases(l, g, i), NEW x \in DOMAIN Code(l, g, i, p)
               PROVE  Written(c, k, g, p, x) =
                        FlattenSeq([n \in DOMAIN Code(l, g, i, p)[x] |->
                                      Found(c, k, g, p, Code(l, g, i, p)[x][n])])
    BY DEF Writes, l
  <2>1. p = 0 BY <1>1
  <2>2. [n \in DOMAIN Code(l, g, i, 0)[x] |-> Found(c, k, g, 0, Code(l, g, i, 0)[x][n])]
        = [n \in DOMAIN Code(l, g, i, 0)[x] |-> FirstFound(c, k, Code(l, g, i, 0)[x][n])]
    BY FoundFirst
  <2>3. Result(c, k, x) =
          FlattenSeq([n \in DOMAIN Code(l, g, i, 0)[x] |->
                        FirstFound(c, k, Code(l, g, i, 0)[x][n])])
    BY <2>1 DEF WritesOnce, l
  <2> QED BY <1>2, <2>1, <2>2, <2>3
<1>4. Leaves(c, k)
  <2> SUFFICES ASSUME NEW g \in GroupOf(l), NEW p \in Nat, NEW x, StoredBy(l, g, x),
                      \A i \in ItemOf(l) : Phases(l, g, i) <= p
               PROVE  Value(c, k, g, p, x) = Result(c, k, x)
    BY DEF Leaves, l
  <2>1. PICK i \in ItemOf(l), q \in Nat : q < Phases(l, g, i) /\ x \in DOMAIN Code(l, g, i, q)
    BY DEF StoredBy
  <2>2. q = 0 /\ 1 <= p BY <1>1, <2>1
  <2>3. StoredIn(l, g, 0, x) BY <2>1, <2>2 DEF StoredIn
  <2>4. \A r \in 0 + 1 .. p - 1 : ~ StoredIn(l, g, r, x) BY <1>1 DEF StoredIn
  <2>5. 0 \in 0 .. p - 1 BY <2>2
  <2>6. Value(c, k, g, p, x) = Written(c, k, g, 0, x) BY <2>3, <2>4, <2>5, ValueWritten DEF l
  <2> QED BY <1>2, <2>6
<1> QED BY <1>3, <1>4

\* Single labels are found, and put together.
LEMMA FlattenLabels ==
  ASSUME NEW n \in Nat, NEW h, DOMAIN h = 1 .. n, h = [m \in DOMAIN h |-> h[m]],
         NEW f, Among(Int, f, n), \A m \in 1 .. n : h[m] = <<f[m]>>
  PROVE  FlattenSeq(h) = Firsts(f, n)
<1>1. h = Singles(f, n) BY DEF Singles
<1>2. FlattenSeq(Singles(f, n)) = Firsts(f, n) BY FlattenSingles
<1> QED BY <1>1, <1>2

\* What a buffer has in the beginning.
LEMMA BeginsLabelled ==
  ASSUME NEW c, Launches(c) \in Seq(LaunchOf(c)), NEW b \in DOMAIN Buffers(c) \ {Shared},
         NEW m \in Nat, NEW off, Buffers(c)[b] = Labelled(m, off), NEW n \in 0 .. m - 1
  PROVE  FirstFound(c, 1, Cell(b, n)) = <<off + n + 1>>
<1> DEFINE x == Cell(b, n)
<1>1. x[1] = b /\ x[2] = n BY DEF Cell
<1> HIDE DEF x
<1>2. DOMAIN Buffers(c)[b] = 0 .. m - 1 /\ Buffers(c)[b][n] = <<off + n + 1>> BY DEF Labelled
<1>3. Start(c, 1, x) = <<off + n + 1>> BY <1>1, <1>2, StartOfFirst DEF Initially
<1>4. Within(c, Launches(c)[1], x) BY <1>1, <1>2 DEF Within
<1> QED BY <1>1, <1>3, <1>4 DEF FirstFound, x

-----------------------------------------------------------------------------
(***************************************************************************)
(* A call with one launch.                                                 *)
(***************************************************************************)
Numbered(c) ==
  /\ DOMAIN Buffers(c) \subseteq Int \ {Shared}
  /\ \A b \in DOMAIN Buffers(c) : DOMAIN Buffers(c)[b] \subseteq Int

Only(c, l) == LaunchOf(c) = {l} /\ Launches(c) = <<l>>

LEMMA OnlyFacts ==
  ASSUME NEW c, NEW l, Only(c, l)
  PROVE  /\ DOMAIN Launches(c) = {1} /\ Launches(c)[1] = l /\ Len(Launches(c)) = 1
         /\ Launches(c) \in Seq(LaunchOf(c)) /\ LaunchOf(c) = {l}
<1>1. Launches(c) = <<l>> /\ LaunchOf(c) = {l} BY DEF Only
<1>2. DOMAIN <<l>> = {1} /\ <<l>>[1] = l /\ Len(<<l>>) = 1 /\ <<l>> \in Seq({l}) OBVIOUS
<1> QED BY <1>1, <1>2

LEMMA OnlyExplained ==
  ASSUME NEW c, NEW l, Only(c, l), Writes(c, 1), Leaves(c, 1), Addressed(c, l), Apart(c, l),
         Numbered(c)
  PROVE  Explained(c)
<1>1. /\ DOMAIN Launches(c) = {1} /\ Launches(c)[1] = l
      /\ Launches(c) \in Seq(LaunchOf(c))
  BY OnlyFacts
<1>2. Begins(c, 1) /\ Proceeds(c, 1) /\ Ends(c, 1)
  <2>1. Shared \notin DOMAIN Buffers(c) BY DEF Numbered
  <2> QED BY <1>1, <2>1, WritesExplain
<1>3. ASSUME NEW b \in DOMAIN Buffers(c), NEW n \in DOMAIN Buffers(c)[b]
      PROVE  Start(c, 1, Cell(b, n)) = Buffers(c)[b][n]
  BY <1>1, StartOfFirst DEF Initially, Cell
<1> QED BY <1>1, <1>2, <1>3 DEF Explained, Numbered

LEMMA AfterOnly ==
  ASSUME NEW c, NEW l, Only(c, l), NEW x
  PROVE  /\ (\E g \in GroupOf(l) : StoredBy(l, g, x)) =>
              Start(c, Len(Launches(c)) + 1, x) = Result(c, 1, x)
         /\ (\A g \in GroupOf(l) : ~ StoredBy(l, g, x)) =>
              Start(c, Len(Launches(c)) + 1, x) = Initially(c, x)
<1>1. /\ DOMAIN Launches(c) = {1} /\ Launches(c)[1] = l /\ Len(Launches(c)) = 1
      /\ Launches(c) \in Seq(LaunchOf(c))
  BY OnlyFacts
<1>2. 1 \in DOMAIN Launches(c) BY <1>1
<1>3. /\ (\E g \in GroupOf(l) : StoredBy(l, g, x)) => Start(c, 1 + 1, x) = Result(c, 1, x)
      /\ (\A g \in GroupOf(l) : ~ StoredBy(l, g, x)) => Start(c, 1 + 1, x) = Start(c, 1, x)
  BY <1>1, <1>2, StartAfter
<1> QED BY <1>1, <1>3, StartOfFirst

\* The code of an item that stores one cell.
Stores(code, at, s) == DOMAIN code = {at} /\ code[at] = s

LEMMA StoresOne ==
  ASSUME NEW at, NEW s
  PROVE  Stores(At(at, s), at, s)
BY CodeOfOne DEF Stores

\* A cell that an item of a kernel with one phase stores.
LEMMA StoredOnce ==
  ASSUME NEW l, OnePhase(l), NEW g, NEW x
  PROVE  StoredBy(l, g, x) <=> \E i \in ItemOf(l) : x \in DOMAIN Code(l, g, i, 0)
<1>1. ASSUME NEW i PROVE Phases(l, g, i) = 1 BY DEF Phases, OnePhase
<1>2. ASSUME NEW i \in ItemOf(l), NEW q \in Nat, q < Phases(l, g, i) PROVE q = 0 BY <1>1, <1>2
<1>3. 0 \in Nat /\ 0 < 1 OBVIOUS
<1> QED BY <1>1, <1>2, <1>3 DEF StoredBy

-----------------------------------------------------------------------------
(***************************************************************************)
(* What Zip computes.                                                      *)
(***************************************************************************)
ZipIs(c, l) ==
  /\ Only(c, l)
  /\ l.kernel = "SCL_ZIP" /\ l.side = c.side /\ l.items = c.side
  /\ l.elements = c.n /\ l.out = c.out
  /\ l.groups = CeilToMultipleOf(c.n, c.side) \div c.side

LEMMA ZipShape ==
  ASSUME NEW c, c.skeleton = "zip", ZipCall(c)
  PROVE  \E l : ZipIs(c, l)
<1> DEFINE line == Line(c.n, c.side)
           l == IF c.result THEN ZipLaunch(c) ELSE ZipVoidLaunch(c)
<1>1. Launches(c) = <<l>> BY DEF Launches
<1>2. LaunchOf(c) = {l} BY <1>1 DEF LaunchOf
<1>3. ASSUME NEW o
      PROVE  LET m == Merged(line, [kernel |-> "SCL_ZIP", elements |-> c.n, out |-> o])
             IN  /\ m.kernel = "SCL_ZIP" /\ m.side = c.side /\ m.items = c.side
                 /\ m.elements = c.n /\ m.out = o
                 /\ m.groups = CeilToMultipleOf(c.n, c.side) \div c.side
  BY DEF Merged, Line
<1>4. l = Merged(line, [kernel |-> "SCL_ZIP", elements |-> c.n, out |-> c.out])
  BY DEF ZipCall, ZipLaunch, ZipVoidLaunch
<1> HIDE DEF l
<1> QED BY <1>1, <1>2, <1>3, <1>4 DEF ZipIs, Only

LEMMA ZipMemory ==
  ASSUME NEW c, c.skeleton = "zip", ZipCall(c)
  PROVE  /\ Numbered(c)
         /\ DOMAIN Buffers(c) = {In, Second, Out}
         /\ {In, Second, Out} \subseteq Int \ {Shared}
         /\ Buffers(c)[In] = Labelled(c.n, 0) /\ Buffers(c)[Second] = Labelled(c.n, 100)
<1>1. Buffers(c) = [b \in {In, Second, Out} |->
                      CASE b = In     -> Labelled(c.n, 0)
                        [] b = Second -> Labelled(c.n, 100)
                        [] OTHER      -> Fresh(c.n)]
  BY DEF Buffers, ZipBuffers
<1>2. \A b \in {In, Second, Out} : DOMAIN Buffers(c)[b] = 0 .. c.n - 1
  BY <1>1 DEF Labelled, Fresh, In, Second, Out
<1>3. {In, Second, Out} \subseteq Int \ {Shared} BY DEF In, Second, Out, Shared
<1>4. Buffers(c)[In] = Labelled(c.n, 0) /\ Buffers(c)[Second] = Labelled(c.n, 100)
  BY <1>1 DEF In, Second, Out
<1>5. DOMAIN Buffers(c) = {In, Second, Out} BY <1>1
<1> QED BY <1>2, <1>3, <1>4, <1>5 DEF Numbered

LEMMA ZipStores ==
  ASSUME NEW l, l.kernel = "SCL_ZIP", NEW g, NEW i, NEW p
  PROVE  LET id == GlobalId(l, g, i)
         IN  IF id < l.elements
             THEN Stores(Code(l, g, i, p), Cell(l.out, id), <<Cell(In, id), Cell(Second, id)>>)
             ELSE DOMAIN Code(l, g, i, p) = {}
<1> DEFINE id == GlobalId(l, g, i)
           s == <<Cell(In, id), Cell(Second, id)>>
<1>1. Code(l, g, i, p) = IF id < l.elements THEN At(Cell(l.out, id), s) ELSE Nothing
  BY DEF Code, ZipCode
<1> HIDE DEF s, id
<1>2. Stores(At(Cell(l.out, id), s), Cell(l.out, id), s) BY StoresOne
<1> QED BY <1>1, <1>2, CodeOfNone DEF s, id

LEMMA ZipExplained ==
  ASSUME NEW c, c.skeleton = "zip", ZipCall(c)
  PROVE  /\ Explained(c)
         /\ \A n \in 0 .. c.n - 1 :
              Start(c, Len(Launches(c)) + 1, Cell(c.out, n)) = <<n + 1, 100 + n + 1>>
<1>1. PICK l : ZipIs(c, l) BY ZipShape
<1>2. /\ c.n \in Positive /\ c.n \in Nat /\ c.side \in Positive /\ c.side \in Nat
      /\ c.out \in {In, Second, Out}
  BY DEF ZipCall, Positive
<1>3. CeilToMultipleOf(c.n, c.side) \div c.side \in Positive BY <1>2, Rounded
<1>4. /\ l.kernel = "SCL_ZIP" /\ l.side \in Positive /\ l.items = l.side /\ l.groups \in Nat
      /\ l.elements = c.n /\ l.out = c.out /\ l.side = c.side /\ OnePhase(l) /\ Only(c, l)
      /\ l.groups = CeilToMultipleOf(c.n, c.side) \div c.side
  BY <1>1, <1>2, <1>3 DEF ZipIs, Positive, OnePhase
<1>5. /\ DOMAIN Launches(c) = {1} /\ Launches(c)[1] = l
      /\ Launches(c) \in Seq(LaunchOf(c)) /\ LaunchOf(c) = {l}
  BY <1>4, OnlyFacts
<1>6. ASSUME NEW n \in 0 .. c.n - 1
      PROVE  FirstFound(c, 1, Cell(In, n)) = <<n + 1>>
             /\ FirstFound(c, 1, Cell(Second, n)) = <<100 + n + 1>>
  <2>1. In \in DOMAIN Buffers(c) \ {Shared} /\ Second \in DOMAIN Buffers(c) \ {Shared}
    BY ZipMemory
  <2>2. FirstFound(c, 1, Cell(In, n)) = <<0 + n + 1>>
    BY <1>2, <1>5, <2>1, ZipMemory, BeginsLabelled
  <2>3. FirstFound(c, 1, Cell(Second, n)) = <<100 + n + 1>>
    BY <1>2, <1>5, <2>1, ZipMemory, BeginsLabelled
  <2>4. 0 + n + 1 = n + 1 OBVIOUS
  <2> QED BY <2>2, <2>3, <2>4
<1>7. WritesOnce(c, 1)
  <2> SUFFICES ASSUME NEW g \in GroupOf(l), NEW i \in ItemOf(l), NEW x \in DOMAIN Code(l, g, i, 0)
               PROVE  Result(c, 1, x) = FlattenSeq([m \in DOMAIN Code(l, g, i, 0)[x] |->
                                          FirstFound(c, 1, Code(l, g, i, 0)[x][m])])
    BY <1>5 DEF WritesOnce
  <2> DEFINE id == GlobalId(l, g, i)
             s == <<Cell(In, id), Cell(Second, id)>>
             f == <<id + 1, 100 + id + 1>>
             h == [m \in DOMAIN Code(l, g, i, 0)[x] |-> FirstFound(c, 1, Code(l, g, i, 0)[x][m])]
  <2>1. id < l.elements /\ x = Cell(l.out, id) /\ Code(l, g, i, 0)[x] = s
    BY <1>4, ZipStores DEF Stores
  <2>2. id \in Nat BY <1>4, GlobalIds
  <2>3. id \in 0 .. c.n - 1 BY <1>2, <1>4, <2>1, <2>2
  <2>4. h = [m \in 1 .. 2 |-> FirstFound(c, 1, s[m])]
    <3>1. DOMAIN s = 1 .. 2 OBVIOUS
    <3> HIDE DEF s
    <3> QED BY <2>1, <3>1
  <2>5. s[1] = Cell(In, id) /\ s[2] = Cell(Second, id) /\ f[1] = id + 1 /\ f[2] = 100 + id + 1
    OBVIOUS
  <2>6. x[2] = id BY <2>1 DEF Cell
  <2>7. Result(c, 1, x) = f BY <2>6 DEF Result, Zip_Result
  <2>8. Among(Int, f, 2)
    <3>1. \A m \in 1 .. 2 : m = 1 \/ m = 2 OBVIOUS
    <3> HIDE DEF f
    <3> QED BY <2>2, <2>5, <3>1 DEF Among
  <2>9. Firsts(f, 2) = f
    <3>1. f = [m \in 1 .. 2 |-> f[m]] OBVIOUS
    <3> QED BY <3>1 DEF Firsts
  <2> HIDE DEF id, s, f
  <2>10. DOMAIN h = 1 .. 2 /\ h = [m \in DOMAIN h |-> h[m]] /\ \A m \in 1 .. 2 : h[m] = <<f[m]>>
    <3>1. \A m \in 1 .. 2 : m = 1 \/ m = 2 OBVIOUS
    <3>2. FirstFound(c, 1, s[1]) = <<f[1]>> /\ FirstFound(c, 1, s[2]) = <<f[2]>>
      BY <1>6, <2>3, <2>5
    <3> QED BY <2>4, <3>1, <3>2
  <2> HIDE DEF h
  <2>11. FlattenSeq(h) = Firsts(f, 2) BY <2>8, <2>10, FlattenLabels
  <2> QED BY <2>7, <2>9, <2>11 DEF h
<1>8. Addressed(c, l)
  <2> SUFFICES ASSUME NEW g \in GroupOf(l), NEW i \in ItemOf(l), NEW p \in Nat,
                      NEW x \in DOMAIN Code(l, g, i, p)
               PROVE  /\ x \in Int \X Int
                      /\ Range(Code(l, g, i, p)[x]) \subseteq (DOMAIN Buffers(c) \cup {Shared}) \X Int
    BY DEF Addressed
  <2> DEFINE id == GlobalId(l, g, i)
  <2>1. x = Cell(l.out, id) /\ Code(l, g, i, p)[x] = <<Cell(In, id), Cell(Second, id)>>
    BY <1>4, ZipStores DEF Stores
  <2>2. id \in Int BY <1>4, GlobalIds
  <2> HIDE DEF id
  <2>3. Range(Code(l, g, i, p)[x]) = {Cell(In, id), Cell(Second, id)} BY <2>1, RangeOfTwo
  <2>4. /\ DOMAIN Buffers(c) = {In, Second, Out} /\ {In, Second, Out} \subseteq Int
    BY ZipMemory
  <2>5. l.out \in Int BY <1>2, <1>4, <2>4
  <2> QED BY <2>1, <2>2, <2>3, <2>4, <2>5 DEF Cell
<1>9. Explained(c)
  <2>1. Apart(c, l) BY <1>5, ZipIsSafe
  <2>2. Writes(c, 1) /\ Leaves(c, 1) BY <1>4, <1>5, <1>7, OnceExplains
  <2> QED BY <1>4, <1>8, <2>1, <2>2, ZipMemory, OnlyExplained
<1>10. ASSUME NEW n \in 0 .. c.n - 1
       PROVE  Start(c, Len(Launches(c)) + 1, Cell(c.out, n)) = <<n + 1, 100 + n + 1>>
  <2> DEFINE g == n \div c.side
             i == n % c.side
             x == Cell(c.out, n)
  <2>1. g \in GroupOf(l) /\ i \in ItemOf(l) /\ GlobalId(l, g, i) = n
    <3>1. n \in 0 .. l.groups * c.side - 1
      <4>1. /\ c.n <= CeilToMultipleOf(c.n, c.side)
            /\ CeilToMultipleOf(c.n, c.side) = (CeilToMultipleOf(c.n, c.side) \div c.side) * c.side
        BY <1>2, Rounded
      <4>2. l.groups * c.side \in Nat BY <1>2, <1>4, Times
      <4> QED BY <1>2, <1>4, <4>1, <4>2
    <3>2. /\ g \in 0 .. l.groups - 1 /\ i \in 0 .. c.side - 1
          /\ n = g * c.side + i
      BY <1>2, <1>4, <3>1, PlaceOf
    <3> QED BY <1>4, <3>2 DEF GroupOf, ItemOf, GlobalId
  <2> HIDE DEF g, i
  <2>2. DOMAIN Code(l, g, i, 0) = {x}
    <3>1. n < l.elements /\ x = Cell(l.out, n) BY <1>2, <1>4
    <3> QED BY <1>4, <2>1, <3>1, ZipStores DEF Stores
  <2>3. StoredBy(l, g, x) BY <1>4, <2>1, <2>2, StoredOnce
  <2>4. Start(c, Len(Launches(c)) + 1, x) = Result(c, 1, x) BY <1>4, <2>1, <2>3, AfterOnly
  <2>5. x[2] = n BY DEF Cell
  <2> QED BY <2>4, <2>5 DEF Result, Zip_Result
<1> QED BY <1>9, <1>10

-----------------------------------------------------------------------------
(***************************************************************************)
(* What Map computes.  Its items have a row and a column (0 in a line).    *)
(***************************************************************************)
LEMMA OfPlace ==
  ASSUME NEW w \in Positive, NEW r \in Nat, NEW c \in 0 .. w - 1
  PROVE  (r * w + c) \div w = r /\ (r * w + c) % w = c
<1> DEFINE n == r * w + c
           q == n \div w
<1>1. n \in Nat
  <2>1. w \in Nat BY DEF Positive
  <2>2. r * w \in Nat BY <2>1, Times
  <2> QED BY <2>1, <2>2
<1>2. q \in Nat /\ n % w \in 0 .. w - 1 /\ n = w * q + (n % w) BY <1>1, Division
<1> HIDE DEF q
<1>3. q * w + (n % w) = r * w + c BY <1>2 DEF Positive
<1> QED BY <1>2, <1>3, PlaceUnique DEF q

MapRow(l, g, i) == IF l.form \in LineForm THEN GlobalId(l, g, i) ELSE PointRow(l, g, i)
MapColumn(l, g, i) == IF l.form \in LineForm THEN 0 ELSE PointColumn(l, g, i)

\* The first row that Out has of the device's part, and the places of an element.
MapBase(c) == IF c.form \in {"indices, no result", "points, no result"} THEN Offset(c) ELSE 0

MapAt(c, r, k) == (r + MapBase(c)) * c.cols + k

MapFrom(c, r, k) ==
  IF OfElements(c) THEN r
  ELSE IF OfIndices(c) THEN r + Offset(c)
  ELSE (r + Offset(c)) * CeilToMultipleOf(c.cols, c.side) + k

IsOfMap(c, r, k) == r < Part(c) /\ k < c.cols

LEMMA MapBounds ==
  ASSUME NEW c, MapCall(c)
  PROVE  /\ Part(c) \in Nat /\ Offset(c) \in Nat /\ Total(c) \in Nat
         /\ Offset(c) + Part(c) <= Total(c) /\ MapBase(c) \in Nat
         /\ c.cols \in Positive /\ c.side \in Positive /\ c.cols \in Nat /\ c.side \in Nat
         /\ c.outPart \in Nat /\ c.outSize \in Nat
         /\ Part(c) * c.cols \in Nat /\ Part(c) * c.cols <= c.outPart /\ c.outPart <= c.outSize
         /\ ~ OfPoints(c) => c.cols = 1
         /\ c.form \in MapForm /\ (c.form \in LineForm \/ c.form \in PointForm)
<1>1. /\ Part(c) \in Nat /\ Offset(c) \in Nat /\ Total(c) \in Nat
      /\ Offset(c) + Part(c) <= Total(c)
  BY PartWithinTotal
<1>2. c.cols \in Nat /\ c.side \in Nat BY DEF MapCall, Positive
<1>3. Part(c) * c.cols \in Nat BY <1>1, <1>2, Times
<1>4. MapBase(c) \in Nat BY <1>1 DEF MapBase
<1>5. c.form \in MapForm /\ (c.form \in LineForm \/ c.form \in PointForm)
  BY DEF MapCall, MapForm, LineForm, PointForm
<1> QED BY <1>1, <1>2, <1>3, <1>4, <1>5 DEF MapCall, Part

LEMMA MapLine ==
  ASSUME NEW c, c.skeleton = "map", MapCall(c), c.form \in LineForm, WholeGroups(c),
         NEW g \in GroupOf(MapLaunch(c)), NEW i \in ItemOf(MapLaunch(c)), NEW p
  PROVE  LET l == MapLaunch(c)
             r == MapRow(l, g, i)
             k == MapColumn(l, g, i)
         IN  /\ r \in Nat /\ k = 0
             /\ IF IsOfMap(c, r, k)
                THEN Stores(Code(l, g, i, p), Cell(Out, MapAt(c, r, k)), <<Cell(In, MapFrom(c, r, k))>>)
                ELSE DOMAIN Code(l, g, i, p) = {}
<1> DEFINE l == MapLaunch(c)
           n == CeilToMultipleOf(Part(c), c.side)
           id == GlobalId(l, g, i)
           code == Code(l, g, i, p)
<1>1. /\ l.form = c.form /\ l.kernel = "SCL_MAP"
      /\ l.side = c.side /\ l.items = c.side /\ l.groups = n \div c.side
      /\ c.form \in {"elements", "elements, no result", "indices, no result"} =>
           l.elements = Part(c)
      /\ c.form = "indices" => l.outSize = c.outSize
      /\ c.form \in {"indices", "indices, no result"} => l.offset = Offset(c)
  BY MapFacts
<1>2. /\ Part(c) \in Nat /\ Offset(c) \in Nat /\ c.side \in Positive /\ c.side \in Nat
      /\ c.outPart \in Nat /\ c.outSize \in Nat
      /\ Part(c) * c.cols <= c.outPart /\ c.outPart <= c.outSize
      /\ ~ OfPoints(c) => c.cols = 1
  BY MapBounds
<1>3. c.cols = 1 BY <1>2 DEF LineForm, OfPoints
<1>4. n \div c.side \in Positive /\ n = (n \div c.side) * c.side BY <1>2, Rounded
<1>5. g \in GroupOf(l) /\ i \in ItemOf(l) OBVIOUS
<1>6. code = MapCode(l, g, i) BY <1>1 DEF Code
<1>7. MapRow(l, g, i) = id /\ MapColumn(l, g, i) = 0 BY <1>1 DEF MapRow, MapColumn
<1> HIDE DEF l, n, code
<1>8. id \in Nat /\ id < n
  <2>1. l.side \in Positive /\ l.items = l.side /\ l.groups \in Nat /\ l.groups * l.side = n
    BY <1>1, <1>2, <1>4 DEF Positive
  <2>2. id \in 0 .. l.groups * l.side - 1 BY <2>1, <1>5, GlobalIds
  <2> HIDE DEF id
  <2>3. n \in Nat BY <2>1, <1>2, <1>1, Times
  <2> QED BY <2>1, <2>2, <2>3
<1> HIDE DEF id
<1>9. n \in Nat BY <1>2, <1>4, Times DEF Positive
<1>10. IsOfMap(c, id, 0) <=> id < Part(c) BY <1>3 DEF IsOfMap
<1>11. SUFFICES \E at, from : /\ at = MapAt(c, id, 0) /\ from = MapFrom(c, id, 0)
                              /\ code = IF id < Part(c) THEN Copied(Cell(Out, at), Cell(In, from))
                                        ELSE Nothing
  <2>1. PICK at, from : /\ at = MapAt(c, id, 0) /\ from = MapFrom(c, id, 0)
                        /\ code = IF id < Part(c) THEN Copied(Cell(Out, at), Cell(In, from))
                                  ELSE Nothing
    BY <1>11
  <2> DEFINE s == <<Cell(In, from)>>
  <2>2. Copied(Cell(Out, at), Cell(In, from)) = At(Cell(Out, at), s) BY DEF Copied
  <2> HIDE DEF s
  <2>3. Stores(At(Cell(Out, at), s), Cell(Out, at), s) BY StoresOne
  <2>4. IF id < Part(c) THEN Stores(code, Cell(Out, at), s) ELSE DOMAIN code = {}
    BY <2>1, <2>2, <2>3, CodeOfNone
  <2> QED BY <2>1, <2>4, <1>7, <1>8, <1>10 DEF s, l, code
<1>12. id * c.cols + 0 = id /\ (id + Offset(c)) * c.cols + 0 = id + Offset(c)
  BY <1>2, <1>3, <1>8
<1>13. (id + 0) * c.cols + 0 = id BY <1>3, <1>8
<1>14. CASE c.form = "elements"
  <2>1. MapAt(c, id, 0) = id /\ MapFrom(c, id, 0) = id
    BY <1>14, <1>13 DEF MapAt, MapBase, MapFrom, OfElements
  <2>2. code = ElementsCode(l, id) /\ l.elements = Part(c) BY <1>1, <1>6, <1>14 DEF MapCode, id
  <2> QED BY <2>1, <2>2 DEF ElementsCode
<1>15. CASE c.form = "elements, no result"
  <2>1. MapAt(c, id, 0) = id /\ MapFrom(c, id, 0) = id
    BY <1>15, <1>13 DEF MapAt, MapBase, MapFrom, OfElements
  <2>2. code = ElementsVoidCode(l, id) /\ l.elements = Part(c)
    BY <1>1, <1>6, <1>15 DEF MapCode, id
  <2> QED BY <2>1, <2>2 DEF ElementsVoidCode
<1>16. CASE c.form = "indices"
  <2>1. MapAt(c, id, 0) = id /\ MapFrom(c, id, 0) = id + Offset(c)
    BY <1>16, <1>13 DEF MapAt, MapBase, MapFrom, OfElements, OfIndices
  <2>2. code = IndicesCode(l, id) /\ l.outSize = c.outSize /\ l.offset = Offset(c)
    BY <1>1, <1>6, <1>16 DEF MapCode, id
  <2>3. id < c.outSize <=> id < Part(c)
    <3>1. Min({n * c.cols, c.outSize}) <= Part(c) * c.cols BY <1>16 DEF WholeGroups, n, Part
    <3>2. n * c.cols = n /\ Part(c) * c.cols = Part(c) BY <1>2, <1>3, <1>9
    <3>3. Min({n, c.outSize}) <= Part(c) BY <3>1, <3>2
    <3>4. Min({n, c.outSize}) \in {n, c.outSize} BY <1>2, <1>9, MinOfTwo
    <3> QED BY <3>2, <3>3, <3>4, <1>2, <1>8, <1>9
  <2> QED BY <2>1, <2>2, <2>3 DEF IndicesCode
<1>17. CASE c.form = "indices, no result"
  <2>1. MapAt(c, id, 0) = id + Offset(c) /\ MapFrom(c, id, 0) = id + Offset(c)
    BY <1>17, <1>12 DEF MapAt, MapBase, MapFrom, OfElements, OfIndices
  <2>2. code = IndicesVoidCode(l, id) /\ l.elements = Part(c) /\ l.offset = Offset(c)
    BY <1>1, <1>6, <1>17 DEF MapCode, id
  <2> QED BY <2>1, <2>2 DEF IndicesVoidCode
<1> QED BY <1>14, <1>15, <1>16, <1>17 DEF LineForm

LEMMA MapArea ==
  ASSUME NEW c, c.skeleton = "map", MapCall(c), c.form \in PointForm,
         WholeGroups(c), WholeColumns(c),
         NEW g \in GroupOf(MapLaunch(c)), NEW i \in ItemOf(MapLaunch(c)), NEW p
  PROVE  LET l == MapLaunch(c)
             r == MapRow(l, g, i)
             k == MapColumn(l, g, i)
         IN  /\ r \in Nat /\ k \in Nat
             /\ IF IsOfMap(c, r, k)
                THEN Stores(Code(l, g, i, p), Cell(Out, MapAt(c, r, k)), <<Cell(In, MapFrom(c, r, k))>>)
                ELSE DOMAIN Code(l, g, i, p) = {}
<1> DEFINE l == MapLaunch(c)
           n == CeilToMultipleOf(Part(c), c.side)
           w == CeilToMultipleOf(c.cols, c.side)
           across == w \div c.side
           r == PointRow(l, g, i)
           k == PointColumn(l, g, i)
           code == Code(l, g, i, p)
<1>1. l.form = c.form /\ l.kernel = "SCL_MAP" BY MapFacts
<1>2. /\ l.side = c.side /\ l.items = c.side * c.side /\ l.down = n \div c.side
      /\ l.groups = l.down * across /\ l.width = w
      /\ l.rowOffset = Offset(c) /\ l.colCount = c.cols
      /\ c.form = "points" => l.outSize = c.outSize
      /\ c.form = "points, no result" => l.rowCount = Part(c)
  BY PointFacts
<1>3. /\ Part(c) \in Nat /\ Offset(c) \in Nat /\ c.side \in Positive /\ c.side \in Nat
      /\ c.cols \in Positive /\ c.cols \in Nat /\ c.outPart \in Nat /\ c.outSize \in Nat
      /\ Part(c) * c.cols \in Nat /\ Part(c) * c.cols <= c.outPart /\ c.outPart <= c.outSize
  BY MapBounds
<1>4. /\ n \div c.side \in Positive /\ n = (n \div c.side) * c.side
      /\ across \in Positive /\ w = across * c.side
      /\ c.cols # 0 /\ c.cols % c.side = 0 => w = c.cols
  BY <1>3, Rounded
<1>5. g \in GroupOf(l) /\ i \in ItemOf(l) OBVIOUS
<1>6. code = MapCode(l, g, i) BY <1>1 DEF Code
<1>7. MapRow(l, g, i) = r /\ MapColumn(l, g, i) = k
  BY <1>1 DEF MapRow, MapColumn, LineForm, PointForm
<1> HIDE DEF l, n, w, across, code
<1>8. n \in Nat /\ w \in Nat BY <1>3, <1>4, Times DEF Positive
<1>9. r \in 0 .. n - 1 /\ k \in 0 .. w - 1 /\ r \in Nat /\ k \in Nat
  <2>1. l.side \in Positive /\ l.items = l.side * l.side /\ l.down \in Positive
    BY <1>2, <1>3, <1>4
  <2>2. r \in 0 .. l.down * l.side - 1 /\ k \in 0 .. across * l.side - 1
    BY <2>1, <1>2, <1>4, <1>5, PointIds
  <2>3. l.down * l.side = n /\ across * l.side = w BY <1>2, <1>4
  <2> HIDE DEF r, k
  <2> QED BY <2>2, <2>3, <1>8
<1> HIDE DEF r, k
<1>11. SUFFICES \E at, from : /\ at = MapAt(c, r, k) /\ from = MapFrom(c, r, k)
                              /\ code = IF IsOfMap(c, r, k) THEN Copied(Cell(Out, at), Cell(In, from))
                                        ELSE Nothing
  <2>1. PICK at, from : /\ at = MapAt(c, r, k) /\ from = MapFrom(c, r, k)
                        /\ code = IF IsOfMap(c, r, k) THEN Copied(Cell(Out, at), Cell(In, from))
                                  ELSE Nothing
    BY <1>11
  <2> DEFINE s == <<Cell(In, from)>>
  <2>2. Copied(Cell(Out, at), Cell(In, from)) = At(Cell(Out, at), s) BY DEF Copied
  <2> HIDE DEF s
  <2>3. Stores(At(Cell(Out, at), s), Cell(Out, at), s) BY StoresOne
  <2>4. IF IsOfMap(c, r, k) THEN Stores(code, Cell(Out, at), s) ELSE DOMAIN code = {}
    BY <2>1, <2>2, <2>3, CodeOfNone
  <2> QED BY <2>1, <2>4, <1>7, <1>9 DEF s, l, code
<1>12. CASE c.form = "points"
  <2> DEFINE at == r * c.cols + k
  <2>1. MapAt(c, r, k) = at
    <3>1. (r + 0) * c.cols + k = r * c.cols + k BY <1>3, <1>9
    <3> QED BY <3>1, <1>12 DEF MapAt, MapBase
  <2>2. MapFrom(c, r, k) = (r + Offset(c)) * w + k
    BY <1>12 DEF MapFrom, OfElements, OfIndices, w
  <2>3. code = PointsCode(l, r, k) /\ l.outSize = c.outSize
    BY <1>1, <1>2, <1>6, <1>12 DEF MapCode, r, k
  <2>4. k \in 0 .. c.cols - 1 BY <1>3, <1>4, <1>9, <1>12 DEF WholeColumns, Positive
  <2>5. at < c.outSize <=> IsOfMap(c, r, k)
    <3>1. Min({n * c.cols, c.outSize}) <= Part(c) * c.cols BY <1>12 DEF WholeGroups, n, Part
    <3>2. n * c.cols \in Nat BY <1>3, <1>8, Times
    <3>3. Min({n * c.cols, c.outSize}) \in {n * c.cols, c.outSize}
      <4> DEFINE m == n * c.cols
      <4> HIDE DEF m
      <4>1. m \in Int /\ c.outSize \in Int BY <3>2, <1>3 DEF m
      <4>2. Min({m, c.outSize}) \in {m, c.outSize} BY <4>1, MinOfTwo
      <4> QED BY <4>2 DEF m
    <3>4. at \in 0 .. n * c.cols - 1 BY <1>3, <1>8, <1>9, <2>4, Place
    <3>5. ASSUME r < Part(c) PROVE at < Part(c) * c.cols
      <4>1. r \in 0 .. Part(c) - 1 BY <3>5, <1>3, <1>9
      <4>2. at \in 0 .. Part(c) * c.cols - 1 BY <4>1, <1>3, <2>4, Place
      <4> HIDE DEF at
      <4> QED BY <4>2, <1>3
    <3>6. ASSUME ~ (r < Part(c)) PROVE Part(c) * c.cols <= at
      <4>1. Part(c) * c.cols <= r * c.cols BY <3>6, <1>3, <1>9, Monotone
      <4>2. r * c.cols \in Nat BY <1>3, <1>9, Times
      <4> QED BY <4>1, <4>2, <1>3, <1>9
    <3> DEFINE part == Part(c) * c.cols
               m == n * c.cols
    <3>7. /\ at \in Nat /\ at < m /\ m \in Nat /\ part \in Nat /\ part <= c.outSize
          /\ m <= part \/ c.outSize <= part
      <4>1. part \in Nat /\ part <= c.outSize BY <1>3
      <4>2. at \in Nat /\ at < m
        <5> HIDE DEF at, m
        <5> QED BY <3>2, <3>4 DEF m
      <4> QED BY <3>1, <3>2, <3>3, <4>1, <4>2
    <3>8. IsOfMap(c, r, k) <=> r < Part(c) BY <2>4, <1>3 DEF IsOfMap
    <3>9. (r < Part(c) => at < part) /\ (~ (r < Part(c)) => part <= at) BY <3>5, <3>6
    <3> HIDE DEF at, m, part
    <3> QED BY <3>7, <3>8, <3>9, <1>3
  <2> HIDE DEF at
  <2> QED BY <2>1, <2>2, <2>3, <2>5, <1>2 DEF PointsCode, Point, at
<1>13. CASE c.form = "points, no result"
  <2>1. MapAt(c, r, k) = (r + Offset(c)) * c.cols + k BY <1>13 DEF MapAt, MapBase
  <2>2. MapFrom(c, r, k) = (r + Offset(c)) * w + k
    BY <1>13 DEF MapFrom, OfElements, OfIndices, w
  <2>3. code = PointsVoidCode(l, r, k) /\ l.rowCount = Part(c)
    BY <1>1, <1>2, <1>6, <1>13 DEF MapCode, r, k
  <2> QED BY <2>1, <2>2, <2>3, <1>2 DEF PointsVoidCode, Point, IsOfMap
<1> QED BY <1>12, <1>13 DEF PointForm

\* An item for each element.
LEMMA MapCovers ==
  ASSUME NEW c, c.skeleton = "map", MapCall(c), NEW r \in 0 .. Part(c) - 1, NEW k \in 0 .. c.cols - 1
  PROVE  \E g \in GroupOf(MapLaunch(c)), i \in ItemOf(MapLaunch(c)) :
           MapRow(MapLaunch(c), g, i) = r /\ MapColumn(MapLaunch(c), g, i) = k
<1> DEFINE l == MapLaunch(c)
           n == CeilToMultipleOf(Part(c), c.side)
           w == CeilToMultipleOf(c.cols, c.side)
<1>1. l.form = c.form BY MapFacts
<1>2. /\ Part(c) \in Nat /\ c.side \in Positive /\ c.side \in Nat /\ c.cols \in Nat
      /\ ~ OfPoints(c) => c.cols = 1
      /\ c.form \in LineForm \/ c.form \in PointForm
  BY MapBounds
<1>3. /\ n \div c.side \in Positive /\ n = (n \div c.side) * c.side /\ Part(c) <= n
      /\ w \div c.side \in Positive /\ w = (w \div c.side) * c.side /\ c.cols <= w
  BY <1>2, Rounded
<1>4. n \in Nat /\ w \in Nat BY <1>2, <1>3, Times DEF Positive
<1>5. c.form \in LineForm => l.side = c.side /\ l.items = c.side /\ l.groups = n \div c.side
  BY MapFacts
<1>6. c.form \in PointForm =>
        /\ l.side = c.side /\ l.items = c.side * c.side /\ l.down = n \div c.side
        /\ l.groups = l.down * (w \div c.side)
  BY PointFacts
<1> HIDE DEF l, n, w
<1>7. r \in 0 .. n - 1 /\ k \in 0 .. w - 1 BY <1>2, <1>3, <1>4
<1>8. /\ r \div c.side \in 0 .. (n \div c.side) - 1 /\ r % c.side \in 0 .. c.side - 1
      /\ r = (r \div c.side) * c.side + (r % c.side)
  <2> DEFINE h == n \div c.side
  <2>1. h \in Nat /\ r \in 0 .. h * c.side - 1 BY <1>3, <1>7 DEF Positive
  <2> HIDE DEF h
  <2>2. r \div c.side \in 0 .. h - 1 /\ r % c.side \in 0 .. c.side - 1
        /\ r = (r \div c.side) * c.side + (r % c.side)
    BY <2>1, <1>2, PlaceOf
  <2> QED BY <2>2 DEF h
<1>9. /\ k \div c.side \in 0 .. (w \div c.side) - 1 /\ k % c.side \in 0 .. c.side - 1
      /\ k = (k \div c.side) * c.side + (k % c.side)
  <2> DEFINE h == w \div c.side
  <2>1. h \in Nat /\ k \in 0 .. h * c.side - 1 BY <1>3, <1>7 DEF Positive
  <2> HIDE DEF h
  <2>2. k \div c.side \in 0 .. h - 1 /\ k % c.side \in 0 .. c.side - 1
        /\ k = (k \div c.side) * c.side + (k % c.side)
    BY <2>1, <1>2, PlaceOf
  <2> QED BY <2>2 DEF h
<1> DEFINE gr == r \div c.side
           ir == r % c.side
           gk == k \div c.side
           ik == k % c.side
           down == n \div c.side
           across == w \div c.side
<1>10. /\ gr \in 0 .. down - 1 /\ ir \in 0 .. c.side - 1 /\ r = gr * c.side + ir
       /\ gk \in 0 .. across - 1 /\ ik \in 0 .. c.side - 1 /\ k = gk * c.side + ik
       /\ down \in Positive /\ across \in Positive /\ down \in Nat /\ across \in Nat
  BY <1>3, <1>8, <1>9 DEF Positive
<1>11. CASE c.form \in LineForm
  <2>1. k = 0
    <3>1. c.cols = 1 BY <1>2, <1>11 DEF OfPoints, LineForm
    <3>2. k \in 0 .. c.cols - 1 OBVIOUS
    <3> QED BY <3>1, <3>2
  <2>2. l.groups = down /\ l.items = c.side /\ l.side = c.side BY <1>5, <1>11
  <2> HIDE DEF gr, ir, gk, ik, down, across
  <2>3. gr \in GroupOf(l) /\ ir \in ItemOf(l) BY <1>10, <2>2 DEF GroupOf, ItemOf
  <2>4. MapRow(l, gr, ir) = r /\ MapColumn(l, gr, ir) = 0
    BY <1>1, <1>10, <1>11, <2>2 DEF MapRow, MapColumn, GlobalId
  <2> QED BY <2>1, <2>3, <2>4 DEF l
<1>12. CASE c.form \in PointForm
  <2>1. /\ l.side = c.side /\ l.items = c.side * c.side /\ l.down = down
        /\ l.groups = down * across
    BY <1>6, <1>12
  <2> HIDE DEF gr, ir, gk, ik, down, across
  <2> DEFINE g == gk * down + gr
             i == ik * c.side + ir
  <2>2. g \in 0 .. across * down - 1 /\ i \in 0 .. c.side * c.side - 1
    BY <1>2, <1>10, Place
  <2>3. across * down = down * across BY <1>10
  <2>4. g \in GroupOf(l) /\ i \in ItemOf(l)
    <3> HIDE DEF g, i
    <3> QED BY <2>1, <2>2, <2>3 DEF GroupOf, ItemOf
  <2>5. g % down = gr /\ g \div down = gk /\ i % c.side = ir /\ i \div c.side = ik
    <3>1. gr \in Nat /\ ir \in Nat /\ gk \in Nat /\ ik \in Nat BY <1>2, <1>10
    <3>2. g % down = gr /\ g \div down = gk BY <1>10, <3>1, OfPlace
    <3>3. c.side \in Positive /\ ik \in Nat /\ ir \in 0 .. c.side - 1 BY <1>2, <1>10, <3>1
    <3>4. i % c.side = ir /\ i \div c.side = ik BY <3>3, OfPlace
    <3> QED BY <3>2, <3>4
  <2> HIDE DEF g, i
  <2>6. PointRow(l, g, i) = r /\ PointColumn(l, g, i) = k
    BY <1>10, <2>1, <2>5 DEF PointRow, PointColumn
  <2>7. MapRow(l, g, i) = r /\ MapColumn(l, g, i) = k
    BY <1>1, <1>12, <2>6 DEF MapRow, MapColumn, LineForm, PointForm
  <2> QED BY <2>4, <2>7 DEF l
<1> QED BY <1>2, <1>11, <1>12

\* What the items store, and that they store all.
ItemsOfMap(c, l) ==
  \A g \in GroupOf(l), i \in ItemOf(l), p \in Nat :
    LET r == MapRow(l, g, i)
        k == MapColumn(l, g, i)
    IN  /\ r \in Nat /\ k \in Nat
        /\ IF IsOfMap(c, r, k)
           THEN Stores(Code(l, g, i, p), Cell(Out, MapAt(c, r, k)), <<Cell(In, MapFrom(c, r, k))>>)
           ELSE DOMAIN Code(l, g, i, p) = {}

LEMMA MapStores ==
  ASSUME NEW c, c.skeleton = "map", MapCall(c), WholeGroups(c), WholeColumns(c)
  PROVE  ItemsOfMap(c, MapLaunch(c))
<1> DEFINE l == MapLaunch(c)
<1>1. SUFFICES ASSUME NEW g \in GroupOf(l), NEW i \in ItemOf(l), NEW p \in Nat
      PROVE LET r == MapRow(l, g, i)
                k == MapColumn(l, g, i)
            IN  /\ r \in Nat /\ k \in Nat
                /\ IF IsOfMap(c, r, k)
                   THEN Stores(Code(l, g, i, p), Cell(Out, MapAt(c, r, k)), <<Cell(In, MapFrom(c, r, k))>>)
                   ELSE DOMAIN Code(l, g, i, p) = {}
  BY DEF ItemsOfMap
<1>2. CASE c.form \in LineForm
  <2>1. MapRow(l, g, i) \in Nat /\ MapColumn(l, g, i) = 0 BY <1>2, MapLine
  <2>2. LET r == MapRow(l, g, i)
            k == MapColumn(l, g, i)
        IN  IF IsOfMap(c, r, k)
            THEN Stores(Code(l, g, i, p), Cell(Out, MapAt(c, r, k)), <<Cell(In, MapFrom(c, r, k))>>)
            ELSE DOMAIN Code(l, g, i, p) = {}
    BY <1>2, MapLine
  <2> HIDE DEF l
  <2> QED BY <2>1, <2>2
<1>3. CASE c.form \in PointForm BY <1>3, MapArea
<1> QED BY <1>2, <1>3, MapBounds

LEMMA MapMemory ==
  ASSUME NEW c, c.skeleton = "map", MapCall(c)
  PROVE  /\ Numbered(c)
         /\ DOMAIN Buffers(c) = {In, Out} /\ {In, Out} \subseteq Int \ {Shared} /\ In # Out
         /\ Buffers(c)[Out] = Fresh(OutSize(c)) /\ OutSize(c) \in Nat
         /\ \E m \in Nat : /\ Buffers(c)[In] = Labelled(m, 0)
                           /\ \A r \in 0 .. Part(c) - 1, k \in 0 .. c.cols - 1 :
                                MapFrom(c, r, k) \in 0 .. m - 1
<1> DEFINE t == CeilToMultipleOf(Total(c), c.side)
           w == CeilToMultipleOf(c.cols, c.side)
           all == t * w
           m == IF OfElements(c) THEN Part(c) ELSE 2 * all
<1>1. /\ Part(c) \in Nat /\ Offset(c) \in Nat /\ Total(c) \in Nat
      /\ Offset(c) + Part(c) <= Total(c) /\ c.outPart \in Nat
      /\ c.cols \in Positive /\ c.side \in Positive /\ c.cols \in Nat /\ c.side \in Nat
      /\ ~ OfPoints(c) => c.cols = 1
  BY MapBounds
<1>2. /\ t = (t \div c.side) * c.side /\ t \div c.side \in Positive /\ Total(c) <= t
      /\ w = (w \div c.side) * c.side /\ w \div c.side \in Positive /\ c.cols <= w
  BY <1>1, Rounded
<1>3. t \in Nat /\ w \in Nat BY <1>1, <1>2, Times DEF Positive
<1>4. /\ Buffers(c)[In] = Labelled(m, 0) /\ Buffers(c)[Out] = Fresh(OutSize(c))
      /\ DOMAIN Buffers(c) = {In, Out}
  <2>1. Buffers(c) = MapBuffers(c) BY DEF Buffers
  <2>2. MapBuffers(c) = [b \in {In, Out} |-> IF b = In THEN Labelled(m, 0) ELSE Fresh(OutSize(c))]
    BY DEF MapBuffers, OutSize
  <2>3. In # Out BY DEF In, Out
  <2> HIDE DEF m
  <2> QED BY <2>1, <2>2, <2>3
<1> HIDE DEF t, w
<1>5. all \in Nat BY <1>3, Times
<1> HIDE DEF all
<1>6. m \in Nat BY <1>1, <1>5
<1>7. OutSize(c) \in Nat
  <2>1. Total(c) * c.cols \in Nat BY <1>1, Times
  <2> DEFINE s == Total(c) * c.cols
  <2>2. s \in Nat BY <2>1
  <2> HIDE DEF s
  <2> QED BY <2>2, <1>1 DEF OutSize, s
<1>8. ASSUME NEW r \in 0 .. Part(c) - 1, NEW k \in 0 .. c.cols - 1
      PROVE  MapFrom(c, r, k) \in 0 .. m - 1
  <2>1. CASE OfElements(c) BY <1>1, <2>1 DEF MapFrom
  <2> DEFINE y == r + Offset(c)
  <2>2. y \in 0 .. t - 1 BY <1>1, <1>2, <1>3
  <2>3. k \in 0 .. w - 1 BY <1>1, <1>2, <1>3
  <2> HIDE DEF y
  <2>4. y * w + k \in 0 .. t * w - 1 BY <2>2, <2>3, <1>3, Place
  <2>5. CASE ~ OfElements(c) /\ OfIndices(c)
    <3>1. MapFrom(c, r, k) = y BY <2>5 DEF MapFrom, y
    <3>2. y <= y * w
      <4>1. y * 1 <= y * w BY <2>2, <2>3, <1>3, Monotone
      <4> QED BY <4>1, <2>2
    <3>3. y * w \in Nat BY <2>2, <1>3, Times
    <3>4. y * w + k <= all - 1 /\ m = 2 * all BY <2>4, <2>5, <1>5 DEF all
    <3> DEFINE yw == y * w
    <3>5. y <= yw /\ yw \in Nat /\ yw + k <= all - 1 BY <3>2, <3>3, <3>4
    <3>6. y \in Nat /\ k \in Nat BY <2>2, <2>3
    <3> HIDE DEF yw, m
    <3> QED BY <3>1, <3>4, <3>5, <3>6, <1>5
  <2>6. CASE ~ OfElements(c) /\ ~ OfIndices(c)
    <3>1. MapFrom(c, r, k) = y * w + k BY <2>6 DEF MapFrom, y, w
    <3>2. m = 2 * all BY <2>6
    <3> DEFINE n == y * w + k
    <3>3. n \in 0 .. all - 1 BY <2>4 DEF all
    <3> HIDE DEF n, m
    <3> QED BY <3>1, <3>2, <3>3, <1>5 DEF n
  <2> QED BY <2>1, <2>5, <2>6
<1> HIDE DEF m
<1>9. {In, Out} \subseteq Int \ {Shared} /\ In # Out BY DEF In, Out, Shared
<1>10. \A b \in {In, Out} : DOMAIN Buffers(c)[b] \subseteq Int
  BY <1>4, <1>6, <1>7 DEF Labelled, Fresh
<1> QED BY <1>4, <1>6, <1>7, <1>8, <1>9, <1>10 DEF Numbered

LEMMA MapShape ==
  ASSUME NEW c, c.skeleton = "map", MapCall(c)
  PROVE  Only(c, MapLaunch(c)) /\ MapLaunch(c).kernel = "SCL_MAP"
<1>1. Launches(c) = <<MapLaunch(c)>> BY DEF Launches
<1>2. LaunchOf(c) = {MapLaunch(c)} /\ MapLaunch(c).kernel = "SCL_MAP" BY MapFacts
<1> QED BY <1>1, <1>2 DEF Only

\* Of what an element is made.
LEMMA MapSources ==
  ASSUME NEW c, MapCall(c), NEW r \in Nat, NEW k \in Nat, IsOfMap(c, r, k)
  PROVE  MapSource(c, MapAt(c, r, k)) = MapFrom(c, r, k)
<1>1. /\ Offset(c) \in Nat /\ c.cols \in Positive /\ c.cols \in Nat
      /\ MapBase(c) \in Nat /\ c.form \in MapForm
      /\ ~ OfPoints(c) => c.cols = 1
  BY MapBounds
<1>2. k \in 0 .. c.cols - 1 BY <1>1 DEF IsOfMap
<1> DEFINE y == r + MapBase(c)
           at == y * c.cols + k
<1>3. y \in Nat BY <1>1
<1>4. MapAt(c, r, k) = at BY DEF MapAt
<1> HIDE DEF y
<1>5. at \div c.cols = y /\ at % c.cols = k BY <1>1, <1>2, <1>3, OfPlace
<1>6. c.cols = 1 => at = y /\ k = 0
  <2>1. c.cols = 1 => k = 0 BY <1>2
  <2>2. y * 1 + 0 = y BY <1>3
  <2> QED BY <2>1, <2>2
<1> HIDE DEF at
<1>7. CASE c.form \in {"elements", "elements, no result"}
  <2>1. c.cols = 1 /\ MapBase(c) = 0 BY <1>7, <1>1 DEF OfPoints, MapBase
  <2>2. y = r BY <2>1 DEF y
  <2> QED BY <1>4, <1>6, <1>7, <2>1, <2>2 DEF MapSource, MapFrom, OfElements
<1>8. CASE c.form = "indices"
  <2>1. c.cols = 1 /\ MapBase(c) = 0 BY <1>8, <1>1 DEF OfPoints, MapBase
  <2>2. y = r BY <2>1 DEF y
  <2> QED BY <1>4, <1>6, <1>8, <2>1, <2>2 DEF MapSource, MapFrom, OfElements, OfIndices
<1>9. CASE c.form = "indices, no result"
  <2>1. c.cols = 1 /\ MapBase(c) = Offset(c) BY <1>9, <1>1 DEF OfPoints, MapBase
  <2>2. y = r + Offset(c) BY <2>1 DEF y
  <2> QED BY <1>4, <1>6, <1>9, <2>1, <2>2 DEF MapSource, MapFrom, OfElements, OfIndices
<1>10. CASE c.form = "points"
  <2>1. MapBase(c) = 0 BY <1>10 DEF MapBase
  <2>2. y = r BY <2>1 DEF y
  <2> QED BY <1>4, <1>5, <1>10, <2>2 DEF MapSource, MapFrom, OfElements, OfIndices
<1>11. CASE c.form = "points, no result"
  <2>1. y = r + Offset(c) BY <1>11 DEF MapBase, y
  <2> QED BY <1>4, <1>5, <1>11, <2>1 DEF MapSource, MapFrom, OfElements, OfIndices
<1> QED BY <1>1, <1>7, <1>8, <1>9, <1>10, <1>11 DEF MapForm

LEMMA MapExplained ==
  ASSUME NEW c, c.skeleton = "map", MapCall(c), WholeGroups(c), WholeColumns(c)
  PROVE  /\ Explained(c)
         /\ \A n \in 0 .. OutSize(c) - 1 :
              Start(c, Len(Launches(c)) + 1, Cell(Out, n)) =
                IF n - MapBase(c) * c.cols \in 0 .. Part(c) * c.cols - 1
                THEN <<MapSource(c, n) + 1>> ELSE JunkValue
<1> DEFINE l == MapLaunch(c)
<1>1. /\ Only(c, l) /\ OnePhase(l) /\ l.kernel = "SCL_MAP" BY MapShape DEF OnePhase
<1>2. ItemsOfMap(c, l) BY MapStores
<1>3. \A r \in 0 .. Part(c) - 1, k \in 0 .. c.cols - 1 :
        \E g \in GroupOf(l), i \in ItemOf(l) : MapRow(l, g, i) = r /\ MapColumn(l, g, i) = k
  BY MapCovers
<1>4. /\ DOMAIN Launches(c) = {1} /\ Launches(c)[1] = l
      /\ Launches(c) \in Seq(LaunchOf(c)) /\ LaunchOf(c) = {l}
  BY <1>1, OnlyFacts
<1>5. Apart(c, l) BY <1>4, MapIsSafe
<1> HIDE DEF l
<1>6. /\ Part(c) \in Nat /\ MapBase(c) \in Nat /\ c.cols \in Positive /\ c.cols \in Nat
      /\ Part(c) * c.cols \in Nat
  BY MapBounds
<1>7. \A r \in Nat, k \in Nat : IsOfMap(c, r, k) => r \in 0 .. Part(c) - 1 /\ k \in 0 .. c.cols - 1
  BY <1>6 DEF IsOfMap
<1>8. ASSUME NEW r \in Nat, NEW k \in Nat, IsOfMap(c, r, k)
      PROVE  FirstFound(c, 1, Cell(In, MapFrom(c, r, k))) = <<MapFrom(c, r, k) + 1>>
             /\ MapFrom(c, r, k) \in Nat
  <2> DEFINE n == MapFrom(c, r, k)
  <2>1. PICK m \in Nat : Buffers(c)[In] = Labelled(m, 0) /\ n \in 0 .. m - 1
    BY <1>7, <1>8, MapMemory
  <2>2. In \in DOMAIN Buffers(c) \ {Shared} BY MapMemory
  <2> HIDE DEF n
  <2>3. FirstFound(c, 1, Cell(In, n)) = <<0 + n + 1>> BY <1>4, <2>1, <2>2, BeginsLabelled
  <2>4. 0 + n + 1 = n + 1 /\ n \in Nat BY <2>1
  <2> QED BY <2>3, <2>4 DEF n
<1>9. ASSUME NEW g \in GroupOf(l), NEW i \in ItemOf(l), NEW p \in Nat, NEW x \in DOMAIN Code(l, g, i, p)
      PROVE  \E r \in Nat, k \in Nat :
               /\ IsOfMap(c, r, k) /\ x = Cell(Out, MapAt(c, r, k))
               /\ Code(l, g, i, p)[x] = <<Cell(In, MapFrom(c, r, k))>>
  <2> DEFINE r == MapRow(l, g, i)
             k == MapColumn(l, g, i)
  <2>1. /\ r \in Nat /\ k \in Nat
        /\ IF IsOfMap(c, r, k)
           THEN Stores(Code(l, g, i, p), Cell(Out, MapAt(c, r, k)), <<Cell(In, MapFrom(c, r, k))>>)
           ELSE DOMAIN Code(l, g, i, p) = {}
    BY <1>2 DEF ItemsOfMap
  <2> HIDE DEF r, k
  <2> QED BY <2>1 DEF Stores
<1>10. WritesOnce(c, 1)
  <2> SUFFICES ASSUME NEW g \in GroupOf(l), NEW i \in ItemOf(l), NEW x \in DOMAIN Code(l, g, i, 0)
               PROVE  Result(c, 1, x) = FlattenSeq([m \in DOMAIN Code(l, g, i, 0)[x] |->
                                          FirstFound(c, 1, Code(l, g, i, 0)[x][m])])
    BY <1>4 DEF WritesOnce
  <2>1. PICK r \in Nat, k \in Nat :
          /\ IsOfMap(c, r, k) /\ x = Cell(Out, MapAt(c, r, k))
          /\ Code(l, g, i, 0)[x] = <<Cell(In, MapFrom(c, r, k))>>
    BY <1>9
  <2> DEFINE from == MapFrom(c, r, k)
             s == <<Cell(In, from)>>
             f == <<from + 1>>
             h == [m \in DOMAIN Code(l, g, i, 0)[x] |-> FirstFound(c, 1, Code(l, g, i, 0)[x][m])]
  <2>2. from \in Nat /\ FirstFound(c, 1, Cell(In, from)) = f BY <1>8, <2>1
  <2>3. Result(c, 1, x) = f
    <3>1. x[2] = MapAt(c, r, k) BY <2>1 DEF Cell
    <3>2. MapSource(c, x[2]) = from BY <2>1, <3>1, MapSources
    <3> QED BY <3>2 DEF Result, Map_Result
  <2>4. h = [m \in 1 .. 1 |-> FirstFound(c, 1, s[m])]
    <3>1. DOMAIN s = 1 .. 1 OBVIOUS
    <3> HIDE DEF s
    <3> QED BY <2>1, <3>1 DEF s
  <2>5. s[1] = Cell(In, from) /\ f[1] = from + 1 OBVIOUS
  <2>6. Among(Int, f, 1)
    <3>1. \A m \in 1 .. 1 : m = 1 OBVIOUS
    <3> HIDE DEF f, from
    <3> QED BY <2>2, <2>5, <3>1 DEF Among
  <2>7. Firsts(f, 1) = f
    <3>1. f = [m \in 1 .. 1 |-> f[m]] OBVIOUS
    <3> QED BY <3>1 DEF Firsts
  <2>8. f = <<f[1]>> OBVIOUS
  <2> HIDE DEF from, s, f
  <2>9. DOMAIN h = 1 .. 1 /\ h = [m \in DOMAIN h |-> h[m]] /\ \A m \in 1 .. 1 : h[m] = <<f[m]>>
    <3>1. \A m \in 1 .. 1 : m = 1 OBVIOUS
    <3>2. FirstFound(c, 1, s[1]) = <<f[1]>> BY <2>2, <2>5, <2>8
    <3> QED BY <2>4, <3>1, <3>2
  <2> HIDE DEF h
  <2>10. FlattenSeq(h) = Firsts(f, 1)
    <3> DEFINE one == 1
    <3>1. one \in Nat /\ Among(Int, f, one) /\ DOMAIN h = 1 .. one BY <2>6, <2>9
    <3>2. h = [m \in DOMAIN h |-> h[m]] /\ \A m \in 1 .. one : h[m] = <<f[m]>> BY <2>9
    <3> HIDE DEF one
    <3>3. FlattenSeq(h) = Firsts(f, one) BY <3>1, <3>2, FlattenLabels
    <3> QED BY <3>3 DEF one
  <2> QED BY <2>3, <2>7, <2>10 DEF h
<1>11. Addressed(c, l)
  <2> SUFFICES ASSUME NEW g \in GroupOf(l), NEW i \in ItemOf(l), NEW p \in Nat,
                      NEW x \in DOMAIN Code(l, g, i, p)
               PROVE  /\ x \in Int \X Int
                      /\ Range(Code(l, g, i, p)[x]) \subseteq (DOMAIN Buffers(c) \cup {Shared}) \X Int
    BY DEF Addressed
  <2>1. PICK r \in Nat, k \in Nat :
          /\ IsOfMap(c, r, k) /\ x = Cell(Out, MapAt(c, r, k))
          /\ Code(l, g, i, p)[x] = <<Cell(In, MapFrom(c, r, k))>>
    BY <1>9
  <2>2. MapFrom(c, r, k) \in Nat BY <1>8, <2>1
  <2>3. Range(Code(l, g, i, p)[x]) = {Cell(In, MapFrom(c, r, k))} BY <2>1, RangeOfOne
  <2>4. DOMAIN Buffers(c) = {In, Out} /\ {In, Out} \subseteq Int BY MapMemory
  <2>5. MapAt(c, r, k) \in Int
    <3> DEFINE y == r + MapBase(c)
    <3>1. y \in Nat BY <1>6
    <3>2. MapAt(c, r, k) = y * c.cols + k BY DEF MapAt
    <3> HIDE DEF y
    <3>3. y * c.cols \in Nat BY <1>6, <3>1, Times
    <3> QED BY <3>2, <3>3
  <2> QED BY <2>1, <2>2, <2>3, <2>4, <2>5 DEF Cell
<1>12. Explained(c)
  <2>1. Writes(c, 1) /\ Leaves(c, 1) BY <1>1, <1>4, <1>10, OnceExplains
  <2> QED BY <1>1, <1>5, <1>11, <2>1, MapMemory, OnlyExplained
<1>13. ASSUME NEW n \in 0 .. OutSize(c) - 1
       PROVE  Start(c, Len(Launches(c)) + 1, Cell(Out, n)) =
                IF n - MapBase(c) * c.cols \in 0 .. Part(c) * c.cols - 1
                THEN <<MapSource(c, n) + 1>> ELSE JunkValue
  <2> DEFINE x == Cell(Out, n)
             first == MapBase(c) * c.cols
             part == Part(c) * c.cols
  <2>1. x[1] = Out /\ x[2] = n BY DEF Cell
  <2>2. first \in Nat /\ part \in Nat /\ n \in Nat BY <1>6, Times
  <2>3. \A r : (r + MapBase(c)) * c.cols = r * c.cols + first \/ r \notin Nat BY <1>6
  <2>4. CASE n - first \in 0 .. part - 1
    <3> DEFINE d == n - first
               r == d \div c.cols
               k == d % c.cols
    <3>1. d \in 0 .. Part(c) * c.cols - 1 BY <2>4
    <3> HIDE DEF d
    <3>2. r \in 0 .. Part(c) - 1 /\ k \in 0 .. c.cols - 1 /\ d = r * c.cols + k
      BY <3>1, <1>6, PlaceOf
    <3> HIDE DEF r, k
    <3>3. PICK g \in GroupOf(l), i \in ItemOf(l) : MapRow(l, g, i) = r /\ MapColumn(l, g, i) = k
      BY <3>2, <1>3
    <3>4. IsOfMap(c, r, k) BY <3>2, <1>6 DEF IsOfMap
    <3>5. MapAt(c, r, k) = n
      <4>1. (r + MapBase(c)) * c.cols = r * c.cols + first BY <2>3, <3>2
      <4>2. r * c.cols \in Nat BY <3>2, <1>6, Times
      <4>3. MapAt(c, r, k) = r * c.cols + first + k BY <4>1 DEF MapAt
      <4> DEFINE a == r * c.cols
      <4>4. a \in Nat /\ d = a + k /\ MapAt(c, r, k) = a + first + k /\ d = n - first /\ k \in Nat
        BY <3>2, <4>2, <4>3 DEF d
      <4> HIDE DEF a, first
      <4> QED BY <4>4, <2>2
    <3>6. x \in DOMAIN Code(l, g, i, 0)
      <4>1. 0 \in Nat /\ g \in GroupOf(l) /\ i \in ItemOf(l) OBVIOUS
      <4>2. Stores(Code(l, g, i, 0), Cell(Out, MapAt(c, r, k)), <<Cell(In, MapFrom(c, r, k))>>)
        BY <4>1, <1>2, <3>3, <3>4 DEF ItemsOfMap
      <4> QED BY <4>2, <3>5 DEF Stores
    <3>7. StoredBy(l, g, x) BY <1>1, <3>3, <3>6, StoredOnce
    <3>8. Start(c, Len(Launches(c)) + 1, x) = Result(c, 1, x) BY <1>1, <3>3, <3>7, AfterOnly
    <3> QED BY <2>1, <2>4, <3>8 DEF Result, Map_Result
  <2>5. CASE n - first \notin 0 .. part - 1
    <3>1. ASSUME NEW g \in GroupOf(l), StoredBy(l, g, x) PROVE FALSE
      <4>1. PICK i \in ItemOf(l) : x \in DOMAIN Code(l, g, i, 0) BY <1>1, <3>1, StoredOnce
      <4>2. PICK r \in Nat, k \in Nat : IsOfMap(c, r, k) /\ x = Cell(Out, MapAt(c, r, k))
        BY <4>1, <1>9
      <4>3. n = MapAt(c, r, k) BY <4>2 DEF Cell
      <4>4. r \in 0 .. Part(c) - 1 /\ k \in 0 .. c.cols - 1 BY <4>2, <1>7
      <4>5. (r + MapBase(c)) * c.cols = r * c.cols + first BY <2>3
      <4>6. r * c.cols + k \in 0 .. Part(c) * c.cols - 1 BY <4>4, <1>6, Place
      <4>7. n = r * c.cols + first + k BY <4>3, <4>5 DEF MapAt
      <4>8. r * c.cols \in Nat BY <1>6, Times
      <4> DEFINE a == r * c.cols
      <4>9. a \in Nat /\ a + k \in 0 .. part - 1 /\ n = a + first + k BY <4>6, <4>7, <4>8
      <4> HIDE DEF a, first, part
      <4> QED BY <4>9, <2>2, <2>5
    <3>2. Start(c, Len(Launches(c)) + 1, x) = Initially(c, x) BY <1>1, <3>1, AfterOnly
    <3>3. Initially(c, x) = JunkValue
      <4>1. /\ Out \in DOMAIN Buffers(c) /\ Buffers(c)[Out] = Fresh(OutSize(c)) BY MapMemory
      <4>2. n \in DOMAIN Fresh(OutSize(c)) /\ Fresh(OutSize(c))[n] = JunkValue BY DEF Fresh
      <4> QED BY <2>1, <4>1, <4>2 DEF Initially
    <3> QED BY <2>5, <3>2, <3>3
  <2> QED BY <2>4, <2>5
<1> QED BY <1>12, <1>13

-----------------------------------------------------------------------------
(***************************************************************************)
(* What AllPairs computes.                                                 *)
(***************************************************************************)
\* Lists of two elements are put together to a list that has one of each in turn.
Pairs(a, b, n) == [k \in 1 .. n |-> <<a[k], b[k]>>]

Alternating(a, b, n) ==
  [m \in 1 .. 2 * n |-> IF m % 2 = 1 THEN a[m \div 2 + 1] ELSE b[m \div 2]]

IsAlternating(S, w, a, b, n) ==
  /\ w \in Seq(S) /\ Len(w) = 2 * n
  /\ \A k \in 1 .. n : w[2 * k - 1] = a[k] /\ w[2 * k] = b[k]

\* The odd and the even ones of 1 .. 2 * n.
LEMMA OddEven ==
  ASSUME NEW n \in Nat, NEW m \in 1 .. 2 * n
  PROVE  \/ m % 2 = 1 /\ m \div 2 + 1 \in 1 .. n /\ m = 2 * (m \div 2 + 1) - 1
         \/ m % 2 # 1 /\ m \div 2 \in 1 .. n /\ m = 2 * (m \div 2)
OBVIOUS

LEMMA EvenOdd ==
  ASSUME NEW n \in Nat, NEW k \in 1 .. n
  PROVE  /\ 2 * k - 1 \in 1 .. 2 * n /\ (2 * k - 1) % 2 = 1 /\ (2 * k - 1) \div 2 + 1 = k
         /\ 2 * k \in 1 .. 2 * n /\ (2 * k) % 2 # 1 /\ (2 * k) \div 2 = k
OBVIOUS

LEMMA AlternatingFacts ==
  ASSUME NEW S, NEW a, NEW b, NEW n \in Nat, Among(S, a, n), Among(S, b, n)
  PROVE  IsAlternating(S, Alternating(a, b, n), a, b, n)
<1> DEFINE w == Alternating(a, b, n)
           N2 == 2 * n
<1>1. N2 \in Nat OBVIOUS
<1>2. \A k \in 1 .. n : a[k] \in S /\ b[k] \in S BY DEF Among
<1>3. w = [m \in 1 .. N2 |-> IF m % 2 = 1 THEN a[m \div 2 + 1] ELSE b[m \div 2]]
  BY DEF Alternating
<1>4. \A m \in 1 .. N2 : (IF m % 2 = 1 THEN a[m \div 2 + 1] ELSE b[m \div 2]) \in S
  BY <1>2, OddEven
<1>5. \A k \in 1 .. n : w[2 * k - 1] = a[k] /\ w[2 * k] = b[k]
  BY <1>3, EvenOdd
<1> HIDE DEF w, N2
<1>6. w \in [1 .. N2 -> S] BY <1>3, <1>4
<1>7. w \in Seq(S) /\ Len(w) = N2 BY <1>1, <1>6
<1> QED BY <1>5, <1>7 DEF IsAlternating, w, N2

\* It is the only one.
LEMMA AlternatingOnly ==
  ASSUME NEW S, NEW a, NEW b, NEW n \in Nat, NEW u, NEW v,
         IsAlternating(S, u, a, b, n), IsAlternating(S, v, a, b, n)
  PROVE  u = v
<1> DEFINE N2 == 2 * n
<1>1. /\ u \in Seq(S) /\ Len(u) = N2 /\ v \in Seq(S) /\ Len(v) = N2
      /\ \A k \in 1 .. n : u[2 * k - 1] = v[2 * k - 1] /\ u[2 * k] = v[2 * k]
  BY DEF IsAlternating
<1>2. ASSUME NEW m \in 1 .. N2 PROVE u[m] = v[m]
  <2>1. CASE m % 2 = 1
    <3>1. m \div 2 + 1 \in 1 .. n /\ m = 2 * (m \div 2 + 1) - 1 BY <2>1, OddEven
    <3> DEFINE k == m \div 2 + 1
    <3> HIDE DEF k
    <3>2. k \in 1 .. n /\ m = 2 * k - 1 BY <3>1 DEF k
    <3> QED BY <1>1, <3>2
  <2>2. CASE m % 2 # 1
    <3>1. m \div 2 \in 1 .. n /\ m = 2 * (m \div 2) BY <2>2, OddEven
    <3> DEFINE k == m \div 2
    <3> HIDE DEF k
    <3>2. k \in 1 .. n /\ m = 2 * k BY <3>1 DEF k
    <3> QED BY <1>1, <3>2
  <2> QED BY <2>1, <2>2
<1> HIDE DEF N2
<1> QED BY <1>1, <1>2, SeqEqual

ArePairs(S, s, a, b, n) ==
  /\ s \in Seq(Seq(S)) /\ Len(s) = n
  /\ \A k \in 1 .. n : s[k] = <<a[k], b[k]>>

LEMMA PairsFacts ==
  ASSUME NEW S, NEW a, NEW b, NEW n \in Nat, Among(S, a, n), Among(S, b, n)
  PROVE  ArePairs(S, Pairs(a, b, n), a, b, n)
<1>1. \A k \in 1 .. n : a[k] \in S /\ b[k] \in S /\ <<a[k], b[k]>> \in Seq(S) BY DEF Among
<1> QED BY <1>1 DEF Pairs, ArePairs

\* Two elements more.
LEMMA AlternatingMore ==
  ASSUME NEW S, NEW a, NEW b, NEW m \in Nat, Among(S, a, m + 1), Among(S, b, m + 1),
         NEW w, IsAlternating(S, w, a, b, m)
  PROVE  IsAlternating(S, w \o <<a[m + 1], b[m + 1]>>, a, b, m + 1)
<1> DEFINE t == <<a[m + 1], b[m + 1]>>
           M2 == 2 * m
           v == w \o t
<1>1. /\ w \in Seq(S) /\ Len(w) = M2 /\ M2 \in Nat
      /\ \A k \in 1 .. m : w[2 * k - 1] = a[k] /\ w[2 * k] = b[k]
  BY DEF IsAlternating
<1>2. a[m + 1] \in S /\ b[m + 1] \in S BY DEF Among
<1>3. t \in Seq(S) /\ Len(t) = 2 /\ t[1] = a[m + 1] /\ t[2] = b[m + 1] BY <1>2
<1> HIDE DEF t, M2, v
<1>4. /\ v \in Seq(S) /\ Len(v) = M2 + 2
      /\ \A j \in 1 .. M2 + 2 : v[j] = IF j <= M2 THEN w[j] ELSE t[j - M2]
  <2>1. /\ w \o t \in Seq(S) /\ Len(w \o t) = Len(w) + Len(t)
        /\ \A j \in 1 .. Len(w) + Len(t) :
             (w \o t)[j] = IF j <= Len(w) THEN w[j] ELSE t[j - Len(w)]
    BY <1>1, <1>3, ConcatProperties
  <2> QED BY <1>1, <1>3, <2>1 DEF v
<1>5. M2 + 2 = 2 * (m + 1) BY DEF M2
<1>6. ASSUME NEW k \in 1 .. m + 1 PROVE v[2 * k - 1] = a[k] /\ v[2 * k] = b[k]
  <2>1. CASE k \in 1 .. m
    <3>1. 2 * k - 1 \in 1 .. M2 + 2 /\ 2 * k \in 1 .. M2 + 2 /\ 2 * k - 1 <= M2 /\ 2 * k <= M2
      BY <2>1 DEF M2
    <3> QED BY <1>1, <1>4, <2>1, <3>1
  <2>2. CASE k = m + 1
    <3>1. /\ 2 * k - 1 \in 1 .. M2 + 2 /\ 2 * k \in 1 .. M2 + 2
          /\ ~ (2 * k - 1 <= M2) /\ ~ (2 * k <= M2)
          /\ (2 * k - 1) - M2 = 1 /\ 2 * k - M2 = 2
      BY <2>2 DEF M2
    <3> QED BY <1>3, <1>4, <2>2, <3>1
  <2> QED BY <2>1, <2>2
<1> QED BY <1>4, <1>5, <1>6 DEF IsAlternating, v, t

LEMMA FlattenPairs ==
  ASSUME NEW S, NEW a, NEW b, NEW n \in Nat, Among(S, a, n), Among(S, b, n)
  PROVE  FlattenSeq(Pairs(a, b, n)) = Alternating(a, b, n)
<1> DEFINE A == {m \in Nat : m <= n => FlattenSeq(Pairs(a, b, m)) = Alternating(a, b, m)}
<1>1. 0 \in A
  <2>1. Pairs(a, b, 0) = << >> BY DEF Pairs
  <2>2. Alternating(a, b, 0) = << >>
    <3>1. 1 .. 2 * 0 = {} OBVIOUS
    <3> QED BY <3>1 DEF Alternating
  <2> QED BY <2>1, <2>2, FlattenNone
<1>2. ASSUME NEW m \in Nat, m \in A PROVE m + 1 \in A
  <2> SUFFICES ASSUME m + 1 <= n
               PROVE  FlattenSeq(Pairs(a, b, m + 1)) = Alternating(a, b, m + 1)
    OBVIOUS
  <2> DEFINE last == <<a[m + 1], b[m + 1]>>
             s == Pairs(a, b, m)
             t == Pairs(a, b, m + 1)
  <2>1. /\ m <= n /\ m + 1 \in Nat /\ m + 1 \in 1 .. m + 1
        /\ a[m + 1] \in S /\ b[m + 1] \in S
        /\ Among(S, a, m) /\ Among(S, a, m + 1) /\ Among(S, b, m) /\ Among(S, b, m + 1)
    BY DEF Among
  <2>2. FlattenSeq(s) = Alternating(a, b, m) BY <1>2, <2>1
  <2>3. last \in Seq(S) BY <2>1
  <2>4. ArePairs(S, s, a, b, m) BY <2>1, PairsFacts
  <2>5. ArePairs(S, t, a, b, m + 1) BY <2>1, PairsFacts
  <2> HIDE DEF s, t
  <2>6. (\A k \in 1 .. m : t[k] = s[k]) /\ t[m + 1] = last
    <3>1. \A k \in 1 .. m : k \in 1 .. m + 1 OBVIOUS
    <3> QED BY <2>1, <2>4, <2>5, <3>1 DEF ArePairs
  <2> HIDE DEF last
  <2>7. OneLonger(S, s, t, last) BY <2>3, <2>4, <2>5, <2>6 DEF OneLonger, ArePairs
  <2>8. FlattenSeq(t) = FlattenSeq(s) \o last BY <2>7, FlattenLast
  <2> DEFINE u == Alternating(a, b, m)
             v == Alternating(a, b, m + 1)
  <2>9. IsAlternating(S, u, a, b, m) /\ IsAlternating(S, v, a, b, m + 1)
    BY <2>1, AlternatingFacts
  <2> HIDE DEF u, v
  <2>10. IsAlternating(S, u \o last, a, b, m + 1) BY <2>1, <2>9, AlternatingMore DEF last
  <2>11. u \o last = v BY <2>1, <2>9, <2>10, AlternatingOnly
  <2> QED BY <2>2, <2>8, <2>11 DEF t, u, v
<1>3. \A m \in Nat : m \in A
  <2> HIDE DEF A
  <2> QED BY <1>1, <1>2, Naturals
<1> QED BY <1>3

\* Some of a product, and the rest of it.
GoesOn(c, r, k, m, n, f) == \A j \in 1 .. 2 * n : f[j] = ProductAt(c, r, k, 2 * m + j)

LEMMA ProductGrows ==
  ASSUME NEW c, c.dimension \in Nat, c.width \in Nat, NEW r \in Nat, NEW k \in Nat,
         NEW m \in Nat, NEW n \in Nat, NEW f,
         GoesOn(c, r, k, m, n, f)
  PROVE  /\ ProductTo(c, r, k, m) \in Seq(Int) /\ Among(Int, f, 2 * n)
         /\ ProductTo(c, r, k, m) \o Firsts(f, 2 * n) = ProductTo(c, r, k, m + n)
<1> DEFINE at(j) == ProductAt(c, r, k, j)
           m2 == 2 * m
           n2 == 2 * n
           u == ProductTo(c, r, k, m)
           v == Firsts(f, n2)
           w == ProductTo(c, r, k, m + n)
<1>1. ASSUME NEW j \in Nat, j > 0 PROVE at(j) \in Int
  <2>1. r * c.dimension \in Nat BY Times
  <2>a. at(j) = IF j % 2 = 1 THEN LeftLabel(c, r, j \div 2)
                ELSE RightLabel(c, j \div 2 - 1, k)
    BY DEF ProductAt
  <2> HIDE DEF at
  <2>2. CASE j % 2 = 1
    <3> DEFINE h == j \div 2
    <3>1. h \in Nat OBVIOUS
    <3> HIDE DEF h
    <3>2. at(j) = r * c.dimension + h + 1 BY <2>2, <2>a DEF LeftLabel, h
    <3> QED BY <2>1, <3>1, <3>2
  <2>3. CASE j % 2 # 1
    <3> DEFINE h == j \div 2 - 1
    <3>1. h \in Nat
      <4>1. j \in 1 .. 2 * j BY <1>1
      <4>2. j \div 2 \in 1 .. j BY <2>3, <4>1, OddEven
      <4> QED BY <4>2
    <3> HIDE DEF h
    <3>2. h * c.width \in Nat BY <3>1, Times
    <3>3. at(j) = RightLabel(c, h, k) BY <2>3, <2>a DEF h
    <3> QED BY <3>2, <3>3 DEF RightLabel
  <2> QED BY <2>2, <2>3
<1> HIDE DEF at
<1>2. m2 \in Nat /\ n2 \in Nat /\ 2 * (m + n) = m2 + n2 OBVIOUS
<1>3. u = [j \in 1 .. m2 |-> at(j)] /\ w = [j \in 1 .. m2 + n2 |-> at(j)]
  BY <1>2 DEF ProductTo, at
<1>4. \A j \in 1 .. n2 : f[j] = at(m2 + j) BY DEF at, GoesOn
<1> HIDE DEF m2, n2
<1>5. \A j \in 1 .. m2 : j \in Nat /\ j > 0 BY <1>2
<1>6. \A j \in 1 .. m2 + n2 : j \in Nat /\ j > 0 BY <1>2
<1>7. \A j \in 1 .. n2 : m2 + j \in Nat /\ m2 + j > 0 /\ m2 + j \in 1 .. m2 + n2 BY <1>2
<1>8. Among(Int, f, n2) BY <1>1, <1>4, <1>7 DEF Among
<1>9. v \in Seq(Int) /\ Len(v) = n2 /\ \A j \in 1 .. n2 : v[j] = at(m2 + j)
  <2> HIDE DEF at, u, w
  <2>1. v \in Seq(Int) /\ Len(v) = n2 /\ \A j \in 1 .. n2 : v[j] = f[j]
    BY <1>2, <1>8, FirstsFacts
  <2> HIDE DEF v
  <2> QED BY <1>4, <2>1
<1> HIDE DEF u, v, w
<1>10. u \in Seq(Int) /\ Len(u) = m2 /\ \A j \in 1 .. m2 : u[j] = at(j)
  <2>1. u \in [1 .. m2 -> Int] BY <1>1, <1>3, <1>5
  <2> QED BY <1>2, <1>3, <2>1
<1>11. w \in Seq(Int) /\ Len(w) = m2 + n2 /\ \A j \in 1 .. m2 + n2 : w[j] = at(j)
  <2>1. w \in [1 .. m2 + n2 -> Int] BY <1>1, <1>3, <1>6
  <2>2. m2 + n2 \in Nat BY <1>2
  <2> QED BY <1>3, <2>1, <2>2
<1>12. /\ u \o v \in Seq(Int) /\ Len(u \o v) = m2 + n2
       /\ \A j \in 1 .. m2 + n2 : (u \o v)[j] = IF j <= m2 THEN u[j] ELSE v[j - m2]
  <2>1. /\ u \o v \in Seq(Int) /\ Len(u \o v) = Len(u) + Len(v)
        /\ \A j \in 1 .. Len(u) + Len(v) :
             (u \o v)[j] = IF j <= Len(u) THEN u[j] ELSE v[j - Len(u)]
    BY <1>9, <1>10, ConcatProperties
  <2> QED BY <1>9, <1>10, <2>1
<1>13. ASSUME NEW j \in 1 .. m2 + n2 PROVE (u \o v)[j] = w[j]
  <2>1. CASE j <= m2
    <3>1. j \in 1 .. m2 BY <1>2, <2>1
    <3> QED BY <1>10, <1>11, <1>12, <2>1, <3>1
  <2>2. CASE ~ (j <= m2)
    <3>1. j - m2 \in 1 .. n2 /\ m2 + (j - m2) = j BY <1>2, <2>2
    <3> QED BY <1>9, <1>11, <1>12, <2>2, <3>1
  <2> QED BY <2>1, <2>2
<1>14. u \o v = w
  <2> DEFINE z == u \o v
  <2> HIDE DEF z
  <2>1. z \in Seq(Int) /\ Len(z) = Len(w) /\ \A j \in 1 .. Len(z) : z[j] = w[j]
    BY <1>11, <1>12, <1>13 DEF z
  <2>2. z = w BY <1>11, <2>1, SeqEqual
  <2> QED BY <2>2 DEF z
<1> QED BY <1>8, <1>10, <1>14 DEF u, v, w, n2

\* All of it, as the property states it.
LEMMA ProductIs ==
  ASSUME NEW c, c.dimension \in Nat, c.width \in Nat, NEW r \in Nat, NEW k \in Nat
  PROVE  FlattenSeq([n \in 1 .. c.dimension |->
           <<r * c.dimension + n, 100 + (n - 1) * c.width + k + 1>>])
         = ProductTo(c, r, k, c.dimension)
<1> DEFINE d == c.dimension
           a == [n \in 1 .. d |-> r * c.dimension + n]
           b == [n \in 1 .. d |-> 100 + (n - 1) * c.width + k + 1]
<1>1. ASSUME NEW n \in 1 .. d PROVE a[n] \in Int /\ b[n] \in Int
  <2>1. r * c.dimension \in Nat BY Times
  <2>2. (n - 1) * c.width \in Nat
    <3>1. n - 1 \in Nat OBVIOUS
    <3> QED BY <3>1, Times
  <2>3. a[n] = r * c.dimension + n /\ b[n] = 100 + (n - 1) * c.width + k + 1 OBVIOUS
  <2> HIDE DEF a, b
  <2> QED BY <2>1, <2>2, <2>3
<1>2. Pairs(a, b, d) = [n \in 1 .. d |->
                         <<r * c.dimension + n, 100 + (n - 1) * c.width + k + 1>>]
  BY DEF Pairs
<1>3. ASSUME NEW m \in 1 .. 2 * d
      PROVE  ProductAt(c, r, k, m) = IF m % 2 = 1 THEN a[m \div 2 + 1] ELSE b[m \div 2]
  <2>1. CASE m % 2 = 1
    <3>1. m \div 2 + 1 \in 1 .. d BY <2>1, OddEven
    <3>2. m \div 2 \in Int OBVIOUS
    <3> DEFINE h == m \div 2
    <3>3. ProductAt(c, r, k, m) = LeftLabel(c, r, h) BY <2>1 DEF ProductAt
    <3>4. a[h + 1] = r * c.dimension + (h + 1) BY <3>1
    <3>5. r * c.dimension \in Nat BY Times
    <3> HIDE DEF h, a, b
    <3>6. h \in Int BY <3>2 DEF h
    <3>7. r * c.dimension + (h + 1) = r * c.dimension + h + 1 BY <3>5, <3>6
    <3> QED BY <2>1, <3>3, <3>4, <3>7 DEF LeftLabel, h
  <2>2. CASE m % 2 # 1
    <3>1. m \div 2 \in 1 .. d BY <2>2, OddEven
    <3> QED BY <2>2, <3>1 DEF ProductAt, RightLabel
  <2> QED BY <2>1, <2>2
<1>4. Alternating(a, b, d) = ProductTo(c, r, k, d)
  <2> HIDE DEF a, b
  <2> QED BY <1>3 DEF Alternating, ProductTo
<1>5. Among(Int, a, d) /\ Among(Int, b, d) BY <1>1 DEF Among
<1> HIDE DEF a, b
<1>6. FlattenSeq(Pairs(a, b, d)) = Alternating(a, b, d) BY <1>5, FlattenPairs
<1> QED BY <1>2, <1>4, <1>6

-----------------------------------------------------------------------------
(***************************************************************************)
(* Kernels with several phases.                                            *)
(***************************************************************************)
\* What nobody has stored, and what was stored last.
LEMMA FoundUntouched ==
  ASSUME NEW c, NEW k, NEW g, NEW x, x[1] # Shared, NEW p \in Nat,
         \A q \in 0 .. p - 1 : ~ StoredIn(Launches(c)[k], g, q, x)
  PROVE  Found(c, k, g, p, x) = FirstFound(c, k, x)
<1>1. Value(c, k, g, p, x) = IF x[1] = Shared THEN JunkValue ELSE Start(c, k, x)
  BY ValueFirst
<1> QED BY <1>1 DEF Found, FirstFound

LEMMA FoundWritten ==
  ASSUME NEW c, NEW k, NEW g, NEW x, Within(c, Launches(c)[k], x), NEW p \in Nat,
         NEW q \in 0 .. p - 1, StoredIn(Launches(c)[k], g, q, x),
         \A r \in q + 1 .. p - 1 : ~ StoredIn(Launches(c)[k], g, r, x)
  PROVE  Found(c, k, g, p, x) = Written(c, k, g, q, x)
<1>1. Value(c, k, g, p, x) = Written(c, k, g, q, x) BY ValueWritten
<1> QED BY <1>1 DEF Found

\* One label.
LEMMA FlattenOne ==
  ASSUME NEW x \in Int, NEW h, DOMAIN h = 1 .. 1, h = [m \in DOMAIN h |-> h[m]], h[1] = <<x>>
  PROVE  FlattenSeq(h) = <<x>>
<1> DEFINE f == <<x>>
           one == 1
<1>1. f[1] = x /\ f = [m \in 1 .. 1 |-> f[m]] OBVIOUS
<1>2. \A m \in 1 .. 1 : m = 1 OBVIOUS
<1> HIDE DEF f
<1>3. one \in Nat /\ one = 1 OBVIOUS
<1> HIDE DEF one
<1>4. Among(Int, f, one) /\ \A m \in 1 .. one : h[m] = <<f[m]>> BY <1>1, <1>2, <1>3 DEF Among
<1>5. FlattenSeq(h) = Firsts(f, one) BY <1>3, <1>4, FlattenLabels
<1>6. Firsts(f, one) = f BY <1>1, <1>3 DEF Firsts
<1> QED BY <1>5, <1>6 DEF f

-----------------------------------------------------------------------------
(***************************************************************************)
(* AllPairs in segments and tiles.                                         *)
(***************************************************************************)
LoadPhase(n, q, s) == 1 + 2 * (q * n + s)
SumPhase(n, q, s)  == 2 + 2 * (q * n + s)

LEMMA PhaseParts ==
  ASSUME NEW n \in Positive, NEW q \in Nat, NEW s \in 0 .. n - 1
  PROVE  /\ LoadPhase(n, q, s) \in Nat /\ LoadPhase(n, q, s) # 0 /\ LoadPhase(n, q, s) % 2 = 1
         /\ ((LoadPhase(n, q, s) - 1) \div 2) \div n = q
         /\ ((LoadPhase(n, q, s) - 1) \div 2) % n = s
         /\ SumPhase(n, q, s) \in Nat /\ SumPhase(n, q, s) # 0 /\ SumPhase(n, q, s) % 2 # 1
         /\ ((SumPhase(n, q, s) - 1) \div 2) \div n = q
         /\ ((SumPhase(n, q, s) - 1) \div 2) % n = s
         /\ SumPhase(n, q, s) = LoadPhase(n, q, s) + 1
<1> DEFINE t == q * n + s
<1>1. t \in Nat
  <2>1. q * n \in Nat BY Times DEF Positive
  <2> QED BY <2>1 DEF Positive
<1>2. t \div n = q /\ t % n = s
  <2>1. t = n * q + s BY DEF Positive
  <2> QED BY <2>1, Quotient
<1> HIDE DEF t
<1>3. LoadPhase(n, q, s) = 1 + 2 * t /\ SumPhase(n, q, s) = 2 + 2 * t
  BY DEF LoadPhase, SumPhase, t
<1>4. /\ 1 + 2 * t \in Nat /\ 1 + 2 * t # 0 /\ (1 + 2 * t) % 2 = 1
      /\ ((1 + 2 * t) - 1) \div 2 = t
      /\ 2 + 2 * t \in Nat /\ 2 + 2 * t # 0 /\ (2 + 2 * t) % 2 # 1
      /\ ((2 + 2 * t) - 1) \div 2 = t
      /\ 2 + 2 * t = (1 + 2 * t) + 1
  BY <1>1
<1> QED BY <1>2, <1>3, <1>4

\* There are no others.
LEMMA PhaseIs ==
  ASSUME NEW n \in Nat, NEW k \in Nat, NEW p \in Nat, p # 0, p < 1 + 2 * k * n
  PROVE  /\ n \in Positive
         /\ \E q \in 0 .. k - 1, s \in 0 .. n - 1 :
              p = LoadPhase(n, q, s) \/ p = SumPhase(n, q, s)
<1>0. p > 0 OBVIOUS
<1>1. n \in Positive BY <1>0, TileOf
<1> DEFINE t == (p - 1) \div 2
           kn == k * n
<1>2. kn \in Nat /\ 2 * k * n = 2 * kn BY Times
<1>3. t \in Nat /\ (p = 1 + 2 * t \/ p = 2 + 2 * t) OBVIOUS
<1> HIDE DEF t, kn
<1>4. t \in 0 .. kn - 1 BY <1>2, <1>3
<1>5. /\ t \div n \in 0 .. k - 1 /\ t % n \in 0 .. n - 1
      /\ t = (t \div n) * n + (t % n)
  BY <1>1, <1>4, PlaceOf DEF kn
<1> QED BY <1>1, <1>3, <1>5 DEF LoadPhase, SumPhase

LEMMA PhaseBefore ==
  ASSUME NEW n \in Nat, NEW k \in Nat, NEW q \in 0 .. k - 1, NEW s \in 0 .. n - 1
  PROVE  LoadPhase(n, q, s) < 1 + 2 * k * n /\ SumPhase(n, q, s) < 1 + 2 * k * n
<1> DEFINE t == q * n + s
           kn == k * n
<1>1. kn \in Nat /\ 2 * k * n = 2 * kn BY Times
<1>2. t \in 0 .. kn - 1 BY Place
<1>3. LoadPhase(n, q, s) = 1 + 2 * t /\ SumPhase(n, q, s) = 2 + 2 * t
  BY DEF LoadPhase, SumPhase
<1> HIDE DEF t, kn
<1> QED BY <1>1, <1>2, <1>3

\* Phases in order are segments in order, and within a segment tiles in order.
LEMMA PhaseOrder ==
  ASSUME NEW n \in Positive, NEW q \in Nat, NEW s \in 0 .. n - 1,
         NEW r \in Nat, NEW u \in 0 .. n - 1, q * n + s < r * n + u
  PROVE  q < r \/ (q = r /\ s < u)
<1> DEFINE qn == q * n
           rn == r * n
<1>1. qn \in Nat /\ rn \in Nat /\ n \in Nat BY Times DEF Positive
<1>2. CASE r < q
  <2>1. (r + 1) * n <= qn BY <1>1, <1>2, Monotone
  <2>2. (r + 1) * n = rn + n BY <1>1
  <2> HIDE DEF qn, rn
  <2> QED BY <1>1, <2>1, <2>2 DEF qn, rn
<1>3. CASE r = q
  <2> HIDE DEF qn
  <2>1. qn + s < qn + u BY <1>3 DEF qn
  <2> QED BY <1>1, <1>3, <2>1
<1> QED BY <1>2, <1>3

\* The segments follow each other, and cover the dimension.
LEMMA SegmentCount ==
  ASSUME NEW l, Covering(l)
  PROVE  /\ Segments(l) \in Positive /\ (Segments(l) - 1) * l.D < l.dimension
         /\ l.dimension <= Segments(l) * l.D
<1> DEFINE D == l.D
           d == l.dimension
           a == d \div D
           r == d % D
           K == Segments(l)
<1>1. D \in Positive /\ D \in Nat /\ d \in Nat /\ d > 0 BY DEF Covering, Positive
<1>2. a \in Nat /\ r \in 0 .. D - 1 /\ d = D * a + r BY <1>1, Division
<1>3. K = a + (IF r # 0 /\ D > 1 THEN 1 ELSE 0) BY DEF Segments
<1> HIDE DEF K, a, r, D, d
<1>4. D * a = a * D /\ a * D \in Nat BY <1>1, <1>2, Times
<1>5. CASE r = 0
  <2>1. K = a BY <1>2, <1>3, <1>5
  <2>2. d = a * D BY <1>2, <1>4, <1>5
  <2>3. a # 0
    <3> SUFFICES ASSUME a = 0 PROVE FALSE OBVIOUS
    <3>1. 0 * D = 0 BY <1>1
    <3> QED BY <1>1, <2>2, <3>1
  <2>4. (a - 1) * D = a * D - D /\ a * D - D < a * D BY <1>1, <1>2
  <2> QED BY <1>2, <1>1, <2>1, <2>2, <2>3, <2>4 DEF Positive, K, D, d
<1>6. CASE r # 0
  <2>1. D > 1 BY <1>1, <1>2, <1>6
  <2>2. K = a + 1 BY <1>2, <1>3, <1>6, <2>1
  <2>3. (a + 1) * D = a * D + D /\ (a + 1) - 1 = a BY <1>1, <1>2
  <2>4. a * D < d /\ d <= (a + 1) * D
    <3> DEFINE e == a * D
    <3>1. d = e + r /\ e \in Nat /\ (a + 1) * D = e + D BY <1>2, <1>4, <2>3
    <3> HIDE DEF e
    <3> QED BY <1>1, <1>2, <1>6, <3>1 DEF e
  <2> QED BY <1>2, <2>2, <2>3, <2>4 DEF Positive, K, D, d
<1> QED BY <1>5, <1>6

LEMMA MinOfOrdered ==
  ASSUME NEW a \in Int, NEW b \in Int
  PROVE  (a <= b => Min({a, b}) = a) /\ (b <= a => Min({a, b}) = b)
<1> DEFINE m == Min({a, b})
<1>1. m \in {a, b} /\ m <= a /\ m <= b BY MinOfTwo
<1> HIDE DEF m
<1>2. (a <= b => m = a) /\ (b <= a => m = b) BY <1>1
<1> QED BY <1>2 DEF m

LEMMA SegmentParts ==
  ASSUME NEW l, Covering(l), NEW q \in 0 .. Segments(l) - 1
  PROVE  /\ UpTo(l, q) = q * l.D /\ q * l.D \in Nat /\ UpTo(l, q) < l.dimension
         /\ UpTo(l, q + 1) \in Nat
         /\ UpTo(l, q + 1) - UpTo(l, q) \in 0 .. l.D
         /\ UpTo(l, q + 1) <= l.dimension
         /\ Segment(l, q) = UpTo(l, q) .. UpTo(l, q + 1) - 1
         /\ Cardinality(Segment(l, q)) = UpTo(l, q + 1) - UpTo(l, q)
<1> DEFINE K == Segments(l)
           D == l.D
           d == l.dimension
           a == q * D
           b == (q + 1) * D
           e == UpTo(l, q + 1)
<1>1. /\ K \in Positive /\ K \in Nat /\ (K - 1) * D < d /\ D \in Nat /\ d \in Nat /\ D # 0
      /\ q \in Nat
  BY SegmentCount DEF Covering, Positive
<1>2. a \in Nat /\ b = a + D BY <1>1, Times
<1>3. a <= (K - 1) * D
  <2>1. q <= K - 1 /\ K - 1 \in Int BY <1>1
  <2> HIDE DEF K
  <2> QED BY <1>1, <2>1, Monotone
<1>4. (K - 1) * D \in Int
  <2>1. K - 1 \in Int BY <1>1
  <2> HIDE DEF K
  <2> QED BY <1>1, <2>1
<1> HIDE DEF K, D, d
<1>5. a < d
  <2> DEFINE m == (K - 1) * D
  <2> HIDE DEF m, a
  <2> QED BY <1>1, <1>2, <1>3, <1>4 DEF m
<1>6. UpTo(l, q) = a
  <2>1. UpTo(l, q) = Min({a, d}) BY DEF UpTo, D, d
  <2> HIDE DEF a
  <2> QED BY <1>1, <1>2, <1>5, <2>1, MinOfOrdered
<1>7. e = Min({b, d}) BY DEF UpTo, D, d
<1> HIDE DEF a, b, e
<1>8. b \in Nat /\ a < b BY <1>1, <1>2
<1>9. e \in {b, d} /\ e <= b /\ e <= d
  <2>1. b \in Int /\ d \in Int BY <1>1, <1>8
  <2>2. Min({b, d}) \in {b, d} /\ Min({b, d}) <= b /\ Min({b, d}) <= d BY <2>1, MinOfTwo
  <2> QED BY <1>7, <2>2
<1>10. e \in Nat /\ a < e /\ e - a \in 0 .. D BY <1>1, <1>2, <1>5, <1>8, <1>9
<1>11. Segment(l, q) = a .. e - 1 BY <1>7 DEF Segment, a, b, D, d
<1>12. Cardinality(a .. e - 1) = e - a
  <2>1. e - 1 \in Int /\ a \in Int BY <1>2, <1>10
  <2>2. Cardinality(a .. e - 1) = IF a > e - 1 THEN 0 ELSE e - 1 - a + 1
    BY <2>1, FS_Interval, Zenon
  <2>3. ~ (a > e - 1) /\ e - 1 - a + 1 = e - a BY <1>2, <1>10
  <2> QED BY <2>2, <2>3
<1> QED BY <1>2, <1>5, <1>6, <1>9, <1>10, <1>11, <1>12 DEF a, e, D, d

LEMMA SegmentEnds ==
  ASSUME NEW l, Covering(l)
  PROVE  UpTo(l, 0) = 0 /\ UpTo(l, Segments(l)) = l.dimension
<1>1. /\ Segments(l) \in Nat /\ l.D \in Nat /\ l.dimension \in Nat /\ 0 * l.D = 0
      /\ l.dimension <= Segments(l) * l.D
  BY SegmentCount DEF Covering, Positive
<1>2. Segments(l) * l.D \in Nat BY <1>1, Times
<1>3. UpTo(l, 0) = Min({0, l.dimension}) BY <1>1 DEF UpTo
<1>4. Min({0, l.dimension}) = 0
  <2>1. 0 \in Int /\ l.dimension \in Int /\ 0 <= l.dimension BY <1>1
  <2> QED BY <2>1, MinOfOrdered
<1>5. Min({Segments(l) * l.D, l.dimension}) = l.dimension
  <2> DEFINE b == Segments(l) * l.D
  <2>1. b \in Int /\ l.dimension \in Int /\ l.dimension <= b BY <1>1, <1>2
  <2> HIDE DEF b
  <2>2. Min({b, l.dimension}) = l.dimension BY <2>1, MinOfOrdered
  <2> QED BY <2>2 DEF b
<1> QED BY <1>3, <1>4, <1>5 DEF UpTo

\* A launch for two matrices and their product.
Multiplies(c, l) ==
  /\ c.skeleton = "allpairs" /\ Only(c, l) /\ Covering(l) /\ Numbered(c) /\ Apart(c, l)
  /\ l.height = c.height /\ l.width = c.width /\ l.dimension = c.dimension
  /\ DOMAIN Buffers(c) = {In, Second, Out}
  /\ Buffers(c)[In] = Labelled(c.height * c.dimension, 0)
  /\ Buffers(c)[Second] = Labelled(c.dimension * c.width, 100)
  /\ DOMAIN Buffers(c)[Out] = 0 .. c.height * c.width - 1

LEMMA PairsLabels ==
  ASSUME NEW c, NEW l, Multiplies(c, l), NEW k \in 0 .. l.dimension - 1
  PROVE  /\ \A r \in 0 .. l.height - 1 : FirstFound(c, 1, M(l, r, k)) = <<LeftLabel(c, r, k)>>
         /\ \A j \in 0 .. l.width - 1 : FirstFound(c, 1, N(l, k, j)) = <<RightLabel(c, k, j)>>
<1>1. /\ l.height \in Nat /\ l.width \in Nat /\ l.dimension \in Nat
      /\ l.height = c.height /\ l.width = c.width /\ l.dimension = c.dimension
      /\ Launches(c) \in Seq(LaunchOf(c))
  BY OnlyFacts DEF Multiplies, Covering, Positive
<1>2. In \in DOMAIN Buffers(c) \ {Shared} /\ Second \in DOMAIN Buffers(c) \ {Shared}
  BY DEF Multiplies, In, Second, Shared
<1>3. /\ Buffers(c)[In] = Labelled(l.height * l.dimension, 0)
      /\ Buffers(c)[Second] = Labelled(l.dimension * l.width, 100)
      /\ l.height * l.dimension \in Nat /\ l.dimension * l.width \in Nat
  BY <1>1, Times DEF Multiplies
<1>4. ASSUME NEW r \in 0 .. l.height - 1
      PROVE  FirstFound(c, 1, M(l, r, k)) = <<LeftLabel(c, r, k)>>
  <2> DEFINE a == r * l.dimension
             n == a + k
             m == l.height * l.dimension
  <2>1. n \in 0 .. m - 1 BY <1>1, Place
  <2>2. a \in Nat BY <1>1, Times
  <2>3. LeftLabel(c, r, k) = a + k + 1 BY <1>1 DEF LeftLabel
  <2>4. M(l, r, k) = Cell(In, n) BY DEF M
  <2>5. m \in Nat /\ Buffers(c)[In] = Labelled(m, 0) BY <1>3
  <2> HIDE DEF n, m
  <2>6. FirstFound(c, 1, Cell(In, n)) = <<0 + n + 1>> BY <1>1, <1>2, <2>1, <2>5, BeginsLabelled
  <2>7. 0 + n + 1 = a + k + 1
    <3> HIDE DEF a
    <3> QED BY <2>2 DEF n
  <2> QED BY <2>3, <2>4, <2>6, <2>7
<1>5. ASSUME NEW j \in 0 .. l.width - 1
      PROVE  FirstFound(c, 1, N(l, k, j)) = <<RightLabel(c, k, j)>>
  <2> DEFINE a == k * l.width
             n == a + j
             m == l.dimension * l.width
  <2>1. n \in 0 .. m - 1 BY <1>1, Place
  <2>2. a \in Nat BY <1>1, Times
  <2>3. RightLabel(c, k, j) = 100 + a + j + 1 BY <1>1 DEF RightLabel
  <2>4. N(l, k, j) = Cell(Second, n) BY DEF N
  <2>5. m \in Nat /\ Buffers(c)[Second] = Labelled(m, 100) BY <1>3
  <2> HIDE DEF n, m
  <2>6. FirstFound(c, 1, Cell(Second, n)) = <<100 + n + 1>>
    BY <1>1, <1>2, <2>1, <2>5, BeginsLabelled
  <2>7. 100 + n + 1 = 100 + a + j + 1
    <3> HIDE DEF a
    <3> QED BY <2>2 DEF n
  <2> QED BY <2>3, <2>4, <2>6, <2>7
<1> QED BY <1>4, <1>5

-----------------------------------------------------------------------------
\* An element of a segment, counted from the segment's first.
Ahead(l, q, a) == UpTo(l, q) + a

Within1(l, q, a) == a \in 0 .. UpTo(l, q + 1) - UpTo(l, q) - 1

LEMMA AheadFacts ==
  ASSUME NEW l, Covering(l), NEW q \in 0 .. Segments(l) - 1, NEW a, Within1(l, q, a)
  PROVE  /\ Ahead(l, q, a) \in Segment(l, q) /\ Ahead(l, q, a) \in 0 .. l.dimension - 1
         /\ Ahead(l, q, a) - q * l.D = a /\ a \in 0 .. l.D - 1
<1> DEFINE u == UpTo(l, q)
           e == UpTo(l, q + 1)
<1>1. /\ u = q * l.D /\ u \in Nat /\ e \in Nat /\ e - u \in 0 .. l.D /\ e <= l.dimension
      /\ Segment(l, q) = u .. e - 1
  BY SegmentParts
<1>2. l.D \in Nat /\ l.dimension \in Nat BY DEF Covering, Positive
<1>3. a \in 0 .. e - u - 1 BY DEF Within1
<1> HIDE DEF u, e
<1> DEFINE D == l.D
           d == l.dimension
<1>6. u \in Nat /\ e \in Nat /\ e - u \in 0 .. D /\ e <= d /\ D \in Nat /\ d \in Nat
  BY <1>1, <1>2
<1> HIDE DEF D, d
<1>4. u + a \in u .. e - 1 /\ u + a \in 0 .. d - 1 /\ (u + a) - u = a /\ a \in 0 .. D - 1
  BY <1>3, <1>6
<1>5. Ahead(l, q, a) = u + a BY DEF Ahead, u
<1> QED BY <1>1, <1>4, <1>5 DEF D, d

LEMMA AheadAll ==
  ASSUME NEW l, Covering(l), NEW q \in 0 .. Segments(l) - 1, NEW k \in Segment(l, q)
  PROVE  Within1(l, q, k - q * l.D) /\ Ahead(l, q, k - q * l.D) = k
<1> DEFINE u == UpTo(l, q)
           e == UpTo(l, q + 1)
<1>1. u = q * l.D /\ u \in Nat /\ e \in Nat /\ Segment(l, q) = u .. e - 1 BY SegmentParts
<1> HIDE DEF u, e
<1>2. k \in u .. e - 1 BY <1>1
<1>3. k - u \in 0 .. e - u - 1 /\ u + (k - u) = k BY <1>1, <1>2
<1> QED BY <1>1, <1>3 DEF Within1, Ahead, u, e

LEMMA LoadsLeft ==
  ASSUME NEW l, Covering(l), NEW g \in GroupOf(l), NEW i \in ItemOf(l),
         NEW q \in 0 .. Segments(l) - 1, NEW s, row(l, g, i) + s * l.R < l.height
  PROVE  /\ \A x \in DOMAIN LoadM(l, g, i, q, s) : \E a :
              /\ Within1(l, q, a) /\ x = Ml(l, l_row(l, i), a)
              /\ LoadM(l, g, i, q, s)[x] = <<M(l, row(l, g, i) + s * l.R, Ahead(l, q, a))>>
         /\ \A a : Within1(l, q, a) /\ Ahead(l, q, a) % l.C = l_col(l, i) =>
              Ml(l, l_row(l, i), a) \in DOMAIN LoadM(l, g, i, q, s)
<1> DEFINE u == q * l.D
           r == row(l, g, i) + s * l.R
           mine == {k \in Segment(l, q) : k % l.C = l_col(l, i) /\ r < l.height}
           at(k) == Ml(l, l_row(l, i), k - u)
           which(x) == CHOOSE k \in mine : at(k) = x
           f == LoadM(l, g, i, q, s)
<1>1. DOMAIN f = {at(k) : k \in mine} /\ \A x \in DOMAIN f : f[x] = <<M(l, r, which(x))>>
  BY DEF LoadM
<1>2. \A k \in mine : k \in Segment(l, q) /\ Within1(l, q, k - u) /\ Ahead(l, q, k - u) = k
  BY AheadAll
<1>3. \A a : Within1(l, q, a) /\ Ahead(l, q, a) % l.C = l_col(l, i) =>
        Ahead(l, q, a) \in mine /\ Ahead(l, q, a) - u = a
  BY AheadFacts
<1>4. ASSUME NEW k \in mine, NEW m \in mine, at(k) = at(m) PROVE k = m
  <2> DEFINE b == l_row(l, i) * l.D
  <2>1. b \in Nat /\ l.D \in Nat
    <3>1. l_row(l, i) \in Nat BY Coordinates DEF Covering, Positive
    <3> QED BY <3>1, Times DEF Covering, Positive
  <2>2. u \in Nat BY SegmentParts
  <2>3. k \in Int /\ m \in Int BY <1>2 DEF Segment
  <2>4. b + (k - u) = b + (m - u) BY <1>4 DEF Ml, Cell
  <2> HIDE DEF b, u
  <2> QED BY <2>1, <2>2, <2>3, <2>4
<1> HIDE DEF f, mine
<1>5. \A x \in DOMAIN f : which(x) \in mine /\ at(which(x)) = x BY <1>1
<1> HIDE DEF which
<1>6. ASSUME NEW x \in DOMAIN f
      PROVE  \E a : /\ Within1(l, q, a) /\ x = Ml(l, l_row(l, i), a)
                    /\ f[x] = <<M(l, r, Ahead(l, q, a))>>
  <2> DEFINE k == which(x)
  <2>1. k \in mine /\ at(k) = x /\ f[x] = <<M(l, r, k)>> BY <1>1, <1>5
  <2> HIDE DEF k, u
  <2> WITNESS k - u
  <2> QED BY <1>2, <2>1
<1> HIDE DEF u
<1>7. \A a : Within1(l, q, a) /\ Ahead(l, q, a) % l.C = l_col(l, i) =>
        Ml(l, l_row(l, i), a) \in DOMAIN f
  BY <1>1, <1>3
<1> QED BY <1>6, <1>7 DEF f

LEMMA LoadsRight ==
  ASSUME NEW l, Covering(l), NEW g \in GroupOf(l), NEW i \in ItemOf(l),
         NEW q \in 0 .. Segments(l) - 1
  PROVE  /\ \A x \in DOMAIN LoadN(l, g, i, q) : \E a :
              /\ Within1(l, q, a) /\ x = Nl(l, a, l_col(l, i)) /\ col(l, g, i) < l.width
              /\ LoadN(l, g, i, q)[x] = <<N(l, Ahead(l, q, a), col(l, g, i))>>
         /\ \A a : /\ Within1(l, q, a) /\ Ahead(l, q, a) % l.R = l_row(l, i)
                   /\ col(l, g, i) < l.width
                   => Nl(l, a, l_col(l, i)) \in DOMAIN LoadN(l, g, i, q)
<1> DEFINE u == q * l.D
           mine == {k \in Segment(l, q) : k % l.R = l_row(l, i) /\ col(l, g, i) < l.width}
           at(k) == Nl(l, k - u, l_col(l, i))
           which(x) == CHOOSE k \in mine : at(k) = x
           f == LoadN(l, g, i, q)
<1>1. /\ DOMAIN f = {at(k) : k \in mine}
      /\ \A x \in DOMAIN f : f[x] = <<N(l, which(x), col(l, g, i))>>
  BY DEF LoadN
<1>2. \A k \in mine : /\ k \in Segment(l, q) /\ Within1(l, q, k - u) /\ Ahead(l, q, k - u) = k
                      /\ col(l, g, i) < l.width
  BY AheadAll
<1>3. \A a : /\ Within1(l, q, a) /\ Ahead(l, q, a) % l.R = l_row(l, i) /\ col(l, g, i) < l.width
             => Ahead(l, q, a) \in mine /\ Ahead(l, q, a) - u = a
  BY AheadFacts
<1>4. ASSUME NEW k \in mine, NEW m \in mine, at(k) = at(m) PROVE k = m
  <2> DEFINE b == l.R * l.D
             a1 == k - u
             a2 == m - u
  <2>1. /\ b \in Nat /\ l.C \in Positive /\ l_col(l, i) \in 0 .. l.C - 1
    BY Times, Coordinates DEF Covering, Positive
  <2>2. u \in Nat BY SegmentParts
  <2>3. k \in Int /\ m \in Int BY <1>2 DEF Segment
  <2>4. a1 \in Nat /\ a2 \in Nat BY <1>2, AheadFacts
  <2>5. b + a1 * l.C + l_col(l, i) = b + a2 * l.C + l_col(l, i) BY <1>4 DEF Nl, Cell
  <2> HIDE DEF b, a1, a2
  <2>6. a1 * l.C \in Nat /\ a2 * l.C \in Nat BY <2>1, <2>4, Times DEF Positive
  <2>7. a1 * l.C + l_col(l, i) = a2 * l.C + l_col(l, i)
    <3> DEFINE y1 == a1 * l.C
               y2 == a2 * l.C
    <3>1. y1 \in Nat /\ y2 \in Nat /\ b + y1 + l_col(l, i) = b + y2 + l_col(l, i) BY <2>5, <2>6
    <3> HIDE DEF y1, y2
    <3>2. y1 + l_col(l, i) = y2 + l_col(l, i) BY <2>1, <3>1
    <3> QED BY <3>2 DEF y1, y2
  <2>8. a1 = a2 BY <2>1, <2>4, <2>7, PlaceUnique
  <2> HIDE DEF u
  <2> QED BY <2>2, <2>3, <2>8 DEF a1, a2
<1> HIDE DEF f, mine
<1>5. \A x \in DOMAIN f : which(x) \in mine /\ at(which(x)) = x BY <1>1
<1> HIDE DEF which
<1>6. ASSUME NEW x \in DOMAIN f
      PROVE  \E a : /\ Within1(l, q, a) /\ x = Nl(l, a, l_col(l, i)) /\ col(l, g, i) < l.width
                    /\ f[x] = <<N(l, Ahead(l, q, a), col(l, g, i))>>
  <2> DEFINE k == which(x)
  <2>1. k \in mine /\ at(k) = x /\ f[x] = <<N(l, k, col(l, g, i))>> BY <1>1, <1>5
  <2> HIDE DEF k, u
  <2> WITNESS k - u
  <2> QED BY <1>2, <2>1
<1> HIDE DEF u
<1>7. \A a : /\ Within1(l, q, a) /\ Ahead(l, q, a) % l.R = l_row(l, i) /\ col(l, g, i) < l.width
             => Nl(l, a, l_col(l, i)) \in DOMAIN f
  BY <1>1, <1>3
<1> QED BY <1>6, <1>7 DEF f

-----------------------------------------------------------------------------
\* The phases of a group whose items see n tiles.
InTiles(l, g, n) ==
  /\ Covering(l) /\ l.kernel = "SCL_ALLPAIRS"
  /\ n \in 0 .. l.S /\ \A i \in ItemOf(l) : Tiles(l, g, i) = n

LEMMA PhaseCodes ==
  ASSUME NEW l, NEW g \in GroupOf(l), NEW n, InTiles(l, g, n), NEW i \in ItemOf(l)
  PROVE  /\ Phases(l, g, i) = 1 + 2 * Segments(l) * n
         /\ Code(l, g, i, 0) = Clear(l, g, i)
         /\ \A q \in 0 .. Segments(l) - 1, s \in 0 .. n - 1 :
              /\ Code(l, g, i, LoadPhase(n, q, s)) =
                   Merged(LoadM(l, g, i, q, s), IF s = 0 THEN LoadN(l, g, i, q) ELSE Nothing)
              /\ Code(l, g, i, SumPhase(n, q, s)) = Accumulate(l, g, i, q, s)
<1>1. l.kernel = "SCL_ALLPAIRS" /\ Tiles(l, g, i) = n BY DEF InTiles
<1>2. \A p : Code(l, g, i, p) = AllPairsCode(l, g, i, p) BY <1>1 DEF Code
<1>3. Phases(l, g, i) = 1 + 2 * Segments(l) * n
  BY <1>1 DEF Phases, OnePhase, AllPairsPhases
<1>4. Code(l, g, i, 0) = Clear(l, g, i) BY <1>2 DEF AllPairsCode
<1>5. ASSUME NEW q \in 0 .. Segments(l) - 1, NEW s \in 0 .. n - 1
      PROVE  /\ Code(l, g, i, LoadPhase(n, q, s)) =
                   Merged(LoadM(l, g, i, q, s), IF s = 0 THEN LoadN(l, g, i, q) ELSE Nothing)
             /\ Code(l, g, i, SumPhase(n, q, s)) = Accumulate(l, g, i, q, s)
  <2>1. n \in Positive /\ q \in Nat
    <3>1. n \in Nat BY DEF InTiles
    <3>2. Segments(l) \in Nat BY SegmentCount DEF InTiles, Positive
    <3> QED BY <3>1, <3>2 DEF Positive
  <2> DEFINE p == LoadPhase(n, q, s)
             o == SumPhase(n, q, s)
  <2>2. /\ p \in Nat /\ p # 0 /\ p % 2 = 1 /\ ((p - 1) \div 2) \div n = q
        /\ ((p - 1) \div 2) % n = s
        /\ o \in Nat /\ o # 0 /\ o % 2 # 1 /\ ((o - 1) \div 2) \div n = q
        /\ ((o - 1) \div 2) % n = s
    BY <2>1, PhaseParts
  <2> HIDE DEF p, o
  <2>3. p > 0 /\ o > 0 /\ o % 2 = 0 BY <2>2
  <2>4. Code(l, g, i, p) = Merged(LoadM(l, g, i, q, s), IF s = 0 THEN LoadN(l, g, i, q) ELSE Nothing)
    BY <1>1, <1>2, <2>2, <2>3 DEF AllPairsCode
  <2>5. Code(l, g, i, o) = Accumulate(l, g, i, q, s)
    BY <1>1, <1>2, <2>2, <2>3 DEF AllPairsCode
  <2> QED BY <2>4, <2>5 DEF p, o
<1> QED BY <1>3, <1>4, <1>5

\* What an item stores in a phase.
StoresThen(l, g, i, n, p, x) ==
  \/ p = 0 /\ x \in Mine(l, g, i)
  \/ \E q \in 0 .. Segments(l) - 1, s \in 0 .. n - 1 :
       /\ p = LoadPhase(n, q, s)
       /\ x \in DOMAIN LoadM(l, g, i, q, s) \/ (s = 0 /\ x \in DOMAIN LoadN(l, g, i, q))
  \/ \E q \in 0 .. Segments(l) - 1, s \in 0 .. n - 1 :
       /\ p = SumPhase(n, q, s)
       /\ row(l, g, i) + s * l.R < l.height /\ col(l, g, i) < l.width
       /\ x = P(l, row(l, g, i) + s * l.R, col(l, g, i))

LEMMA PhaseStores ==
  ASSUME NEW l, NEW g \in GroupOf(l), NEW n, InTiles(l, g, n), NEW i \in ItemOf(l),
         NEW p \in Nat, p < Phases(l, g, i), NEW x \in DOMAIN Code(l, g, i, p)
  PROVE  StoresThen(l, g, i, n, p, x)
<1>1. Phases(l, g, i) = 1 + 2 * Segments(l) * n BY PhaseCodes
<1>2. CASE p = 0
  <2>1. Code(l, g, i, p) = Clear(l, g, i) BY <1>2, PhaseCodes
  <2>2. x \in Mine(l, g, i) BY <2>1, ClearCells
  <2> QED BY <1>2, <2>2 DEF StoresThen
<1>3. CASE p # 0
  <2>1. n \in Nat /\ Segments(l) \in Nat BY SegmentCount DEF InTiles, Positive
  <2>2. PICK q \in 0 .. Segments(l) - 1, s \in 0 .. n - 1 :
          p = LoadPhase(n, q, s) \/ p = SumPhase(n, q, s)
    <3> DEFINE k == Segments(l)
    <3>1. k \in Nat /\ p < 1 + 2 * k * n BY <1>1, <2>1
    <3> HIDE DEF k
    <3>2. \E q \in 0 .. k - 1, s \in 0 .. n - 1 : p = LoadPhase(n, q, s) \/ p = SumPhase(n, q, s)
      BY <1>3, <2>1, <3>1, PhaseIs
    <3> QED BY <3>2 DEF k
  <2>3. CASE p = LoadPhase(n, q, s)
    <3> DEFINE f == LoadM(l, g, i, q, s)
               h == IF s = 0 THEN LoadN(l, g, i, q) ELSE Nothing
    <3>1. Code(l, g, i, p) = Merged(f, h) BY <2>3, PhaseCodes
    <3>2. DOMAIN h = IF s = 0 THEN DOMAIN LoadN(l, g, i, q) ELSE {} BY CodeOfNone
    <3> HIDE DEF f, h
    <3>a. DOMAIN Merged(f, h) = DOMAIN f \cup DOMAIN h BY CodeOfMerged
    <3>b. x \in DOMAIN Merged(f, h) BY <3>1
    <3>3. x \in DOMAIN f \/ x \in DOMAIN h BY <3>a, <3>b
    <3>4. x \in DOMAIN LoadM(l, g, i, q, s) \/ (s = 0 /\ x \in DOMAIN LoadN(l, g, i, q))
      BY <3>2, <3>3 DEF f
    <3> QED BY <2>3, <3>4 DEF StoresThen
  <2>4. CASE p = SumPhase(n, q, s)
    <3> DEFINE r == row(l, g, i) + s * l.R
               in == r < l.height /\ col(l, g, i) < l.width
               y == P(l, r, col(l, g, i))
               v == <<y>> \o Zipped(Cardinality(Segment(l, q)),
                      LAMBDA k : Ml(l, l_row(l, i), k), LAMBDA k : Nl(l, k, l_col(l, i)))
    <3>1. Code(l, g, i, p) = Accumulate(l, g, i, q, s) BY <2>4, PhaseCodes
    <3>2. Accumulate(l, g, i, q, s) = IF in THEN At(y, v) ELSE Nothing BY DEF Accumulate
    <3> HIDE DEF in, y, v, r
    <3>a. DOMAIN At(y, v) = {y} /\ DOMAIN Nothing = {} BY CodeOfOne, CodeOfNone
    <3> DEFINE f == Accumulate(l, g, i, q, s)
    <3>b. f = (IF in THEN At(y, v) ELSE Nothing) /\ x \in DOMAIN f BY <3>1, <3>2
    <3> HIDE DEF f
    <3>3. in /\ x = y
      <4>1. CASE in BY <4>1, <3>a, <3>b
      <4>2. CASE ~ in BY <4>2, <3>a, <3>b
      <4> QED BY <4>1, <4>2
    <3> QED BY <2>4, <3>3 DEF StoresThen, in, y, r
  <2> QED BY <2>2, <2>3, <2>4
<1> QED BY <1>2, <1>3

\* Pieces are in the local memory, the left one before the right one.
LEMMA PieceCells ==
  ASSUME NEW l, Covering(l), NEW q \in 0 .. Segments(l) - 1, NEW a, Within1(l, q, a)
  PROVE  /\ \A r \in 0 .. l.R - 1 : /\ Ml(l, r, a)[1] = Shared
                                    /\ Ml(l, r, a)[2] \in 0 .. l.R * l.D - 1
                                    /\ Ml(l, r, a)[2] \div l.D = r /\ Ml(l, r, a)[2] % l.D = a
         /\ \A k \in 0 .. l.C - 1 :
              /\ Nl(l, a, k)[1] = Shared
              /\ Nl(l, a, k)[2] \in l.R * l.D .. l.local - 1
              /\ (Nl(l, a, k)[2] - l.R * l.D) \div l.C = a
              /\ (Nl(l, a, k)[2] - l.R * l.D) % l.C = k
<1> DEFINE RD == l.R * l.D
           DC == l.D * l.C
<1>1. /\ l.R \in Nat /\ l.D \in Nat /\ l.C \in Nat /\ l.D \in Positive /\ l.C \in Positive
      /\ RD \in Nat /\ DC \in Nat /\ l.local = RD + DC
  BY Times DEF Covering, Positive
<1>2. a \in 0 .. l.D - 1 /\ a \in Nat BY AheadFacts
<1>3. ASSUME NEW r \in 0 .. l.R - 1
      PROVE  /\ Ml(l, r, a)[1] = Shared /\ Ml(l, r, a)[2] \in 0 .. RD - 1
             /\ Ml(l, r, a)[2] \div l.D = r /\ Ml(l, r, a)[2] % l.D = a
  <2>1. r * l.D + a \in 0 .. RD - 1 BY <1>1, <1>2, Place
  <2>2. (l.D * r + a) \div l.D = r /\ (l.D * r + a) % l.D = a BY <1>1, <1>2, Quotient
  <2>3. l.D * r = r * l.D BY <1>1
  <2>4. Ml(l, r, a)[1] = Shared /\ Ml(l, r, a)[2] = r * l.D + a BY DEF Ml, Cell
  <2> HIDE DEF RD
  <2> QED BY <2>1, <2>2, <2>3, <2>4
<1>4. ASSUME NEW k \in 0 .. l.C - 1
      PROVE  /\ Nl(l, a, k)[1] = Shared /\ Nl(l, a, k)[2] \in RD .. l.local - 1
             /\ (Nl(l, a, k)[2] - RD) \div l.C = a /\ (Nl(l, a, k)[2] - RD) % l.C = k
  <2> DEFINE y == a * l.C + k
  <2>1. y \in 0 .. DC - 1 BY <1>1, <1>2, Place
  <2>2. (l.C * a + k) \div l.C = a /\ (l.C * a + k) % l.C = k BY <1>1, <1>2, Quotient
  <2>3. l.C * a = a * l.C /\ a * l.C \in Nat BY <1>1, <1>2, Times
  <2>4. y \div l.C = a /\ y % l.C = k BY <2>2, <2>3
  <2>5. Nl(l, a, k)[1] = Shared /\ Nl(l, a, k)[2] = RD + y
    <3>1. Nl(l, a, k)[1] = Shared /\ Nl(l, a, k)[2] = RD + a * l.C + k BY DEF Nl, Cell
    <3> DEFINE z == a * l.C
    <3>2. z \in Nat /\ k \in Nat BY <1>1, <2>3
    <3> HIDE DEF RD, z
    <3>3. RD + z + k = RD + (z + k) BY <1>1, <3>2
    <3> QED BY <3>1, <3>3 DEF z
  <2> HIDE DEF RD, DC, y
  <2>6. RD + y \in RD .. l.local - 1 /\ (RD + y) - RD = y BY <1>1, <2>1
  <2> QED BY <2>4, <2>5, <2>6
<1> QED BY <1>3, <1>4

\* An item by its row and column in the tile.
LEMMA ItemAt ==
  ASSUME NEW l, Covering(l), NEW g \in GroupOf(l), NEW r \in 0 .. l.R - 1, NEW k \in 0 .. l.C - 1
  PROVE  \E i \in ItemOf(l) : l_row(l, i) = r /\ l_col(l, i) = k
<1>1. l.C \in Positive /\ l.C \in Nat /\ l.R \in Nat /\ l.items = l.C * l.R /\ r \in Nat
  BY DEF Covering, Positive
<1> DEFINE i == r * l.C + k
<1>2. i \in 0 .. l.R * l.C - 1 BY <1>1, Place
<1>3. l.R * l.C = l.C * l.R BY <1>1
<1>4. (l.C * r + k) \div l.C = r /\ (l.C * r + k) % l.C = k BY <1>1, Quotient
<1>5. l.C * r = r * l.C BY <1>1
<1>6. i \div l.C = r /\ i % l.C = k BY <1>4, <1>5
<1> HIDE DEF i
<1>7. i \in ItemOf(l) BY <1>1, <1>2, <1>3 DEF ItemOf
<1> QED BY <1>6, <1>7 DEF l_row, l_col

\* What lies in a row or column lies there for all items of it.
LEMMA SameLine ==
  ASSUME NEW l, Covering(l), NEW g \in GroupOf(l), NEW i \in ItemOf(l), NEW j \in ItemOf(l)
  PROVE  /\ l_row(l, i) = l_row(l, j) => row(l, g, i) = row(l, g, j)
         /\ l_col(l, i) = l_col(l, j) => col(l, g, i) = col(l, g, j)
BY Coordinates DEF col

\* The local memory has the pieces when they are used.
LEMMA LeftStored ==
  ASSUME NEW l, NEW g \in GroupOf(l), NEW n, InTiles(l, g, n), NEW i \in ItemOf(l),
         NEW q \in 0 .. Segments(l) - 1, NEW s \in 0 .. n - 1, NEW a, Within1(l, q, a),
         row(l, g, i) + s * l.R < l.height
  PROVE  StoredIn(l, g, LoadPhase(n, q, s), Ml(l, l_row(l, i), a))
<1>0. Covering(l) /\ n \in Nat /\ Segments(l) \in Nat BY SegmentCount DEF InTiles, Positive
<1> DEFINE k == Ahead(l, q, a)
           p == LoadPhase(n, q, s)
<1>1. k \in Nat BY <1>0, AheadFacts
<1>2. k % l.C \in 0 .. l.C - 1 BY <1>0, <1>1, Division DEF Covering
<1>3. l_row(l, i) \in 0 .. l.R - 1 BY <1>0, Coordinates
<1>4. PICK j \in ItemOf(l) : l_row(l, j) = l_row(l, i) /\ l_col(l, j) = k % l.C
  BY <1>0, <1>2, <1>3, ItemAt
<1>5. row(l, g, j) = row(l, g, i) BY <1>0, <1>4, SameLine
<1>6. Ml(l, l_row(l, j), a) \in DOMAIN LoadM(l, g, j, q, s)
  BY <1>0, <1>4, <1>5, LoadsLeft
<1>7. p < Phases(l, g, j)
  <2>1. Phases(l, g, j) = 1 + 2 * Segments(l) * n BY PhaseCodes
  <2> DEFINE K == Segments(l)
  <2>2. K \in Nat /\ q \in 0 .. K - 1 BY <1>0
  <2> HIDE DEF K
  <2>3. p < 1 + 2 * K * n BY <1>0, <2>2, PhaseBefore
  <2> QED BY <2>1, <2>3 DEF K
<1>8. Ml(l, l_row(l, i), a) \in DOMAIN Code(l, g, j, p)
  <2> DEFINE f == LoadM(l, g, j, q, s)
             h == IF s = 0 THEN LoadN(l, g, j, q) ELSE Nothing
  <2>1. Code(l, g, j, p) = Merged(f, h) BY PhaseCodes
  <2>2. Ml(l, l_row(l, i), a) \in DOMAIN f BY <1>4, <1>6
  <2> HIDE DEF f, h
  <2>3. DOMAIN Merged(f, h) = DOMAIN f \cup DOMAIN h BY CodeOfMerged
  <2>4. Ml(l, l_row(l, i), a) \in DOMAIN Merged(f, h) BY <2>2, <2>3
  <2> QED BY <2>1, <2>4
<1> QED BY <1>7, <1>8 DEF StoredIn

LEMMA RightStored ==
  ASSUME NEW l, NEW g \in GroupOf(l), NEW n, InTiles(l, g, n), n # 0, NEW i \in ItemOf(l),
         NEW q \in 0 .. Segments(l) - 1, NEW a, Within1(l, q, a), col(l, g, i) < l.width
  PROVE  StoredIn(l, g, LoadPhase(n, q, 0), Nl(l, a, l_col(l, i)))
<1>0. Covering(l) /\ n \in Nat /\ Segments(l) \in Nat BY SegmentCount DEF InTiles, Positive
<1> DEFINE k == Ahead(l, q, a)
           p == LoadPhase(n, q, 0)
<1>1. k \in Nat BY <1>0, AheadFacts
<1>2. k % l.R \in 0 .. l.R - 1 BY <1>0, <1>1, Division DEF Covering
<1>3. l_col(l, i) \in 0 .. l.C - 1 BY <1>0, Coordinates
<1>4. PICK j \in ItemOf(l) : l_row(l, j) = k % l.R /\ l_col(l, j) = l_col(l, i)
  BY <1>0, <1>2, <1>3, ItemAt
<1>5. col(l, g, j) = col(l, g, i) BY <1>0, <1>4, SameLine
<1>6. Nl(l, a, l_col(l, j)) \in DOMAIN LoadN(l, g, j, q)
  BY <1>0, <1>4, <1>5, LoadsRight
<1>a. 0 \in 0 .. n - 1 BY <1>0
<1>7. p < Phases(l, g, j)
  <2>1. Phases(l, g, j) = 1 + 2 * Segments(l) * n BY PhaseCodes
  <2> DEFINE K == Segments(l)
  <2>2. K \in Nat /\ q \in 0 .. K - 1 BY <1>0
  <2> HIDE DEF K
  <2>3. p < 1 + 2 * K * n BY <1>0, <1>a, <2>2, PhaseBefore
  <2> QED BY <2>1, <2>3 DEF K
<1>8. Nl(l, a, l_col(l, i)) \in DOMAIN Code(l, g, j, p)
  <2> DEFINE f == LoadM(l, g, j, q, 0)
             h == LoadN(l, g, j, q)
             s == 0
  <2> HIDE DEF f, h, s
  <2>1. Code(l, g, j, p) = Merged(f, h)
    <3>1. /\ s \in 0 .. n - 1 /\ s = 0
      BY <1>a DEF s
    <3>2. Code(l, g, j, LoadPhase(n, q, s)) =
            Merged(LoadM(l, g, j, q, s), IF s = 0 THEN LoadN(l, g, j, q) ELSE Nothing)
      BY <3>1, PhaseCodes
    <3> QED BY <3>1, <3>2 DEF f, h
  <2>2. Nl(l, a, l_col(l, i)) \in DOMAIN h BY <1>4, <1>6 DEF h
  <2>3. DOMAIN Merged(f, h) = DOMAIN f \cup DOMAIN h BY CodeOfMerged
  <2>4. Nl(l, a, l_col(l, i)) \in DOMAIN Merged(f, h) BY <2>2, <2>3
  <2> QED BY <2>1, <2>4
<1> QED BY <1>7, <1>8 DEF StoredIn

\* A piece of the right matrix serves all tiles of its segment.
LEMMA RightLasts ==
  ASSUME NEW l, NEW g \in GroupOf(l), NEW n, InTiles(l, g, n),
         NEW q \in 0 .. Segments(l) - 1, NEW s \in 0 .. n - 1, NEW a, Within1(l, q, a),
         NEW k \in 0 .. l.C - 1,
         NEW p \in LoadPhase(n, q, 0) + 1 .. SumPhase(n, q, s) - 1
  PROVE  ~ StoredIn(l, g, p, Nl(l, a, k))
<1> SUFFICES ASSUME NEW i \in ItemOf(l), p < Phases(l, g, i),
                    Nl(l, a, k) \in DOMAIN Code(l, g, i, p)
             PROVE  FALSE
  BY DEF StoredIn
<1>0. /\ Covering(l) /\ n \in Nat /\ n \in Positive /\ Segments(l) \in Nat /\ q \in Nat
      /\ 0 \in 0 .. n - 1
  BY SegmentCount DEF InTiles, Positive
<1> DEFINE x == Nl(l, a, k)
           first == LoadPhase(n, q, 0)
<1>1. x[1] = Shared /\ x[2] \in l.R * l.D .. l.local - 1 BY <1>0, PieceCells
<1>2. first \in Nat /\ SumPhase(n, q, s) \in Nat BY <1>0, PhaseParts
<1>3. p \in Nat /\ p # 0
  <2> HIDE DEF first
  <2> QED BY <1>2 DEF first
<1> HIDE DEF x
<1>4. StoresThen(l, g, i, n, p, x) BY <1>3, PhaseStores DEF x
<1>5. ASSUME NEW r \in 0 .. Segments(l) - 1, NEW u \in 0 .. n - 1, p = LoadPhase(n, r, u)
      PROVE  u # 0
  <2> SUFFICES ASSUME u = 0 PROVE FALSE OBVIOUS
  <2> DEFINE qn == q * n
             rn == r * n
  <2>1. qn \in Nat /\ rn \in Nat /\ r \in Nat BY <1>0, Times
  <2> DEFINE last == SumPhase(n, q, s)
  <2>a. first + 1 <= p /\ p <= last - 1
    <3>1. p \in first + 1 .. last - 1 OBVIOUS
    <3>2. first \in Nat /\ last \in Nat BY <1>2
    <3> HIDE DEF first, last
    <3> QED BY <3>1, <3>2
  <2>b. first = 1 + 2 * (qn + 0) BY DEF LoadPhase
  <2>c. last = 2 + 2 * (qn + s) BY DEF SumPhase
  <2>d. p = 1 + 2 * (rn + u) BY <1>5 DEF LoadPhase
  <2> HIDE DEF first, last
  <2>2. 1 + 2 * (qn + 0) + 1 <= p /\ p <= 2 + 2 * (qn + s) - 1 /\ p = 1 + 2 * (rn + u)
    BY <1>0, <1>3, <2>1, <2>a, <2>b, <2>c, <2>d
  <2> HIDE DEF qn, rn
  <2>3. qn + 0 < rn + u /\ (rn + u < qn + s \/ rn + u = qn + s) BY <1>0, <2>1, <2>2
  <2>4. q < r \/ (q = r /\ 0 < u) BY <1>0, <2>1, <2>3, PhaseOrder DEF qn, rn
  <2>5. q < r BY <2>4
  <2>6. CASE rn + u < qn + s
    <3>1. r < q \/ (r = q /\ u < s) BY <1>0, <2>1, <2>6, PhaseOrder DEF qn, rn
    <3> QED BY <1>0, <2>1, <2>5, <3>1
  <2>7. CASE rn + u = qn + s
    <3>1. r = q BY <1>0, <2>1, <2>7, PlaceUnique DEF qn, rn
    <3> QED BY <1>0, <2>5, <3>1
  <2> QED BY <2>3, <2>6, <2>7
<1>6. ASSUME NEW r \in 0 .. Segments(l) - 1, NEW u \in 0 .. n - 1, x \in DOMAIN LoadM(l, g, i, r, u)
      PROVE  FALSE
  <2>1. row(l, g, i) + u * l.R < l.height
    <3> DEFINE mine == {m \in Segment(l, r) : m % l.C = l_col(l, i)
                                              /\ row(l, g, i) + u * l.R < l.height}
    <3>1. DOMAIN LoadM(l, g, i, r, u) = {Ml(l, l_row(l, i), m - r * l.D) : m \in mine}
      BY DEF LoadM
    <3>2. mine # {} BY <1>6, <3>1
    <3> QED BY <3>2
  <2>2. PICK b : Within1(l, r, b) /\ x = Ml(l, l_row(l, i), b) BY <1>0, <1>6, <2>1, LoadsLeft
  <2>3. l_row(l, i) \in 0 .. l.R - 1 BY <1>0, Coordinates
  <2>4. x[2] \in 0 .. l.R * l.D - 1 BY <1>0, <2>2, <2>3, PieceCells
  <2>5. l.R * l.D \in Nat BY <1>0, Times DEF Covering, Positive
  <2> DEFINE y == l.R * l.D
  <2>6. y \in Nat /\ x[2] \in 0 .. y - 1 /\ x[2] \in y .. l.local - 1 BY <1>1, <2>4, <2>5
  <2> HIDE DEF y
  <2> QED BY <2>6
<1>7. x[1] # Out BY <1>1 DEF Out, Shared
<1>8. \A z : z \in Mine(l, g, i) => z[1] = Out BY DEF Mine, P, Cell
<1>9. \A r, m : P(l, r, m)[1] = Out BY DEF P, Cell
<1> QED BY <1>3, <1>4, <1>5, <1>6, <1>7, <1>8, <1>9 DEF StoresThen

\* A cell of the output, in tile m of an item.
OutCell(l, g, i, m) == P(l, row(l, g, i) + m * l.R, col(l, g, i))

OutIn(l, g, i, m) ==
  m \in 0 .. l.S - 1 /\ row(l, g, i) + m * l.R < l.height /\ col(l, g, i) < l.width

LEMMA MineIn ==
  ASSUME NEW l, NEW g, NEW i, NEW x
  PROVE  x \in Mine(l, g, i) <=> \E m : OutIn(l, g, i, m) /\ x = OutCell(l, g, i, m)
<1> DEFINE S == {m \in 0 .. l.S - 1 : row(l, g, i) + m * l.R < l.height /\ col(l, g, i) < l.width}
<1>1. \A m : m \in S <=> OutIn(l, g, i, m) BY DEF OutIn
<1>2. Mine(l, g, i) = {OutCell(l, g, i, m) : m \in S} BY DEF Mine, OutCell
<1> HIDE DEF S
<1> QED BY <1>1, <1>2

\* The group gets to every tile that an item has a cell in.
LEMMA TileSeen ==
  ASSUME NEW l, NEW g \in GroupOf(l), NEW n, InTiles(l, g, n), NEW i \in ItemOf(l),
         NEW m, OutIn(l, g, i, m)
  PROVE  m \in 0 .. n - 1
<1> DEFINE base == row(l, g, i) - l_row(l, i)
           T == {s \in 0 .. l.S - 1 : base + s * l.R < l.height}
<1>1. Covering(l) /\ Tiles(l, g, i) = n BY DEF InTiles
<1>2. /\ l.S \in Nat /\ l.R \in Nat /\ l.height \in Nat
      /\ m \in 0 .. l.S - 1 /\ row(l, g, i) + m * l.R < l.height /\ m \in Nat
  BY <1>1 DEF OutIn, Covering, Positive
<1>3. row(l, g, i) \in Nat /\ l_row(l, i) \in Nat BY <1>1, Coordinates
<1>4. base \in Int /\ base <= row(l, g, i) BY <1>3
<1>5. n = Cardinality(T) BY <1>1 DEF Tiles
<1> HIDE DEF base, T
<1>6. 0 .. m \subseteq T
  <2> SUFFICES ASSUME NEW s \in 0 .. m PROVE s \in T OBVIOUS
  <2>1. s \in 0 .. l.S - 1 /\ m - s \in Nat /\ s \in Nat BY <1>2
  <2>2. s * l.R \in Nat /\ (m - s) * l.R \in Nat /\ m * l.R \in Nat BY <1>2, <2>1, Times
  <2>3. m * l.R = s * l.R + (m - s) * l.R BY <1>2, <2>1
  <2> DEFINE a == s * l.R
             b == (m - s) * l.R
             d == m * l.R
  <2>4. a \in Nat /\ b \in Nat /\ d = a + b /\ row(l, g, i) + d < l.height BY <1>2, <2>2, <2>3
  <2> HIDE DEF a, b, d
  <2>5. base + a < l.height BY <1>2, <1>3, <1>4, <2>4
  <2> QED BY <2>1, <2>5 DEF T, a
<1>7. IsFiniteSet(T)
  <2>a. 0 \in Int /\ l.S - 1 \in Int BY <1>2
  <2>1. IsFiniteSet(0 .. l.S - 1) BY <2>a, FS_Interval, Zenon
  <2>2. T \subseteq 0 .. l.S - 1 BY DEF T
  <2> QED BY <2>1, <2>2, FS_Subset
<1>8. Cardinality(0 .. m) = m + 1
  <2> DEFINE o == 0
  <2>1. o \in Int /\ m \in Int BY <1>2
  <2> HIDE DEF o
  <2>2. Cardinality(o .. m) = IF o > m THEN 0 ELSE m - o + 1 BY <2>1, FS_Interval
  <2> QED BY <1>2, <2>2 DEF o
<1>9. Cardinality(0 .. m) <= Cardinality(T) BY <1>6, <1>7, FS_Subset
<1>10. n \in Nat BY <1>5, <1>7, FS_CardinalityType
<1> QED BY <1>2, <1>5, <1>8, <1>9, <1>10

\* Whose it is, and of which tile.
LEMMA OutCells ==
  ASSUME NEW l, Covering(l), NEW g \in GroupOf(l), NEW i \in ItemOf(l), NEW m, OutIn(l, g, i, m)
  PROVE  /\ OutCell(l, g, i, m)[1] = Out
         /\ OutCell(l, g, i, m)[2] \in 0 .. l.height * l.width - 1
         /\ OutCell(l, g, i, m)[2] \div l.width = row(l, g, i) + m * l.R
         /\ OutCell(l, g, i, m)[2] % l.width = col(l, g, i)
         /\ \A j \in ItemOf(l) : \A s :
              OutIn(l, g, j, s) /\ OutCell(l, g, j, s) = OutCell(l, g, i, m) => i = j /\ s = m
<1> DEFINE x == OutCell(l, g, i, m)
           r == row(l, g, i) + m * l.R
           k == col(l, g, i)
           w == l.width
<1>1. x \in Mine(l, g, i) BY MineIn
<1>2. x[1] = Out /\ x[2] \in 0 .. l.height * l.width - 1 BY <1>1, MineIsMine
<1>3. /\ m \in 0 .. l.S - 1 /\ m \in Nat /\ k < l.width /\ l.R \in Positive /\ l.R \in Nat
      /\ w \in Positive /\ w \in Nat /\ row(l, g, i) \in Nat /\ k \in Nat
  BY Coordinates DEF OutIn, Covering, Positive
<1>4. m * l.R \in Nat /\ r \in Nat BY <1>3, Times
<1>5. x[2] = r * w + k BY DEF OutCell, P, Cell
<1> HIDE DEF x, r, k, w
<1>6. k \in 0 .. w - 1 BY <1>3 DEF w, k
<1>7. (w * r + k) \div w = r /\ (w * r + k) % w = k BY <1>3, <1>4, <1>6, Quotient
<1>8. w * r = r * w BY <1>3, <1>4
<1>9. x[2] \div w = r /\ x[2] % w = k BY <1>5, <1>7, <1>8
<1>10. ASSUME NEW j \in ItemOf(l), NEW s, OutIn(l, g, j, s), OutCell(l, g, j, s) = x
       PROVE  i = j /\ s = m
  <2>1. x \in Mine(l, g, j) BY <1>10, MineIn
  <2>2. i = j BY <1>1, <2>1, MineIsMine
  <2>3. s \in Nat /\ s * l.R \in Nat
    <3>1. s \in Nat BY <1>10 DEF OutIn, Covering, Positive
    <3> QED BY <1>3, <3>1, Times
  <2> DEFINE t == row(l, g, i) + s * l.R
  <2>4. t \in Nat BY <1>3, <2>3
  <2>5. x[2] = t * w + k BY <1>10, <2>2 DEF OutCell, P, Cell, w, k
  <2> HIDE DEF t
  <2>6. r = t BY <1>3, <1>4, <1>5, <1>6, <2>4, <2>5, PlaceUnique
  <2>7. m * l.R = s * l.R
    <3> DEFINE a == m * l.R
               b == s * l.R
    <3>1. a \in Nat /\ b \in Nat /\ row(l, g, i) + a = row(l, g, i) + b BY <1>4, <2>3, <2>6 DEF r, t
    <3> HIDE DEF a, b
    <3>2. a = b BY <1>3, <3>1
    <3> QED BY <3>2 DEF a, b
  <2>8. m * l.R + 0 = s * l.R + 0 /\ 0 \in 0 .. l.R - 1 BY <1>3, <1>4, <2>3, <2>7 DEF Positive
  <2> DEFINE o == 0
  <2>9. m * l.R + o = s * l.R + o /\ o \in 0 .. l.R - 1 BY <2>8
  <2> HIDE DEF o
  <2>10. m = s BY <1>3, <2>3, <2>9, PlaceUnique
  <2> QED BY <2>2, <2>10
<1> QED BY <1>2, <1>9, <1>10 DEF x, r, k, w

\* Where a phase stores.
LEMMA StoredWhere ==
  ASSUME NEW l, NEW g \in GroupOf(l), NEW n, InTiles(l, g, n),
         NEW p \in Nat, NEW x, StoredIn(l, g, p, x)
  PROVE  /\ x[1] \in {Out, Shared}
         /\ x[1] = Out /\ p # 0 =>
              \E i \in ItemOf(l) : \E q \in 0 .. Segments(l) - 1, s \in 0 .. n - 1 :
                p = SumPhase(n, q, s) /\ OutIn(l, g, i, s) /\ x = OutCell(l, g, i, s)
<1>1. PICK i \in ItemOf(l) : p < Phases(l, g, i) /\ x \in DOMAIN Code(l, g, i, p) BY DEF StoredIn
<1>2. StoresThen(l, g, i, n, p, x) BY <1>1, PhaseStores
<1>3. Covering(l) /\ l.S \in Nat /\ n \in 0 .. l.S BY DEF InTiles, Covering, Positive
<1>4. CASE p = 0 /\ x \in Mine(l, g, i)
  <2>1. x[1] = Out BY <1>3, <1>4, MineIsMine
  <2> QED BY <1>4, <2>1
<1>5. ASSUME NEW q, NEW s, x \in DOMAIN LoadM(l, g, i, q, s) \/ x \in DOMAIN LoadN(l, g, i, q)
      PROVE  x[1] = Shared
  <2>1. \A y \in DOMAIN LoadM(l, g, i, q, s) : y[1] = Shared BY DEF LoadM, Ml, Cell
  <2>2. \A y \in DOMAIN LoadN(l, g, i, q) : y[1] = Shared BY DEF LoadN, Nl, Cell
  <2> QED BY <1>5, <2>1, <2>2
<1>6. Out # Shared BY DEF Out, Shared
<1>7. ASSUME NEW q \in 0 .. Segments(l) - 1, NEW s \in 0 .. n - 1, p = SumPhase(n, q, s),
             row(l, g, i) + s * l.R < l.height, col(l, g, i) < l.width,
             x = P(l, row(l, g, i) + s * l.R, col(l, g, i))
      PROVE  OutIn(l, g, i, s) /\ x = OutCell(l, g, i, s) /\ x[1] = Out
  <2>1. s \in 0 .. l.S - 1 BY <1>3
  <2>2. OutIn(l, g, i, s) BY <1>7, <2>1 DEF OutIn
  <2> QED BY <1>3, <1>7, <2>2, OutCells DEF OutCell
<1> QED BY <1>2, <1>4, <1>5, <1>6, <1>7 DEF StoresThen

\* A cell of the output is stored when the tile's segments are summed, and cleared before.
LEMMA OutStored ==
  ASSUME NEW l, NEW g \in GroupOf(l), NEW n, InTiles(l, g, n), NEW i \in ItemOf(l),
         NEW m, OutIn(l, g, i, m)
  PROVE  /\ m \in 0 .. n - 1
         /\ StoredIn(l, g, 0, OutCell(l, g, i, m))
         /\ \A q \in 0 .. Segments(l) - 1 :
              /\ StoredIn(l, g, SumPhase(n, q, m), OutCell(l, g, i, m))
              /\ SumPhase(n, q, m) < Phases(l, g, i)
         /\ \A p \in Nat : p # 0 /\ StoredIn(l, g, p, OutCell(l, g, i, m)) =>
              \E q \in 0 .. Segments(l) - 1 : p = SumPhase(n, q, m)
<1> DEFINE x == OutCell(l, g, i, m)
           K == Segments(l)
<1>1. Covering(l) /\ l.kernel = "SCL_ALLPAIRS" /\ n \in Nat BY DEF InTiles, Covering, Positive
<1>2. K \in Nat BY <1>1, SegmentCount DEF Positive
<1>3. m \in 0 .. n - 1 BY TileSeen
<1>4. Phases(l, g, i) = 1 + 2 * K * n BY PhaseCodes
<1>5. /\ OutIn(l, g, i, m)
      /\ row(l, g, i) + m * l.R < l.height /\ col(l, g, i) < l.width
  BY DEF OutIn
<1>6. x[1] = Out BY <1>1, OutCells
<1>7. StoredIn(l, g, 0, x)
  <2>1. Code(l, g, i, 0) = Clear(l, g, i) BY PhaseCodes
  <2>2. x \in DOMAIN Code(l, g, i, 0) BY <2>1, ClearCells, MineIn
  <2>3. 0 < Phases(l, g, i)
    <3> HIDE DEF K
    <3>1. K * n \in Nat BY <1>1, <1>2, Times
    <3>2. 2 * K * n = 2 * (K * n) BY <1>1, <1>2
    <3> QED BY <1>4, <3>1, <3>2
  <2> QED BY <2>2, <2>3 DEF StoredIn
<1>8. ASSUME NEW q \in 0 .. K - 1
      PROVE  SumPhase(n, q, m) < Phases(l, g, i) /\ StoredIn(l, g, SumPhase(n, q, m), x)
  <2>1. SumPhase(n, q, m) < 1 + 2 * K * n
    <3> HIDE DEF K
    <3> QED BY <1>1, <1>2, <1>3, PhaseBefore
  <2>2. Code(l, g, i, SumPhase(n, q, m)) = Accumulate(l, g, i, q, m) BY <1>3, PhaseCodes
  <2> DEFINE z == <<x>> \o Zipped(Cardinality(Segment(l, q)),
                     LAMBDA k : Ml(l, l_row(l, i), k), LAMBDA k : Nl(l, k, l_col(l, i)))
  <2>3. Accumulate(l, g, i, q, m) = At(x, z) BY <1>5 DEF Accumulate, OutCell
  <2> HIDE DEF z, x
  <2>4. x \in DOMAIN At(x, z) BY CodeOfOne
  <2> QED BY <1>4, <2>1, <2>2, <2>3, <2>4 DEF StoredIn
<1>9. ASSUME NEW p \in Nat, p # 0, StoredIn(l, g, p, x)
      PROVE  \E q \in 0 .. K - 1 : p = SumPhase(n, q, m)
  <2>1. PICK j \in ItemOf(l), q \in 0 .. K - 1, s \in 0 .. n - 1 :
          p = SumPhase(n, q, s) /\ OutIn(l, g, j, s) /\ x = OutCell(l, g, j, s)
    BY <1>6, <1>9, StoredWhere
  <2>2. s = m BY <1>1, <2>1, OutCells
  <2> QED BY <2>1, <2>2
<1> QED BY <1>3, <1>7, <1>8, <1>9

LEMMA SumOrder ==
  ASSUME NEW n \in Positive, NEW q \in Nat, NEW r \in Nat, NEW m \in 0 .. n - 1,
         SumPhase(n, r, m) < SumPhase(n, q, m)
  PROVE  r < q
<1> DEFINE qn == q * n
           rn == r * n
<1>1. qn \in Nat /\ rn \in Nat /\ m \in Nat /\ n \in Nat BY Times DEF Positive
<1>2. SumPhase(n, r, m) = 2 + 2 * (rn + m) /\ SumPhase(n, q, m) = 2 + 2 * (qn + m) BY DEF SumPhase
<1> HIDE DEF qn, rn
<1>3. rn + m < qn + m BY <1>1, <1>2
<1> QED BY <1>1, <1>3, PhaseOrder DEF qn, rn

\* The last store before the sum over segment q, or before the end, is that over
\* the segment before, or the first one of all.
Before(n, q, m) == IF q = 0 THEN 0 ELSE SumPhase(n, q - 1, m)

LEMMA OutLasts ==
  ASSUME NEW l, NEW g \in GroupOf(l), NEW n, InTiles(l, g, n), NEW i \in ItemOf(l),
         NEW m, OutIn(l, g, i, m), NEW q \in 0 .. Segments(l)
  PROVE  /\ Before(n, q, m) \in Nat
         /\ StoredIn(l, g, Before(n, q, m), OutCell(l, g, i, m))
         /\ Before(n, q, m) < SumPhase(n, q, m)
         /\ Before(n, q, m) < Phases(l, g, i)
         /\ \A p \in Nat : /\ Before(n, q, m) < p
                           /\ p < SumPhase(n, q, m) \/ q = Segments(l)
              => ~ StoredIn(l, g, p, OutCell(l, g, i, m))
<1> DEFINE x == OutCell(l, g, i, m)
           K == Segments(l)
           b == Before(n, q, m)
           e == SumPhase(n, q, m)
<1>1. Covering(l) /\ n \in Nat BY DEF InTiles, Covering, Positive
<1>2. K \in Nat /\ q \in Nat BY <1>1, SegmentCount DEF Positive
<1>3. /\ m \in 0 .. n - 1 /\ StoredIn(l, g, 0, x)
      /\ \A r \in 0 .. K - 1 : StoredIn(l, g, SumPhase(n, r, m), x) /\ SumPhase(n, r, m) < Phases(l, g, i)
      /\ \A p \in Nat : p # 0 /\ StoredIn(l, g, p, x) => \E r \in 0 .. K - 1 : p = SumPhase(n, r, m)
  BY OutStored
<1>4. n \in Positive BY <1>1, <1>3 DEF Positive
<1>5. e \in Nat /\ e # 0 BY <1>2, <1>3, <1>4, PhaseParts
<1>6. q # 0 => q - 1 \in 0 .. K - 1 /\ q - 1 \in Nat BY <1>2
<1>7. b \in Nat BY <1>3, <1>4, <1>6, PhaseParts DEF Before
<1>8. StoredIn(l, g, b, x) BY <1>3, <1>6 DEF Before
<1>9. b < e
  <2>1. CASE q = 0 BY <1>5, <2>1 DEF Before
  <2>2. CASE q # 0
    <3> DEFINE qn == q * n
               rn == (q - 1) * n
    <3>1. qn \in Nat /\ rn \in Nat BY <1>1, <1>2, <1>6, <2>2, Times
    <3>2. qn = rn + n BY <1>1, <1>2
    <3>3. b = 2 + 2 * (rn + m) /\ e = 2 + 2 * (qn + m) BY <2>2 DEF Before, SumPhase
    <3> HIDE DEF qn, rn, b, e
    <3> QED BY <1>1, <1>3, <1>4, <3>1, <3>2, <3>3 DEF Positive
  <2> QED BY <2>1, <2>2
<1>10. b < Phases(l, g, i)
  <2>1. CASE q = 0
    <3>1. Phases(l, g, i) = 1 + 2 * K * n BY PhaseCodes
    <3> HIDE DEF K
    <3>2. K * n \in Nat BY <1>1, <1>2, Times
    <3>3. 2 * K * n = 2 * (K * n) BY <1>1, <1>2
    <3> QED BY <2>1, <3>1, <3>2, <3>3 DEF Before
  <2>2. CASE q # 0 BY <1>3, <1>6, <2>2 DEF Before
  <2> QED BY <2>1, <2>2
<1>11. ASSUME NEW p \in Nat, b < p, p < e \/ q = K, StoredIn(l, g, p, x)
       PROVE  FALSE
  <2>1. p # 0 BY <1>7, <1>11
  <2>2. PICK r \in 0 .. K - 1 : p = SumPhase(n, r, m) BY <1>3, <1>11, <2>1
  <2>3. r \in Nat /\ r < K BY <1>2
  <2>4. r < q
    <3>1. CASE q = K BY <2>3, <3>1
    <3>2. CASE p < e
      <4>1. SumPhase(n, r, m) < SumPhase(n, q, m) BY <2>2, <3>2
      <4> QED BY <1>2, <1>3, <1>4, <2>3, <4>1, SumOrder
    <3> QED BY <1>11, <3>1, <3>2
  <2>5. q # 0 /\ b = SumPhase(n, q - 1, m) BY <1>2, <2>3, <2>4 DEF Before
  <2>6. SumPhase(n, q - 1, m) < SumPhase(n, r, m) BY <1>11, <2>2, <2>5
  <2>7. q - 1 < r BY <1>3, <1>4, <1>6, <2>3, <2>5, <2>6, SumOrder
  <2> QED BY <1>2, <2>3, <2>4, <2>7
<1> HIDE DEF b, e, x
<1> QED BY <1>7, <1>8, <1>9, <1>10, <1>11 DEF b, e, x

\* The row and column of a group's first item.
Top(l, g)  == row(l, g, 0)
Side(l, g) == col(l, g, 0)

\* What the phases store, by the annotation.
LEMMA WrittenPhases ==
  ASSUME NEW c, NEW l, Multiplies(c, l), NEW g \in GroupOf(l), NEW n, InTiles(l, g, n)
  PROVE  /\ \A x : Written(c, 1, g, 0, x) = << >>
         /\ \A q \in 0 .. Segments(l) - 1, s \in 0 .. n - 1 :
              /\ \A x : Written(c, 1, g, SumPhase(n, q, s), x) =
                   ProductTo(c, x[2] \div l.width, x[2] % l.width, UpTo(l, q + 1))
              /\ \A a : Within1(l, q, a) =>
                   /\ \A r \in 0 .. l.R - 1 :
                        Written(c, 1, g, LoadPhase(n, q, s), Ml(l, r, a)) =
                          <<LeftLabel(c, Top(l, g) + r + s * l.R, q * l.D + a)>>
                   /\ \A k \in 0 .. l.C - 1 :
                        Written(c, 1, g, LoadPhase(n, q, s), Nl(l, a, k)) =
                          <<RightLabel(c, q * l.D + a, Side(l, g) + k)>>
<1>1. /\ c.skeleton = "allpairs" /\ Only(c, l) /\ l.width = c.width /\ Covering(l)
      /\ l.kernel = "SCL_ALLPAIRS" /\ n \in Nat
  BY DEF Multiplies, InTiles, Covering, Positive
<1>2. Launches(c)[1] = l /\ ~ OnePhase(l) BY <1>1, OnlyFacts DEF OnePhase
<1>3. \A p, x : Written(c, 1, g, p, x) = AllPairs_Written(c, l, g, p, x)
  BY <1>1, <1>2 DEF Written
<1>4. 0 \in ItemOf(l)
  <2>1. l.items \in Positive BY <1>1, Product DEF Covering
  <2> QED BY <2>1 DEF ItemOf, Positive
<1>5. Tiles(l, g, 0) = n BY <1>4 DEF InTiles
<1>6. \A x : Written(c, 1, g, 0, x) = << >> BY <1>3 DEF AllPairs_Written
<1>7. ASSUME NEW q \in 0 .. Segments(l) - 1, NEW s \in 0 .. n - 1
      PROVE  /\ \A x : Written(c, 1, g, SumPhase(n, q, s), x) =
                   ProductTo(c, x[2] \div l.width, x[2] % l.width, UpTo(l, q + 1))
             /\ \A a : Within1(l, q, a) =>
                   /\ \A r \in 0 .. l.R - 1 :
                        Written(c, 1, g, LoadPhase(n, q, s), Ml(l, r, a)) =
                          <<LeftLabel(c, Top(l, g) + r + s * l.R, q * l.D + a)>>
                   /\ \A k \in 0 .. l.C - 1 :
                        Written(c, 1, g, LoadPhase(n, q, s), Nl(l, a, k)) =
                          <<RightLabel(c, q * l.D + a, Side(l, g) + k)>>
  <2>1. n \in Positive /\ q \in Nat
    <3>1. Segments(l) \in Nat BY <1>1, SegmentCount DEF Positive
    <3> QED BY <1>1, <3>1 DEF Positive
  <2> DEFINE p == LoadPhase(n, q, s)
             o == SumPhase(n, q, s)
  <2>2. /\ p \in Nat /\ p # 0 /\ p % 2 = 1 /\ ((p - 1) \div 2) \div n = q
        /\ ((p - 1) \div 2) % n = s
        /\ o \in Nat /\ o # 0 /\ o % 2 # 1 /\ ((o - 1) \div 2) \div n = q
        /\ ((o - 1) \div 2) % n = s
    BY <2>1, PhaseParts
  <2> HIDE DEF p, o
  <2>3. ASSUME NEW x
        PROVE  /\ Written(c, 1, g, o, x) =
                    ProductTo(c, x[2] \div l.width, x[2] % l.width, UpTo(l, q + 1))
               /\ x[2] - l.R * l.D < 0 => Written(c, 1, g, p, x) =
                    <<LeftLabel(c, Top(l, g) + x[2] \div l.D + s * l.R, q * l.D + (x[2] % l.D))>>
               /\ ~ (x[2] - l.R * l.D < 0) => Written(c, 1, g, p, x) =
                    <<RightLabel(c, q * l.D + (x[2] - l.R * l.D) \div l.C,
                                    Side(l, g) + ((x[2] - l.R * l.D) % l.C))>>
    <3>1. Written(c, 1, g, o, x) =
                    ProductTo(c, x[2] \div l.width, x[2] % l.width, UpTo(l, q + 1))
      BY <1>1, <1>3, <1>5, <2>2 DEF AllPairs_Written
    <3>2. x[2] - l.R * l.D < 0 => Written(c, 1, g, p, x) =
                    <<LeftLabel(c, Top(l, g) + x[2] \div l.D + s * l.R, q * l.D + (x[2] % l.D))>>
      BY <1>3, <1>5, <2>2 DEF AllPairs_Written, Top, Side
    <3>3. ~ (x[2] - l.R * l.D < 0) => Written(c, 1, g, p, x) =
                    <<RightLabel(c, q * l.D + (x[2] - l.R * l.D) \div l.C,
                                    Side(l, g) + ((x[2] - l.R * l.D) % l.C))>>
      BY <1>3, <1>5, <2>2 DEF AllPairs_Written, Top, Side
    <3> QED BY <3>1, <3>2, <3>3
  <2> DEFINE RD == l.R * l.D
  <2>4. RD \in Nat BY <1>1, Times DEF Covering, Positive
  <2>5. ASSUME NEW a, Within1(l, q, a), NEW r \in 0 .. l.R - 1
        PROVE  Written(c, 1, g, p, Ml(l, r, a)) =
                 <<LeftLabel(c, Top(l, g) + r + s * l.R, q * l.D + a)>>
    <3> DEFINE x == Ml(l, r, a)
    <3>1. x[2] \in 0 .. RD - 1 /\ x[2] \div l.D = r /\ x[2] % l.D = a
      BY <1>1, <2>5, PieceCells
    <3> HIDE DEF x
    <3>2. x[2] - RD < 0
      <4> HIDE DEF RD
      <4> QED BY <2>4, <3>1
    <3>3. Written(c, 1, g, p, x) =
            <<LeftLabel(c, Top(l, g) + x[2] \div l.D + s * l.R, q * l.D + (x[2] % l.D))>>
      BY <2>3, <3>2
    <3> DEFINE u == x[2] \div l.D
               v == x[2] % l.D
    <3>4. u = r /\ v = a BY <3>1
    <3> HIDE DEF u, v
    <3>5. Written(c, 1, g, p, x) = <<LeftLabel(c, Top(l, g) + u + s * l.R, q * l.D + v)>>
      BY <3>3 DEF u, v
    <3>6. Written(c, 1, g, p, x) = <<LeftLabel(c, Top(l, g) + r + s * l.R, q * l.D + a)>>
      BY <3>4, <3>5
    <3> QED BY <3>6 DEF x
  <2>6. ASSUME NEW a, Within1(l, q, a), NEW k \in 0 .. l.C - 1
        PROVE  Written(c, 1, g, p, Nl(l, a, k)) =
                 <<RightLabel(c, q * l.D + a, Side(l, g) + k)>>
    <3> DEFINE x == Nl(l, a, k)
    <3>1. x[2] \in RD .. l.local - 1 /\ (x[2] - RD) \div l.C = a /\ (x[2] - RD) % l.C = k
      BY <1>1, <2>6, PieceCells
    <3>a. l.local \in Nat
      <4>1. l.D * l.C \in Nat BY <1>1, Times DEF Covering, Positive
      <4>2. l.local = RD + l.D * l.C BY <1>1 DEF Covering
      <4> HIDE DEF RD
      <4>3. \A y, z \in Nat : y + z \in Nat OBVIOUS
      <4> QED BY <2>4, <4>1, <4>2, <4>3
    <3> HIDE DEF x
    <3>2. ~ (x[2] - RD < 0)
      <4> HIDE DEF RD
      <4> QED BY <2>4, <3>a, <3>1
    <3>3. Written(c, 1, g, p, x) =
            <<RightLabel(c, q * l.D + (x[2] - RD) \div l.C, Side(l, g) + ((x[2] - RD) % l.C))>>
      BY <2>3, <3>2
    <3> DEFINE u == (x[2] - RD) \div l.C
               v == (x[2] - RD) % l.C
    <3>4. u = a /\ v = k BY <3>1
    <3> HIDE DEF u, v
    <3>5. Written(c, 1, g, p, x) = <<RightLabel(c, q * l.D + u, Side(l, g) + v)>>
      BY <3>3 DEF u, v
    <3>6. Written(c, 1, g, p, x) = <<RightLabel(c, q * l.D + a, Side(l, g) + k)>>
      BY <3>4, <3>5
    <3> QED BY <3>6 DEF x
  <2> QED BY <2>3, <2>5, <2>6 DEF p, o
<1> QED BY <1>6, <1>7

\* An item in its group.
LEMMA InGroupOf ==
  ASSUME NEW l, Covering(l), NEW g \in GroupOf(l), NEW i \in ItemOf(l), NEW o \in {0}
  PROVE  /\ row(l, g, i) = row(l, g, o) + l_row(l, i) /\ row(l, g, o) \in Nat
         /\ col(l, g, i) = col(l, g, o) + l_col(l, i) /\ col(l, g, o) \in Nat
         /\ l_row(l, i) \in 0 .. l.R - 1 /\ l_col(l, i) \in 0 .. l.C - 1
         /\ l_row(l, i) \in Nat /\ l_col(l, i) \in Nat
<1>1. l.items \in Positive /\ l.C \in Positive /\ l.C \in Nat /\ l.R \in Nat
  BY Product DEF Covering, Positive
<1>2. o \in ItemOf(l) BY <1>1 DEF ItemOf, Positive
<1>3. l_row(l, o) = 0 /\ l_col(l, o) = 0 BY <1>1 DEF l_row, l_col, Positive
<1> DEFINE base == (g \div l.across) * (l.R * l.S)
           side == (g % l.across) * l.C
<1>4. /\ row(l, g, i) = base + l_row(l, i) /\ row(l, g, i) \in Nat
      /\ l_row(l, i) \in 0 .. l.R - 1 /\ l_col(l, i) \in 0 .. l.C - 1
  BY Coordinates
<1>5. row(l, g, o) = base + l_row(l, o) /\ row(l, g, o) \in Nat /\ col(l, g, o) \in Nat
  BY <1>2, Coordinates
<1>6. col(l, g, i) = side + l_col(l, i) /\ col(l, g, o) = side + l_col(l, o) BY DEF col
<1>7. base \in Nat /\ side \in Nat
  <2>1. l.R * l.S \in Nat BY Times DEF Covering, Positive
  <2>2. g \div l.across \in Nat /\ g % l.across \in 0 .. l.across - 1 BY Coordinates
  <2>3. g % l.across \in Nat BY <2>2 DEF Covering, Positive
  <2> QED BY <1>1, <2>1, <2>2, <2>3, Times
<1> HIDE DEF base, side
<1>8. row(l, g, o) = base /\ col(l, g, o) = side BY <1>3, <1>5, <1>6, <1>7
<1>9. l_row(l, i) \in Nat /\ l_col(l, i) \in Nat BY <1>1, <1>4
<1> QED BY <1>4, <1>5, <1>6, <1>8, <1>9

LEMMA PlaceInGroup ==
  ASSUME NEW l, Covering(l), NEW g \in GroupOf(l), NEW i \in ItemOf(l)
  PROVE  /\ row(l, g, i) = Top(l, g) + l_row(l, i) /\ Top(l, g) \in Nat
         /\ col(l, g, i) = Side(l, g) + l_col(l, i) /\ Side(l, g) \in Nat
         /\ l_row(l, i) \in 0 .. l.R - 1 /\ l_col(l, i) \in 0 .. l.C - 1
         /\ l_row(l, i) \in Nat /\ l_col(l, i) \in Nat
<1>1. PICK o \in {0} : o = 0 OBVIOUS
<1>2. /\ row(l, g, i) = row(l, g, o) + l_row(l, i) /\ row(l, g, o) \in Nat
      /\ col(l, g, i) = col(l, g, o) + l_col(l, i) /\ col(l, g, o) \in Nat
      /\ l_row(l, i) \in 0 .. l.R - 1 /\ l_col(l, i) \in 0 .. l.C - 1
      /\ l_row(l, i) \in Nat /\ l_col(l, i) \in Nat
  BY <1>1, InGroupOf
<1>3. row(l, g, o) = Top(l, g) /\ col(l, g, o) = Side(l, g) BY <1>1 DEF Top, Side
<1> QED BY <1>2, <1>3

LEMMA ProductOfNone ==
  ASSUME NEW c, NEW r, NEW k, NEW m \in {0}
  PROVE  ProductTo(c, r, k, m) = << >>
<1>1. m = 0 /\ 2 * m = 0 OBVIOUS
<1>2. 1 .. 2 * m = {} BY <1>1
<1>3. ProductTo(c, r, k, m) = [n \in 1 .. 2 * m |-> ProductAt(c, r, k, n)] BY DEF ProductTo
<1> QED BY <1>2, <1>3

\* What a cell of the output has before the sum over segment q, or in the end.
LEMMA WrittenBefore ==
  ASSUME NEW c, NEW l, Multiplies(c, l), NEW g \in GroupOf(l), NEW n, InTiles(l, g, n),
         NEW i \in ItemOf(l), NEW m, OutIn(l, g, i, m), NEW q \in 0 .. Segments(l)
  PROVE  Written(c, 1, g, Before(n, q, m), OutCell(l, g, i, m)) =
           ProductTo(c, row(l, g, i) + m * l.R, col(l, g, i), UpTo(l, q))
<1> DEFINE x == OutCell(l, g, i, m)
           r == row(l, g, i) + m * l.R
           k == col(l, g, i)
           K == Segments(l)
<1>1. Covering(l) BY DEF Multiplies
<1>2. K \in Nat /\ q \in Nat BY <1>1, SegmentCount DEF Positive
<1>3. m \in 0 .. n - 1 BY TileSeen
<1>4. x[2] \div l.width = r /\ x[2] % l.width = k BY <1>1, OutCells
<1>5. CASE q = 0
  <2>1. Written(c, 1, g, 0, x) = << >> BY WrittenPhases
  <2>2. Before(n, q, m) = 0 BY <1>5 DEF Before
  <2>3. UpTo(l, 0) = 0 BY <1>1, SegmentEnds
  <2>4. UpTo(l, q) \in {0} BY <1>5, <2>3
  <2>5. ProductTo(c, r, k, UpTo(l, q)) = << >> BY <2>4, ProductOfNone
  <2> QED BY <2>1, <2>2, <2>5
<1>6. CASE q # 0
  <2> DEFINE s == q - 1
             u == x[2] \div l.width
             v == x[2] % l.width
  <2>1. s \in 0 .. K - 1 /\ s + 1 = q BY <1>2, <1>6
  <2>2. Before(n, q, m) = SumPhase(n, s, m) BY <1>6 DEF Before
  <2>3. u = r /\ v = k BY <1>4
  <2> HIDE DEF s, x, r, k
  <2>4. Written(c, 1, g, SumPhase(n, s, m), x) = ProductTo(c, u, v, UpTo(l, s + 1))
    BY <1>3, <2>1, WrittenPhases
  <2> HIDE DEF u, v
  <2>5. Written(c, 1, g, Before(n, q, m), x) = ProductTo(c, r, k, UpTo(l, q))
    BY <2>1, <2>2, <2>3, <2>4
  <2> QED BY <2>5 DEF x, r, k
<1> QED BY <1>5, <1>6

\* The cells are those of the buffers and the local memory.
LEMMA PairsWithin ==
  ASSUME NEW c, NEW l, Multiplies(c, l)
  PROVE  /\ \A x : x[1] = Out /\ x[2] \in 0 .. l.height * l.width - 1 => Within(c, l, x)
         /\ \A x : x[1] = Shared /\ x[2] \in 0 .. l.local - 1 => Within(c, l, x)
<1>1. l.height = c.height /\ l.width = c.width /\ Out # Shared BY DEF Multiplies, Out, Shared
<1>2. DOMAIN Buffers(c)[Out] = 0 .. l.height * l.width - 1 BY <1>1 DEF Multiplies
<1> QED BY <1>1, <1>2 DEF Within

LEMMA FoundBefore ==
  ASSUME NEW c, NEW l, Multiplies(c, l), NEW g \in GroupOf(l), NEW n, InTiles(l, g, n),
         NEW i \in ItemOf(l), NEW m, OutIn(l, g, i, m), NEW q \in 0 .. Segments(l) - 1
  PROVE  Found(c, 1, g, SumPhase(n, q, m), OutCell(l, g, i, m)) =
           ProductTo(c, row(l, g, i) + m * l.R, col(l, g, i), UpTo(l, q))
<1> DEFINE x == OutCell(l, g, i, m)
           b == Before(n, q, m)
           e == SumPhase(n, q, m)
           one == 1
<1>1. Covering(l) /\ Only(c, l) /\ n \in Nat BY DEF Multiplies, InTiles, Covering, Positive
<1>2. Segments(l) \in Nat /\ q \in Nat /\ q \in 0 .. Segments(l) /\ q # Segments(l)
  BY <1>1, SegmentCount DEF Positive
<1>3. Launches(c)[1] = l BY <1>1, OnlyFacts
<1>4. /\ b \in Nat /\ StoredIn(l, g, b, x) /\ b < e
      /\ \A p \in Nat : b < p /\ p < e => ~ StoredIn(l, g, p, x)
  BY <1>2, OutLasts
<1>5. m \in 0 .. n - 1 BY TileSeen
<1>6. n \in Positive BY <1>1, <1>5 DEF Positive
<1>7. e \in Nat BY <1>2, <1>5, <1>6, PhaseParts
<1>8. Within(c, l, x) BY <1>1, OutCells, PairsWithin
<1>9. Written(c, 1, g, b, x) = ProductTo(c, row(l, g, i) + m * l.R, col(l, g, i), UpTo(l, q))
  BY <1>2, WrittenBefore
<1>10. Launches(c)[one] = l BY <1>3 DEF one
<1> HIDE DEF x, b, e, one
<1>11. b \in 0 .. e - 1 BY <1>4, <1>7
<1>12. \A p \in b + 1 .. e - 1 : ~ StoredIn(l, g, p, x)
  <2>1. \A p \in b + 1 .. e - 1 : p \in Nat /\ b < p /\ p < e BY <1>4, <1>7
  <2> QED BY <1>4, <2>1
<1>13. Within(c, Launches(c)[one], x) /\ StoredIn(Launches(c)[one], g, b, x)
       /\ \A p \in b + 1 .. e - 1 : ~ StoredIn(Launches(c)[one], g, p, x)
  BY <1>4, <1>8, <1>10, <1>12
<1>14. Found(c, one, g, e, x) = Written(c, one, g, b, x)
  BY <1>7, <1>11, <1>13, FoundWritten
<1> QED BY <1>9, <1>14 DEF x, e, one

\* In the end, the product.
LEMMA PairsLeave ==
  ASSUME NEW c, NEW l, Multiplies(c, l),
         \A g \in GroupOf(l) : \E n : InTiles(l, g, n)
  PROVE  Leaves(c, 1)
<1>1. /\ Covering(l) /\ Only(c, l) /\ c.skeleton = "allpairs"
      /\ l.width = c.width /\ l.dimension = c.dimension
  BY DEF Multiplies
<1>2. Launches(c)[1] = l BY <1>1, OnlyFacts
<1> SUFFICES ASSUME NEW g \in GroupOf(l), NEW p \in Nat, NEW x,
                    x[1] # Shared, StoredBy(l, g, x), \A i \in ItemOf(l) : Phases(l, g, i) <= p
             PROVE  Value(c, 1, g, p, x) = Result(c, 1, x)
  BY <1>2 DEF Leaves
<1>3. PICK n : InTiles(l, g, n) OBVIOUS
<1>4. PICK j \in ItemOf(l), z \in Nat : z < Phases(l, g, j) /\ x \in DOMAIN Code(l, g, j, z)
  BY DEF StoredBy
<1>5. StoredIn(l, g, z, x) BY <1>4 DEF StoredIn
<1>6. \E i \in ItemOf(l) : \E m : OutIn(l, g, i, m) /\ x = OutCell(l, g, i, m)
  <2>1. x[1] = Out BY <1>3, <1>5, StoredWhere
  <2>2. CASE z = 0
    <3>1. Code(l, g, j, 0) = Clear(l, g, j) BY <1>3, PhaseCodes
    <3> QED BY <1>4, <2>2, <3>1, ClearCells, MineIn
  <2>3. CASE z # 0 BY <1>3, <1>5, <2>1, <2>3, StoredWhere
  <2> QED BY <2>2, <2>3
<1>7. PICK i \in ItemOf(l) : \E m : OutIn(l, g, i, m) /\ x = OutCell(l, g, i, m) BY <1>6
<1>8. PICK m : OutIn(l, g, i, m) /\ x = OutCell(l, g, i, m) BY <1>7
<1> DEFINE q == Segments(l)
           b == Before(n, q, m)
           one == 1
<1>9. q \in Nat /\ q \in 0 .. q BY <1>1, SegmentCount DEF Positive
<1>10. /\ b \in Nat /\ StoredIn(l, g, b, x) /\ b < Phases(l, g, i)
       /\ \A o \in Nat : b < o => ~ StoredIn(l, g, o, x)
  BY <1>3, <1>8, <1>9, OutLasts
<1>11. Written(c, 1, g, b, x) = ProductTo(c, row(l, g, i) + m * l.R, col(l, g, i), UpTo(l, q))
  BY <1>3, <1>8, <1>9, WrittenBefore
<1>12. UpTo(l, q) = l.dimension BY <1>1, SegmentEnds
<1>13. x[2] \div l.width = row(l, g, i) + m * l.R /\ x[2] % l.width = col(l, g, i)
  BY <1>1, <1>8, OutCells
<1>14. Result(c, 1, x) = ProductTo(c, x[2] \div c.width, x[2] % c.width, c.dimension)
  BY <1>1 DEF Result, AllPairs_Result
<1>15. Written(c, 1, g, b, x) = Result(c, 1, x)
  <2> DEFINE r == row(l, g, i) + m * l.R
             k == col(l, g, i)
             u == x[2] \div l.width
             v == x[2] % l.width
  <2>1. u = r /\ v = k BY <1>13
  <2>2. Result(c, 1, x) = ProductTo(c, u, v, l.dimension) BY <1>1, <1>14
  <2>3. Written(c, 1, g, b, x) = ProductTo(c, r, k, l.dimension) BY <1>11, <1>12
  <2> HIDE DEF u, v, r, k, b
  <2> QED BY <2>1, <2>2, <2>3
<1>16. b < p
  <2>1. Phases(l, g, i) <= p OBVIOUS
  <2>2. Phases(l, g, i) \in Nat
    <3> DEFINE K == Segments(l)
    <3>1. Phases(l, g, i) = 1 + 2 * K * n /\ K \in Nat /\ n \in Nat
      BY <1>1, <1>3, <1>9, PhaseCodes DEF InTiles, Covering, Positive
    <3> HIDE DEF K
    <3>2. K * n \in Nat /\ 2 * K * n = 2 * (K * n) BY <3>1, Times
    <3> QED BY <3>1, <3>2
  <2> HIDE DEF b
  <2> QED BY <1>10, <2>1, <2>2
<1>17. Launches(c)[one] = l BY <1>2 DEF one
<1> HIDE DEF b, one
<1>18. b \in 0 .. p - 1 BY <1>10, <1>16
<1>19. \A o \in b + 1 .. p - 1 : ~ StoredIn(l, g, o, x)
  <2>1. \A o \in b + 1 .. p - 1 : o \in Nat /\ b < o BY <1>10
  <2> QED BY <1>10, <2>1
<1>20. Value(c, one, g, p, x) = Written(c, one, g, b, x)
  BY <1>10, <1>17, <1>18, <1>19, ValueWritten
<1> QED BY <1>15, <1>20 DEF one

\* The matrices are as they were.
LEMMA FoundOfInput ==
  ASSUME NEW c, NEW l, Multiplies(c, l), NEW g \in GroupOf(l), NEW n, InTiles(l, g, n),
         NEW p \in Nat, NEW y, y[1] \in {In, Second}
  PROVE  Found(c, 1, g, p, y) = FirstFound(c, 1, y)
<1> DEFINE one == 1
<1>1. Launches(c)[one] = l BY OnlyFacts DEF Multiplies
<1>2. y[1] \notin {Out, Shared} BY DEF In, Second, Out, Shared
<1> HIDE DEF one
<1>3. \A q \in 0 .. p - 1 : ~ StoredIn(l, g, q, y)
  <2>1. \A q \in 0 .. p - 1 : q \in Nat OBVIOUS
  <2> QED BY <1>2, <2>1, StoredWhere
<1>4. y[1] # Shared BY <1>2
<1>5. Found(c, one, g, p, y) = FirstFound(c, one, y) BY <1>1, <1>3, <1>4, FoundUntouched
<1> QED BY <1>5 DEF one

\* The piece of the left matrix for a tile ...
LEMMA FoundLeft ==
  ASSUME NEW c, NEW l, Multiplies(c, l), NEW g \in GroupOf(l), NEW n, InTiles(l, g, n),
         NEW i \in ItemOf(l), NEW q \in 0 .. Segments(l) - 1, NEW s \in 0 .. n - 1,
         NEW a, Within1(l, q, a), row(l, g, i) + s * l.R < l.height
  PROVE  Found(c, 1, g, SumPhase(n, q, s), Ml(l, l_row(l, i), a)) =
           <<LeftLabel(c, row(l, g, i) + s * l.R, Ahead(l, q, a))>>
<1> DEFINE x == Ml(l, l_row(l, i), a)
           b == LoadPhase(n, q, s)
           e == SumPhase(n, q, s)
           one == 1
<1>1. Covering(l) /\ n \in Nat BY DEF InTiles, Covering, Positive
<1>2. Launches(c)[one] = l BY OnlyFacts DEF Multiplies
<1>3. n \in Positive /\ q \in Nat
  <2>1. Segments(l) \in Nat BY <1>1, SegmentCount DEF Positive
  <2> QED BY <1>1, <2>1 DEF Positive
<1>4. b \in Nat /\ e \in Nat /\ e = b + 1 BY <1>3, PhaseParts
<1>5. StoredIn(l, g, b, x) BY LeftStored
<1>6. /\ row(l, g, i) = Top(l, g) + l_row(l, i) /\ l_row(l, i) \in 0 .. l.R - 1
  BY <1>1, PlaceInGroup
<1>7. x[1] = Shared /\ x[2] \in 0 .. l.local - 1
  <2>1. x[1] = Shared /\ x[2] \in 0 .. l.R * l.D - 1 BY <1>1, <1>6, PieceCells
  <2> DEFINE RD == l.R * l.D
             DC == l.D * l.C
  <2>2. RD \in Nat /\ DC \in Nat /\ l.local = RD + DC BY <1>1, Times DEF Covering, Positive
  <2> HIDE DEF RD, DC, x
  <2>3. x[2] \in 0 .. RD - 1 BY <2>1 DEF RD
  <2>4. \A z \in 0 .. RD - 1 : z \in 0 .. RD + DC - 1 BY <2>2
  <2> QED BY <2>1, <2>2, <2>3, <2>4
<1>8. Within(c, l, x) BY <1>7, PairsWithin
<1>9. Written(c, 1, g, b, x) = <<LeftLabel(c, Top(l, g) + l_row(l, i) + s * l.R, q * l.D + a)>>
  BY <1>6, WrittenPhases
<1>10. UpTo(l, q) = q * l.D BY <1>1, SegmentParts
<1>11. Written(c, 1, g, b, x) = <<LeftLabel(c, row(l, g, i) + s * l.R, Ahead(l, q, a))>>
  BY <1>6, <1>9, <1>10 DEF Ahead
<1> HIDE DEF x, b, e, one
<1>12. b \in 0 .. e - 1 /\ b + 1 .. e - 1 = {} BY <1>4
<1>13. Within(c, Launches(c)[one], x) /\ StoredIn(Launches(c)[one], g, b, x)
       /\ \A p \in b + 1 .. e - 1 : ~ StoredIn(Launches(c)[one], g, p, x)
  BY <1>2, <1>5, <1>8, <1>12
<1>14. Found(c, one, g, e, x) = Written(c, one, g, b, x) BY <1>4, <1>12, <1>13, FoundWritten
<1> QED BY <1>11, <1>14 DEF x, e, one

\* ... and that of the right one for a segment.
LEMMA FoundRight ==
  ASSUME NEW c, NEW l, Multiplies(c, l), NEW g \in GroupOf(l), NEW n, InTiles(l, g, n),
         NEW i \in ItemOf(l), NEW q \in 0 .. Segments(l) - 1, NEW s \in 0 .. n - 1,
         NEW a, Within1(l, q, a), col(l, g, i) < l.width
  PROVE  Found(c, 1, g, SumPhase(n, q, s), Nl(l, a, l_col(l, i))) =
           <<RightLabel(c, Ahead(l, q, a), col(l, g, i))>>
<1> DEFINE x == Nl(l, a, l_col(l, i))
           o == 0
           b == LoadPhase(n, q, o)
           e == SumPhase(n, q, s)
           one == 1
<1>1. Covering(l) /\ n \in Nat BY DEF InTiles, Covering, Positive
<1>2. Launches(c)[one] = l BY OnlyFacts DEF Multiplies
<1>3. n \in Positive /\ q \in Nat /\ o \in 0 .. n - 1 /\ n # 0
  <2>1. Segments(l) \in Nat BY <1>1, SegmentCount DEF Positive
  <2> QED BY <1>1, <2>1 DEF Positive
<1>5. StoredIn(l, g, b, x) BY <1>3, RightStored
<1>6. /\ col(l, g, i) = Side(l, g) + l_col(l, i) /\ l_col(l, i) \in 0 .. l.C - 1
  BY <1>1, PlaceInGroup
<1>a. \A p \in b + 1 .. e - 1 : ~ StoredIn(l, g, p, x) BY <1>6, RightLasts
<1> HIDE DEF o
<1>4. b \in Nat /\ e \in Nat /\ b < e
  <2>1. b \in Nat /\ e \in Nat BY <1>3, PhaseParts
  <2> DEFINE qn == q * n
  <2>2. b = 1 + 2 * (qn + 0) /\ e = 2 + 2 * (qn + s) BY DEF LoadPhase, SumPhase, o
  <2>3. qn \in Nat BY <1>1, <1>3, Times
  <2> HIDE DEF qn, b, e
  <2> QED BY <1>1, <2>1, <2>2, <2>3
<1>7. x[1] = Shared /\ x[2] \in 0 .. l.local - 1
  <2>1. x[1] = Shared /\ x[2] \in l.R * l.D .. l.local - 1 BY <1>1, <1>6, PieceCells
  <2> DEFINE RD == l.R * l.D
             DC == l.D * l.C
  <2>2. RD \in Nat /\ DC \in Nat /\ l.local = RD + DC BY <1>1, Times DEF Covering, Positive
  <2> HIDE DEF RD, DC, x
  <2>3. x[2] \in RD .. (RD + DC) - 1 BY <2>1, <2>2 DEF RD
  <2>4. \A z \in RD .. (RD + DC) - 1 : z \in 0 .. (RD + DC) - 1 BY <2>2
  <2> QED BY <2>1, <2>2, <2>3, <2>4
<1>8. Within(c, l, x) BY <1>7, PairsWithin
<1>9. Written(c, 1, g, b, x) = <<RightLabel(c, q * l.D + a, Side(l, g) + l_col(l, i))>>
  BY <1>3, <1>6, WrittenPhases
<1>10. UpTo(l, q) = q * l.D BY <1>1, SegmentParts
<1>11. Written(c, 1, g, b, x) = <<RightLabel(c, Ahead(l, q, a), col(l, g, i))>>
  BY <1>6, <1>9, <1>10 DEF Ahead
<1> HIDE DEF x, b, e, one
<1>12. b \in 0 .. e - 1 BY <1>4
<1>13. Within(c, Launches(c)[one], x) /\ StoredIn(Launches(c)[one], g, b, x)
       /\ \A p \in b + 1 .. e - 1 : ~ StoredIn(Launches(c)[one], g, p, x)
  BY <1>2, <1>5, <1>8, <1>a
<1>14. Found(c, one, g, e, x) = Written(c, one, g, b, x) BY <1>4, <1>12, <1>13, FoundWritten
<1> QED BY <1>11, <1>14 DEF x, e, one

\* The list that a sum is of: the cell itself, and the pieces in turn.
SumOf(l, g, i, q, s) ==
  <<OutCell(l, g, i, s)>> \o
    Zipped(Cardinality(Segment(l, q)),
      LAMBDA k : Ml(l, l_row(l, i), k), LAMBDA k : Nl(l, k, l_col(l, i)))

IsSumOf(l, g, i, q, s, m, v) ==
  /\ DOMAIN v = 1 .. 2 * m + 1
  /\ v[1] = OutCell(l, g, i, s)
  /\ \A j \in 1 .. 2 * m :
       v[j + 1] = IF j % 2 = 1 THEN Ml(l, l_row(l, i), j \div 2)
                  ELSE Nl(l, j \div 2 - 1, l_col(l, i))

LEMMA SumIs ==
  ASSUME NEW l, NEW g, NEW i, NEW q, NEW s,
         NEW m \in Nat, m = Cardinality(Segment(l, q))
  PROVE  IsSumOf(l, g, i, q, s, m, SumOf(l, g, i, q, s))
<1> DEFINE cell == OutCell(l, g, i, s)
           at(j) == IF j % 2 = 1 THEN Ml(l, l_row(l, i), j \div 2)
                    ELSE Nl(l, j \div 2 - 1, l_col(l, i))
           z == [j \in 1 .. 2 * m |-> at(j)]
           v == <<cell>> \o z
           n == 2 * m
<1>1. SumOf(l, g, i, q, s) = v BY DEF SumOf, Zipped
<1> HIDE DEF at, cell
<1>2. n \in Nat /\ z = [j \in 1 .. n |-> at(j)] OBVIOUS
<1> HIDE DEF n, v, z
<1> DEFINE S == {cell} \cup {at(j) : j \in 1 .. n}
<1>3. z \in Seq(S) /\ Len(z) = n /\ \A j \in 1 .. n : z[j] = at(j)
  <2>1. z \in [1 .. n -> S] BY <1>2
  <2> HIDE DEF S
  <2> QED BY <1>2, <2>1
<1> DEFINE one == <<cell>>
<1>4. one \in Seq(S) /\ Len(one) = 1 /\ one[1] = cell OBVIOUS
<1> HIDE DEF S, one
<1>5. /\ one \o z \in Seq(S) /\ Len(one \o z) = Len(one) + Len(z)
      /\ \A j \in 1 .. Len(one) + Len(z) :
           (one \o z)[j] = IF j <= Len(one) THEN one[j] ELSE z[j - Len(one)]
  BY <1>3, <1>4, ConcatProperties
<1> DEFINE w == one \o z
<1> HIDE DEF w
<1>6. /\ w \in Seq(S) /\ Len(w) = n + 1 /\ \A j \in 1 .. n + 1 : w[j] = IF j <= 1 THEN one[j] ELSE z[j - 1]
  BY <1>2, <1>3, <1>4, <1>5 DEF w
<1>7. DOMAIN w = 1 .. n + 1 /\ w[1] = cell BY <1>2, <1>4, <1>6
<1>8. \A j \in 1 .. n : w[j + 1] = at(j)
  <2> TAKE j \in 1 .. n
  <2>1. j + 1 \in 1 .. n + 1 /\ ~ (j + 1 <= 1) /\ (j + 1) - 1 = j BY <1>2
  <2> QED BY <1>3, <1>6, <2>1
<1>9. w = v BY DEF w, one, v
<1> QED BY <1>1, <1>7, <1>8, <1>9 DEF IsSumOf, n, at, cell

\* What is found, in the order of the list.
LEMMA SumFinds ==
  ASSUME NEW c, NEW l, Multiplies(c, l), NEW g \in GroupOf(l), NEW n, InTiles(l, g, n),
         NEW i \in ItemOf(l), NEW q \in 0 .. Segments(l) - 1, NEW s, OutIn(l, g, i, s),
         NEW m \in Nat, m = Cardinality(Segment(l, q)),
         NEW j \in 1 .. 2 * m
  PROVE  Found(c, 1, g, SumPhase(n, q, s),
               IF j % 2 = 1 THEN Ml(l, l_row(l, i), j \div 2)
               ELSE Nl(l, j \div 2 - 1, l_col(l, i)))
         = <<ProductAt(c, row(l, g, i) + s * l.R, col(l, g, i), 2 * UpTo(l, q) + j)>>
<1> DEFINE r == row(l, g, i) + s * l.R
           k == col(l, g, i)
           U == UpTo(l, q)
           p == SumPhase(n, q, s)
<1>1. Covering(l) BY DEF Multiplies
<1>2. s \in 0 .. n - 1 /\ r < l.height /\ k < l.width BY TileSeen DEF OutIn
<1>3. U \in Nat /\ UpTo(l, q + 1) \in Nat /\ m = UpTo(l, q + 1) - U
  BY <1>1, SegmentParts
<1>4. ASSUME NEW a \in 0 .. m - 1
      PROVE  /\ Found(c, 1, g, p, Ml(l, l_row(l, i), a)) = <<LeftLabel(c, r, U + a)>>
             /\ Found(c, 1, g, p, Nl(l, a, l_col(l, i))) = <<RightLabel(c, U + a, k)>>
  <2>1. Within1(l, q, a) BY <1>3 DEF Within1
  <2>2. Ahead(l, q, a) = U + a BY DEF Ahead
  <2>3. Found(c, 1, g, p, Ml(l, l_row(l, i), a)) = <<LeftLabel(c, r, Ahead(l, q, a))>>
    BY <1>2, <2>1, FoundLeft
  <2>4. Found(c, 1, g, p, Nl(l, a, l_col(l, i))) = <<RightLabel(c, Ahead(l, q, a), k)>>
    BY <1>2, <2>1, FoundRight
  <2> QED BY <2>2, <2>3, <2>4
<1> HIDE DEF r, k, U, p
<1>5. CASE j % 2 = 1
  <2> DEFINE h == j \div 2
  <2>1. h \in 0 .. m - 1 BY <1>5, OddEven
  <2>2. (2 * U + j) % 2 = 1 /\ (2 * U + j) \div 2 = U + h BY <1>3, <1>5
  <2>3. ProductAt(c, r, k, 2 * U + j) = LeftLabel(c, r, U + h) BY <2>2 DEF ProductAt
  <2> HIDE DEF h
  <2>4. Found(c, 1, g, p, Ml(l, l_row(l, i), h)) = <<LeftLabel(c, r, U + h)>> BY <1>4, <2>1
  <2>5. Found(c, 1, g, p, Ml(l, l_row(l, i), h)) = <<ProductAt(c, r, k, 2 * U + j)>>
    BY <2>3, <2>4
  <2> QED BY <1>5, <2>5 DEF h, r, k, U, p
<1>6. CASE j % 2 # 1
  <2> DEFINE h == j \div 2 - 1
  <2>1. h \in 0 .. m - 1
    <3>1. j \div 2 \in 1 .. m BY <1>6, OddEven
    <3> DEFINE y == j \div 2
    <3> HIDE DEF y
    <3>2. y \in 1 .. m BY <3>1 DEF y
    <3>3. y - 1 \in 0 .. m - 1 BY <3>2
    <3> QED BY <3>3 DEF y
  <2>2. (2 * U + j) % 2 # 1 /\ (2 * U + j) \div 2 - 1 = U + h BY <1>3, <1>6
  <2>3. ProductAt(c, r, k, 2 * U + j) = RightLabel(c, U + h, k) BY <2>2 DEF ProductAt
  <2> HIDE DEF h
  <2>4. Found(c, 1, g, p, Nl(l, h, l_col(l, i))) = <<RightLabel(c, U + h, k)>> BY <1>4, <2>1
  <2>5. Found(c, 1, g, p, Nl(l, h, l_col(l, i))) = <<ProductAt(c, r, k, 2 * U + j)>>
    BY <2>3, <2>4
  <2> QED BY <1>6, <2>5 DEF h, r, k, U, p
<1> QED BY <1>5, <1>6

LEMMA SumAdds ==
  ASSUME NEW c, NEW l, Multiplies(c, l), NEW g \in GroupOf(l), NEW n, InTiles(l, g, n),
         NEW i \in ItemOf(l), NEW q \in 0 .. Segments(l) - 1, NEW s, OutIn(l, g, i, s),
         NEW v, v = SumOf(l, g, i, q, s)
  PROVE  FlattenSeq([j \in DOMAIN v |-> Found(c, 1, g, SumPhase(n, q, s), v[j])]) =
           ProductTo(c, row(l, g, i) + s * l.R, col(l, g, i), UpTo(l, q + 1))
<1> DEFINE r == row(l, g, i) + s * l.R
           k == col(l, g, i)
           U == UpTo(l, q)
           m == Cardinality(Segment(l, q))
           p == SumPhase(n, q, s)
           h == [j \in DOMAIN v |-> Found(c, 1, g, p, v[j])]
           f == [j \in 1 .. 2 * m |-> ProductAt(c, r, k, 2 * U + j)]
           t == ProductTo(c, r, k, U)
<1>1. Covering(l) /\ c.dimension \in Nat /\ c.width \in Nat
  BY DEF Multiplies, Covering, Positive
<1>2. U \in Nat /\ UpTo(l, q + 1) \in Nat /\ UpTo(l, q + 1) = U + m /\ m \in Nat
  <2>1. /\ U \in Nat /\ UpTo(l, q + 1) \in Nat /\ UpTo(l, q + 1) - U \in 0 .. l.D
        /\ m = UpTo(l, q + 1) - U
    BY <1>1, SegmentParts
  <2>2. l.D \in Nat BY <1>1 DEF Covering, Positive
  <2> DEFINE e == UpTo(l, q + 1)
  <2> HIDE DEF U, m, e
  <2>3. U \in Nat /\ e \in Nat /\ e = U + m /\ m \in Nat BY <2>1, <2>2 DEF e
  <2> QED BY <2>3 DEF e
<1>3. r \in Nat /\ k \in Nat
  <2>1. row(l, g, i) \in Nat /\ k \in Nat BY <1>1, Coordinates
  <2>2. s \in Nat /\ l.R \in Nat BY <1>1 DEF OutIn, Covering, Positive
  <2>3. s * l.R \in Nat BY <2>2, Times
  <2> DEFINE y == s * l.R
  <2> HIDE DEF y
  <2>4. row(l, g, i) + y \in Nat BY <2>1, <2>3 DEF y
  <2> QED BY <2>1, <2>4 DEF y
<1>4. IsSumOf(l, g, i, q, s, m, v) BY <1>2, SumIs
<1>5. ASSUME NEW j \in 1 .. 2 * m
      PROVE  Found(c, 1, g, p, v[j + 1]) = <<f[j]>>
  <2>1. v[j + 1] = IF j % 2 = 1 THEN Ml(l, l_row(l, i), j \div 2)
                   ELSE Nl(l, j \div 2 - 1, l_col(l, i))
    BY <1>4 DEF IsSumOf
  <2> DEFINE y == IF j % 2 = 1 THEN Ml(l, l_row(l, i), j \div 2)
                  ELSE Nl(l, j \div 2 - 1, l_col(l, i))
  <2>2. Found(c, 1, g, p, y) = <<ProductAt(c, r, k, 2 * U + j)>> BY <1>2, SumFinds
  <2>3. f[j] = ProductAt(c, r, k, 2 * U + j) OBVIOUS
  <2>4. v[j + 1] = y BY <2>1
  <2> HIDE DEF y, f, p
  <2> QED BY <2>2, <2>3, <2>4
<1>6. Found(c, 1, g, p, v[1]) = t
  <2>1. v[1] = OutCell(l, g, i, s) BY <1>4 DEF IsSumOf
  <2> QED BY <2>1, FoundBefore
<1>7. DOMAIN v = 1 .. 2 * m + 1 BY <1>4 DEF IsSumOf
<1>8. GoesOn(c, r, k, U, m, f) BY DEF GoesOn
<1> HIDE DEF r, k, U, m, p, f
<1>9. /\ t \in Seq(Int) /\ Among(Int, f, 2 * m)
      /\ t \o Firsts(f, 2 * m) = ProductTo(c, r, k, U + m)
  <2>1. c.dimension \in Nat /\ c.width \in Nat /\ r \in Nat /\ k \in Nat /\ U \in Nat /\ m \in Nat
    BY <1>1, <1>2, <1>3
  <2> QED BY <1>8, <2>1, ProductGrows, SMTT(30)
<1> HIDE DEF t
<1>10. h = SinglesOnto(t, f, 2 * m)
  <2> DEFINE m2 == 2 * m
  <2>1. m2 \in Nat BY <1>2
  <2>2. DOMAIN v = 1 .. m2 + 1 BY <1>7
  <2>3. \A j \in 1 .. m2 : Found(c, 1, g, p, v[j + 1]) = <<f[j]>> BY <1>5
  <2> HIDE DEF m2
  <2>4. ASSUME NEW j \in 1 .. m2 + 1
        PROVE  Found(c, 1, g, p, v[j]) = IF j = 1 THEN t ELSE <<f[j - 1]>>
    <3>1. CASE j = 1 BY <1>6, <3>1
    <3>2. CASE j # 1
      <4>1. j - 1 \in 1 .. m2 /\ (j - 1) + 1 = j BY <2>1, <3>2
      <4> QED BY <2>3, <3>2, <4>1
    <3> QED BY <3>1, <3>2
  <2>5. h = [j \in 1 .. m2 + 1 |-> IF j = 1 THEN t ELSE <<f[j - 1]>>] BY <2>2, <2>4
  <2> QED BY <2>5 DEF SinglesOnto, m2
<1> HIDE DEF h
<1>11. FlattenSeq(SinglesOnto(t, f, 2 * m)) = t \o Firsts(f, 2 * m)
  <2>1. 2 * m \in Nat BY <1>2
  <2> QED BY <1>9, <2>1, FlattenOnto
<1>12. FlattenSeq(h) = ProductTo(c, r, k, UpTo(l, q + 1)) BY <1>2, <1>9, <1>10, <1>11
<1> QED BY <1>12 DEF h, r, k, p

-----------------------------------------------------------------------------
\* What the phases write.
IsWritten(c, g, p, x, s) ==
  Written(c, 1, g, p, x) = FlattenSeq([j \in DOMAIN s |-> Found(c, 1, g, p, s[j])])

LEMMA OneWritten ==
  ASSUME NEW c, NEW g, NEW p, NEW x, NEW y, NEW b \in Int,
         Found(c, 1, g, p, y) = <<b>>, Written(c, 1, g, p, x) = <<b>>,
         NEW s, s = <<y>>
  PROVE  IsWritten(c, g, p, x, s)
<1> DEFINE h == [j \in DOMAIN s |-> Found(c, 1, g, p, s[j])]
<1>1. DOMAIN s = 1 .. 1 /\ s[1] = y OBVIOUS
<1>2. DOMAIN h = 1 .. 1 /\ h = [m \in DOMAIN h |-> h[m]] BY <1>1
<1>3. h[1] = <<b>> BY <1>1
<1> HIDE DEF h
<1>4. FlattenSeq(h) = <<b>> BY <1>2, <1>3, FlattenOne
<1> QED BY <1>4 DEF IsWritten, h

LEMMA ClearWrites ==
  ASSUME NEW c, NEW l, Multiplies(c, l), NEW g \in GroupOf(l), NEW n, InTiles(l, g, n),
         NEW i \in ItemOf(l), NEW x \in DOMAIN Code(l, g, i, 0)
  PROVE  IsWritten(c, g, 0, x, Code(l, g, i, 0)[x])
<1>1. Code(l, g, i, 0) = Clear(l, g, i) BY PhaseCodes
<1>2. \A y \in DOMAIN Clear(l, g, i) : Clear(l, g, i)[y] = << >> BY DEF Clear
<1>3. Code(l, g, i, 0)[x] = << >> BY <1>1, <1>2
<1>4. Written(c, 1, g, 0, x) = << >> BY WrittenPhases
<1> DEFINE s == Code(l, g, i, 0)[x]
           h == [j \in DOMAIN s |-> Found(c, 1, g, 0, s[j])]
<1>5. DOMAIN s = {} BY <1>3
<1>6. h = << >> BY <1>5
<1> QED BY <1>4, <1>6, FlattenNone DEF IsWritten

\* A piece of one matrix is no piece of the other.
LEMMA PiecesDiffer ==
  ASSUME NEW l, Covering(l), NEW i \in ItemOf(l), NEW g \in GroupOf(l),
         NEW q \in 0 .. Segments(l) - 1, NEW a, Within1(l, q, a), NEW b, Within1(l, q, b)
  PROVE  Ml(l, l_row(l, i), a) # Nl(l, b, l_col(l, i))
<1> DEFINE x == Ml(l, l_row(l, i), a)
           y == Nl(l, b, l_col(l, i))
           RD == l.R * l.D
<1>1. l_row(l, i) \in 0 .. l.R - 1 /\ l_col(l, i) \in 0 .. l.C - 1 BY Coordinates
<1>2. x[2] \in 0 .. RD - 1 BY <1>1, PieceCells
<1>3. y[2] \in RD .. l.local - 1 BY <1>1, PieceCells
<1>4. RD \in Nat /\ l.local \in Nat
  <2> DEFINE DC == l.D * l.C
  <2>1. RD \in Nat /\ DC \in Nat /\ l.local = RD + DC BY Times DEF Covering, Positive
  <2> HIDE DEF RD, DC
  <2> QED BY <2>1
<1> HIDE DEF x, y, RD
<1>5. x[2] < RD /\ ~ (y[2] < RD) BY <1>2, <1>3, <1>4
<1> QED BY <1>5 DEF x, y

LEMMA LeftSeen ==
  ASSUME NEW l, NEW g, NEW i, NEW q, NEW s, NEW x \in DOMAIN LoadM(l, g, i, q, s)
  PROVE  row(l, g, i) + s * l.R < l.height
<1> DEFINE mine == {k \in Segment(l, q) : k % l.C = l_col(l, i) /\ row(l, g, i) + s * l.R < l.height}
<1>1. DOMAIN LoadM(l, g, i, q, s) = {Ml(l, l_row(l, i), k - q * l.D) : k \in mine} BY DEF LoadM
<1>2. mine # {} BY <1>1
<1> QED BY <1>2

LEMMA LabelsAreNumbers ==
  ASSUME NEW c, NEW l, Multiplies(c, l), NEW r \in Nat, NEW k \in Nat
  PROVE  LeftLabel(c, r, k) \in Int /\ RightLabel(c, r, k) \in Int
<1>1. c.dimension \in Nat /\ c.width \in Nat BY DEF Multiplies, Covering, Positive
<1>2. r * c.dimension \in Nat /\ r * c.width \in Nat BY <1>1, Times
<1> DEFINE a == r * c.dimension
           b == r * c.width
<1>3. LeftLabel(c, r, k) = a + k + 1 /\ RightLabel(c, r, k) = 100 + b + k + 1
  BY DEF LeftLabel, RightLabel
<1> HIDE DEF a, b
<1>4. a \in Nat /\ b \in Nat BY <1>2 DEF a, b
<1> QED BY <1>3, <1>4

LEMMA LeftWrites ==
  ASSUME NEW c, NEW l, Multiplies(c, l), NEW g \in GroupOf(l), NEW n, InTiles(l, g, n),
         NEW i \in ItemOf(l), NEW q \in 0 .. Segments(l) - 1, NEW s \in 0 .. n - 1,
         NEW x \in DOMAIN LoadM(l, g, i, q, s)
  PROVE  /\ IsWritten(c, g, LoadPhase(n, q, s), x, LoadM(l, g, i, q, s)[x])
         /\ x \notin DOMAIN LoadN(l, g, i, q)
<1> DEFINE p == LoadPhase(n, q, s)
           r == row(l, g, i) + s * l.R
<1>1. Covering(l) /\ n \in Nat BY DEF InTiles, Covering, Positive
<1>2. r < l.height BY LeftSeen
<1>3. PICK a : /\ Within1(l, q, a) /\ x = Ml(l, l_row(l, i), a)
               /\ LoadM(l, g, i, q, s)[x] = <<M(l, r, Ahead(l, q, a))>>
  BY <1>1, <1>2, LoadsLeft
<1> DEFINE k == Ahead(l, q, a)
           y == M(l, r, k)
           b == LeftLabel(c, r, k)
<1>4. k \in 0 .. l.dimension - 1 /\ k \in Nat BY <1>1, <1>3, AheadFacts
<1>5. /\ row(l, g, i) = Top(l, g) + l_row(l, i) /\ l_row(l, i) \in 0 .. l.R - 1
      /\ row(l, g, i) \in Nat
  BY <1>1, PlaceInGroup, Coordinates
<1>6. r \in Nat /\ r \in 0 .. l.height - 1
  <2>1. s \in Nat /\ l.R \in Nat /\ l.height \in Nat BY <1>1 DEF Covering, Positive
  <2> DEFINE z == s * l.R
  <2>2. z \in Nat BY <2>1, Times
  <2>3. r = row(l, g, i) + z /\ r < l.height BY <1>2
  <2> HIDE DEF z, r
  <2> QED BY <1>5, <2>1, <2>2, <2>3
<1>7. y[1] \in {In, Second} BY DEF M, Cell
<1>8. p \in Nat
  <2>1. Segments(l) \in Nat BY <1>1, SegmentCount DEF Positive
  <2>2. n \in Positive /\ q \in Nat BY <1>1, <2>1 DEF Positive
  <2> QED BY <2>2, PhaseParts
<1>9. Found(c, 1, g, p, y) = <<b>>
  <2> HIDE DEF p
  <2>1. Found(c, 1, g, p, y) = FirstFound(c, 1, y) BY <1>7, <1>8, FoundOfInput
  <2>2. FirstFound(c, 1, y) = <<b>> BY <1>4, <1>6, PairsLabels
  <2> QED BY <2>1, <2>2
<1>10. Written(c, 1, g, p, x) = <<b>>
  <2>1. Written(c, 1, g, p, x) = <<LeftLabel(c, Top(l, g) + l_row(l, i) + s * l.R, q * l.D + a)>>
    BY <1>3, <1>5, WrittenPhases
  <2>2. UpTo(l, q) = q * l.D BY <1>1, SegmentParts
  <2> QED BY <1>5, <2>1, <2>2 DEF Ahead
<1>11. b \in Int BY <1>4, <1>6, LabelsAreNumbers
<1>12. IsWritten(c, g, p, x, LoadM(l, g, i, q, s)[x])
  <2> HIDE DEF p, y, b
  <2>1. LoadM(l, g, i, q, s)[x] = <<y>> BY <1>3 DEF y
  <2> QED BY <1>9, <1>10, <1>11, <2>1, OneWritten
<1>13. x \notin DOMAIN LoadN(l, g, i, q)
  <2> SUFFICES ASSUME x \in DOMAIN LoadN(l, g, i, q) PROVE FALSE OBVIOUS
  <2>1. PICK d : Within1(l, q, d) /\ x = Nl(l, d, l_col(l, i)) BY <1>1, LoadsRight
  <2> QED BY <1>1, <1>3, <2>1, PiecesDiffer
<1> QED BY <1>12, <1>13

LEMMA RightWrites ==
  ASSUME NEW c, NEW l, Multiplies(c, l), NEW g \in GroupOf(l), NEW n, InTiles(l, g, n),
         NEW i \in ItemOf(l), NEW q \in 0 .. Segments(l) - 1, NEW s \in 0 .. n - 1,
         NEW x \in DOMAIN LoadN(l, g, i, q)
  PROVE  IsWritten(c, g, LoadPhase(n, q, s), x, LoadN(l, g, i, q)[x])
<1> DEFINE p == LoadPhase(n, q, s)
           j == col(l, g, i)
<1>1. Covering(l) /\ n \in Nat BY DEF InTiles, Covering, Positive
<1>3. PICK a : /\ Within1(l, q, a) /\ x = Nl(l, a, l_col(l, i)) /\ j < l.width
               /\ LoadN(l, g, i, q)[x] = <<N(l, Ahead(l, q, a), j)>>
  BY <1>1, LoadsRight
<1> DEFINE k == Ahead(l, q, a)
           y == N(l, k, j)
           b == RightLabel(c, k, j)
<1>4. k \in 0 .. l.dimension - 1 /\ k \in Nat BY <1>1, <1>3, AheadFacts
<1>5. /\ j = Side(l, g) + l_col(l, i) /\ l_col(l, i) \in 0 .. l.C - 1 /\ j \in Nat
  BY <1>1, PlaceInGroup, Coordinates
<1>6. j \in 0 .. l.width - 1
  <2>1. l.width \in Nat BY <1>1 DEF Covering, Positive
  <2> HIDE DEF j
  <2> QED BY <1>3, <1>5, <2>1
<1>7. y[1] \in {In, Second} BY DEF N, Cell
<1>8. p \in Nat
  <2>1. Segments(l) \in Nat BY <1>1, SegmentCount DEF Positive
  <2>2. n \in Positive /\ q \in Nat BY <1>1, <2>1 DEF Positive
  <2> QED BY <2>2, PhaseParts
<1>9. Found(c, 1, g, p, y) = <<b>>
  <2> HIDE DEF p
  <2>1. Found(c, 1, g, p, y) = FirstFound(c, 1, y) BY <1>7, <1>8, FoundOfInput
  <2>2. FirstFound(c, 1, y) = <<b>> BY <1>4, <1>6, PairsLabels
  <2> QED BY <2>1, <2>2
<1>10. Written(c, 1, g, p, x) = <<b>>
  <2>1. Written(c, 1, g, p, x) = <<RightLabel(c, q * l.D + a, Side(l, g) + l_col(l, i))>>
    BY <1>3, <1>5, WrittenPhases
  <2>2. UpTo(l, q) = q * l.D BY <1>1, SegmentParts
  <2> QED BY <1>5, <2>1, <2>2 DEF Ahead
<1>11. b \in Int BY <1>4, <1>5, LabelsAreNumbers
<1> HIDE DEF p, y, b
<1>12. LoadN(l, g, i, q)[x] = <<y>> BY <1>3 DEF y
<1>13. IsWritten(c, g, p, x, LoadN(l, g, i, q)[x]) BY <1>9, <1>10, <1>11, <1>12, OneWritten
<1> QED BY <1>13 DEF p

LEMMA SumWrites ==
  ASSUME NEW c, NEW l, Multiplies(c, l), NEW g \in GroupOf(l), NEW n, InTiles(l, g, n),
         NEW i \in ItemOf(l), NEW q \in 0 .. Segments(l) - 1, NEW s \in 0 .. n - 1,
         NEW x \in DOMAIN Accumulate(l, g, i, q, s)
  PROVE  IsWritten(c, g, SumPhase(n, q, s), x, Accumulate(l, g, i, q, s)[x])
<1> DEFINE r == row(l, g, i) + s * l.R
           f == Accumulate(l, g, i, q, s)
           y == OutCell(l, g, i, s)
           v == SumOf(l, g, i, q, s)
           in == r < l.height /\ col(l, g, i) < l.width
           p == SumPhase(n, q, s)
<1>1. Covering(l) /\ s \in 0 .. l.S - 1
  BY DEF InTiles, Covering, Positive
<1>2. f = IF in THEN At(y, v) ELSE Nothing BY DEF Accumulate, OutCell, SumOf
<1>3. x \in DOMAIN f OBVIOUS
<1>4. in <=> OutIn(l, g, i, s) BY <1>1 DEF OutIn
<1> HIDE DEF f, in, v, y, p
<1>5. in
  <2> SUFFICES ASSUME ~ in PROVE FALSE OBVIOUS
  <2>1. DOMAIN f = {} BY <1>2, CodeOfNone
  <2> QED BY <1>3, <2>1
<1>6. OutIn(l, g, i, s) BY <1>4, <1>5
<1>7. x = y /\ f[x] = v
  <2>1. f = At(y, v) BY <1>2, <1>5
  <2>2. DOMAIN At(y, v) = {y} /\ At(y, v)[y] = v BY CodeOfOne
  <2> QED BY <1>3, <2>1, <2>2
<1>8. FlattenSeq([j \in DOMAIN v |-> Found(c, 1, g, p, v[j])]) =
        ProductTo(c, r, col(l, g, i), UpTo(l, q + 1))
  BY <1>6, SumAdds DEF v, p
<1>9. y[2] \div l.width = r /\ y[2] % l.width = col(l, g, i) BY <1>1, <1>6, OutCells DEF y
<1>10. Written(c, 1, g, p, y) = ProductTo(c, y[2] \div l.width, y[2] % l.width, UpTo(l, q + 1))
  BY WrittenPhases DEF p
<1>11. Written(c, 1, g, p, y) = ProductTo(c, r, col(l, g, i), UpTo(l, q + 1))
  <2> DEFINE a == y[2] \div l.width
             b == y[2] % l.width
  <2>1. a = r /\ b = col(l, g, i) BY <1>9
  <2>2. Written(c, 1, g, p, y) = ProductTo(c, a, b, UpTo(l, q + 1)) BY <1>10
  <2> HIDE DEF a, b, r
  <2> QED BY <2>1, <2>2
<1>12. IsWritten(c, g, p, y, v) BY <1>8, <1>11 DEF IsWritten
<1> QED BY <1>7, <1>12 DEF p, f

LEMMA LoadWrites ==
  ASSUME NEW c, NEW l, Multiplies(c, l), NEW g \in GroupOf(l), NEW n, InTiles(l, g, n),
         NEW i \in ItemOf(l), NEW q \in 0 .. Segments(l) - 1, NEW s \in 0 .. n - 1,
         NEW x \in DOMAIN Code(l, g, i, LoadPhase(n, q, s))
  PROVE  IsWritten(c, g, LoadPhase(n, q, s), x, Code(l, g, i, LoadPhase(n, q, s))[x])
<1> DEFINE p == LoadPhase(n, q, s)
           f == LoadM(l, g, i, q, s)
           h == IF s = 0 THEN LoadN(l, g, i, q) ELSE Nothing
           code == Code(l, g, i, p)
<1>1. code = Merged(f, h) BY PhaseCodes
<1>2. x \in DOMAIN code OBVIOUS
<1>3. s = 0 => h = LoadN(l, g, i, q) OBVIOUS
<1>4. s # 0 => h = Nothing OBVIOUS
<1>5. \A y \in DOMAIN f : IsWritten(c, g, p, y, f[y]) BY LeftWrites
<1>6. \A y \in DOMAIN LoadN(l, g, i, q) : IsWritten(c, g, p, y, LoadN(l, g, i, q)[y])
  BY RightWrites
<1> HIDE DEF f, h, code, p
<1>7. \A y \in DOMAIN h : IsWritten(c, g, p, y, h[y])
  <2>1. CASE s = 0 BY <1>3, <1>6, <2>1
  <2>2. CASE s # 0 BY <1>4, <2>2, CodeOfNone
  <2> QED BY <2>1, <2>2
<1>8. x \in DOMAIN Merged(f, h) BY <1>1, <1>2
<1>a. DOMAIN Merged(f, h) = DOMAIN f \cup DOMAIN h BY CodeOfMerged
<1>b. Merged(f, h)[x] = IF x \in DOMAIN f THEN f[x] ELSE h[x] BY <1>8 DEF Merged
<1>9. x \in DOMAIN f \cup DOMAIN h /\ code[x] = IF x \in DOMAIN f THEN f[x] ELSE h[x]
  BY <1>1, <1>8, <1>a, <1>b
<1>10. IsWritten(c, g, p, x, code[x])
  <2>1. CASE x \in DOMAIN f
    <3>1. code[x] = f[x] BY <1>9, <2>1
    <3>2. IsWritten(c, g, p, x, f[x]) BY <1>5, <2>1
    <3> QED BY <3>1, <3>2
  <2>2. CASE x \notin DOMAIN f
    <3>1. code[x] = h[x] /\ x \in DOMAIN h BY <1>9, <2>2
    <3>2. IsWritten(c, g, p, x, h[x]) BY <1>7, <3>1
    <3> QED BY <3>1, <3>2
  <2> QED BY <2>1, <2>2
<1> QED BY <1>10 DEF p, code

\* Every phase stores what the annotation says.
LEMMA PairsWrite ==
  ASSUME NEW c, NEW l, Multiplies(c, l),
         \A g \in GroupOf(l) : \E n : InTiles(l, g, n)
  PROVE  Writes(c, 1)
<1>1. Covering(l) /\ Only(c, l) BY DEF Multiplies
<1>2. Launches(c)[1] = l BY <1>1, OnlyFacts
<1>3. ASSUME NEW g \in GroupOf(l), NEW i \in ItemOf(l), NEW p \in Nat, p < Phases(l, g, i),
             NEW x \in DOMAIN Code(l, g, i, p)
      PROVE  IsWritten(c, g, p, x, Code(l, g, i, p)[x])
  <2>1. PICK n : InTiles(l, g, n) OBVIOUS
  <2>2. Phases(l, g, i) = 1 + 2 * Segments(l) * n BY <2>1, PhaseCodes
  <2>3. CASE p = 0 BY <2>1, <2>3, ClearWrites
  <2>4. CASE p # 0
    <3> DEFINE k == Segments(l)
    <3>1. k \in Nat /\ n \in Nat BY <1>1, <2>1, SegmentCount DEF InTiles, Covering, Positive
    <3>2. p < 1 + 2 * k * n BY <1>3, <2>2
    <3> HIDE DEF k
    <3>3. \E q \in 0 .. k - 1, s \in 0 .. n - 1 : p = LoadPhase(n, q, s) \/ p = SumPhase(n, q, s)
      BY <2>4, <3>1, <3>2, PhaseIs
    <3>4. PICK q \in 0 .. Segments(l) - 1, s \in 0 .. n - 1 :
            p = LoadPhase(n, q, s) \/ p = SumPhase(n, q, s)
      BY <3>3 DEF k
    <3>5. CASE p = LoadPhase(n, q, s) BY <2>1, <3>5, LoadWrites
    <3>6. CASE p = SumPhase(n, q, s)
      <4>1. Code(l, g, i, p) = Accumulate(l, g, i, q, s) BY <2>1, <3>6, PhaseCodes
      <4>2. x \in DOMAIN Accumulate(l, g, i, q, s) BY <4>1
      <4>3. IsWritten(c, g, p, x, Accumulate(l, g, i, q, s)[x]) BY <2>1, <3>6, <4>2, SumWrites
      <4> QED BY <4>1, <4>3
    <3> QED BY <3>4, <3>5, <3>6
  <2> QED BY <2>3, <2>4
<1>4. ASSUME NEW g \in GroupOf(l), NEW i \in ItemOf(l), NEW p \in Nat, p < Phases(l, g, i),
             NEW x \in DOMAIN Code(l, g, i, p)
      PROVE  Written(c, 1, g, p, x) =
               FlattenSeq([n \in DOMAIN Code(l, g, i, p)[x] |->
                             Found(c, 1, g, p, Code(l, g, i, p)[x][n])])
  BY <1>3, <1>4 DEF IsWritten
<1> QED BY <1>2, <1>4 DEF Writes

\* The cells of AllPairs.
Address(x) == x \in {In, Second, Out, Shared} \X Int

LEMMA CellsAddress ==
  ASSUME NEW l, Covering(l), NEW r \in Nat, NEW k \in Nat
  PROVE  /\ Address(M(l, r, k)) /\ Address(N(l, r, k)) /\ Address(P(l, r, k))
         /\ Address(Ml(l, r, k)) /\ Address(Nl(l, r, k))
<1>1. /\ l.dimension \in Nat /\ l.width \in Nat /\ l.D \in Nat /\ l.C \in Nat /\ l.R \in Nat
  BY DEF Covering, Positive
<1> DEFINE a == r * l.dimension
           b == r * l.width
           d == r * l.D
           e == r * l.C
           f == l.R * l.D
<1>2. a \in Nat /\ b \in Nat /\ d \in Nat /\ e \in Nat /\ f \in Nat BY <1>1, Times
<1>3. /\ M(l, r, k) = Cell(In, a + k) /\ N(l, r, k) = Cell(Second, b + k)
      /\ P(l, r, k) = Cell(Out, b + k)
      /\ Ml(l, r, k) = Cell(Shared, d + k) /\ Nl(l, r, k) = Cell(Shared, f + e + k)
  BY DEF M, N, P, Ml, Nl
<1> HIDE DEF a, b, d, e, f
<1>4. a + k \in Int /\ b + k \in Int /\ d + k \in Int /\ f + e + k \in Int BY <1>2
<1> QED BY <1>3, <1>4 DEF Address, Cell

\* Code at x has the addresses of what it stores and of what it loads.
Addresses(x, s) == Address(x) /\ \A j \in DOMAIN s : Address(s[j])

LEMMA OutAddress ==
  ASSUME NEW l, Covering(l), NEW g \in GroupOf(l), NEW i \in ItemOf(l), NEW m, OutIn(l, g, i, m)
  PROVE  Address(OutCell(l, g, i, m))
<1>1. row(l, g, i) \in Nat /\ col(l, g, i) \in Nat BY Coordinates
<1>2. m \in Nat /\ l.R \in Nat BY DEF OutIn, Covering, Positive
<1> DEFINE y == m * l.R
           r == row(l, g, i) + y
<1>3. y \in Nat BY <1>2, Times
<1> HIDE DEF y
<1>4. r \in Nat BY <1>1, <1>3
<1>5. OutCell(l, g, i, m) = P(l, r, col(l, g, i)) BY DEF OutCell, y
<1> HIDE DEF r
<1> QED BY <1>1, <1>4, <1>5, CellsAddress

LEMMA ClearAddresses ==
  ASSUME NEW l, Covering(l), NEW g \in GroupOf(l), NEW i \in ItemOf(l),
         NEW x \in DOMAIN Clear(l, g, i)
  PROVE  Addresses(x, Clear(l, g, i)[x])
<1>1. x \in Mine(l, g, i) BY ClearCells
<1>2. Address(x) BY <1>1, MineIn, OutAddress
<1>3. \A y \in DOMAIN Clear(l, g, i) : Clear(l, g, i)[y] = << >> BY DEF Clear
<1>4. DOMAIN Clear(l, g, i)[x] = {} BY <1>3
<1> QED BY <1>2, <1>4 DEF Addresses

LEMMA LeftAddresses ==
  ASSUME NEW l, Covering(l), NEW g \in GroupOf(l), NEW i \in ItemOf(l),
         NEW q \in 0 .. Segments(l) - 1, NEW s \in Nat, NEW x \in DOMAIN LoadM(l, g, i, q, s)
  PROVE  Addresses(x, LoadM(l, g, i, q, s)[x])
<1> DEFINE r == row(l, g, i) + s * l.R
<1>1. r < l.height BY LeftSeen
<1>2. PICK a : /\ Within1(l, q, a) /\ x = Ml(l, l_row(l, i), a)
               /\ LoadM(l, g, i, q, s)[x] = <<M(l, r, Ahead(l, q, a))>>
  BY <1>1, LoadsLeft
<1>3. Ahead(l, q, a) \in Nat BY <1>2, AheadFacts
<1>4. row(l, g, i) \in Nat /\ l_row(l, i) \in Nat BY Coordinates, PlaceInGroup
<1>5. r \in Nat
  <2> DEFINE y == s * l.R
  <2>1. y \in Nat BY Times DEF Covering, Positive
  <2> HIDE DEF y
  <2>2. row(l, g, i) + y \in Nat BY <1>4, <2>1
  <2> QED BY <2>2 DEF y
<1>6. a \in Nat BY <1>2 DEF Within1
<1> HIDE DEF r
<1>7. Address(x) /\ Address(M(l, r, Ahead(l, q, a))) BY <1>2, <1>3, <1>4, <1>5, <1>6, CellsAddress
<1> DEFINE y == M(l, r, Ahead(l, q, a))
           v == LoadM(l, g, i, q, s)[x]
<1>8. v = <<y>> /\ Address(y) BY <1>2, <1>7
<1> HIDE DEF y, v
<1>9. \A j \in DOMAIN v : v[j] = y BY <1>8
<1>10. Addresses(x, v) BY <1>7, <1>8, <1>9 DEF Addresses
<1> QED BY <1>10 DEF v

LEMMA RightAddresses ==
  ASSUME NEW l, Covering(l), NEW g \in GroupOf(l), NEW i \in ItemOf(l),
         NEW q \in 0 .. Segments(l) - 1, NEW x \in DOMAIN LoadN(l, g, i, q)
  PROVE  Addresses(x, LoadN(l, g, i, q)[x])
<1>1. PICK a : /\ Within1(l, q, a) /\ x = Nl(l, a, l_col(l, i))
               /\ LoadN(l, g, i, q)[x] = <<N(l, Ahead(l, q, a), col(l, g, i))>>
  BY LoadsRight
<1>2. Ahead(l, q, a) \in Nat BY <1>1, AheadFacts
<1>3. col(l, g, i) \in Nat /\ l_col(l, i) \in Nat BY Coordinates, PlaceInGroup
<1>4. a \in Nat BY <1>1 DEF Within1
<1> DEFINE y == N(l, Ahead(l, q, a), col(l, g, i))
           v == LoadN(l, g, i, q)[x]
<1>5. Address(x) /\ Address(y) BY <1>1, <1>2, <1>3, <1>4, CellsAddress
<1>6. v = <<y>> BY <1>1
<1> HIDE DEF y, v
<1>7. \A j \in DOMAIN v : v[j] = y BY <1>6
<1>8. Addresses(x, v) BY <1>5, <1>7 DEF Addresses
<1> QED BY <1>8 DEF v

LEMMA SumAddresses ==
  ASSUME NEW l, Covering(l), NEW g \in GroupOf(l), NEW i \in ItemOf(l),
         NEW q \in 0 .. Segments(l) - 1, NEW s, OutIn(l, g, i, s),
         NEW v, v = SumOf(l, g, i, q, s)
  PROVE  Addresses(OutCell(l, g, i, s), v)
<1> DEFINE m == Cardinality(Segment(l, q))
<1>1. m \in Nat
  <2>1. q \in Nat OBVIOUS
  <2> QED BY <2>1, SegmentFacts
<1> HIDE DEF m
<1>2. IsSumOf(l, g, i, q, s, m, v) BY <1>1, SumIs DEF m
<1>3. l_row(l, i) \in Nat /\ l_col(l, i) \in Nat BY PlaceInGroup
<1>4. Address(OutCell(l, g, i, s)) BY OutAddress
<1>5. ASSUME NEW j \in 1 .. 2 * m PROVE Address(v[j + 1])
  <2>1. v[j + 1] = IF j % 2 = 1 THEN Ml(l, l_row(l, i), j \div 2)
                   ELSE Nl(l, j \div 2 - 1, l_col(l, i))
    BY <1>2 DEF IsSumOf
  <2>2. CASE j % 2 = 1
    <3>1. j \div 2 \in Nat OBVIOUS
    <3> QED BY <1>3, <2>1, <2>2, <3>1, CellsAddress
  <2>3. CASE j % 2 # 1
    <3>1. j \div 2 - 1 \in Nat BY <2>3
    <3> QED BY <1>3, <2>1, <2>3, <3>1, CellsAddress
  <2> QED BY <2>2, <2>3
<1>6. DOMAIN v = 1 .. 2 * m + 1 /\ v[1] = OutCell(l, g, i, s) BY <1>2 DEF IsSumOf
<1>7. ASSUME NEW j \in DOMAIN v PROVE Address(v[j])
  <2>1. CASE j = 1 BY <1>4, <1>6, <2>1
  <2>2. CASE j # 1
    <3>1. j - 1 \in 1 .. 2 * m /\ (j - 1) + 1 = j BY <1>1, <1>6, <2>2
    <3> QED BY <1>5, <3>1
  <2> QED BY <2>1, <2>2
<1> QED BY <1>4, <1>7 DEF Addresses

LEMMA PhaseAddresses ==
  ASSUME NEW l, NEW g \in GroupOf(l), NEW n, InTiles(l, g, n), NEW i \in ItemOf(l),
         NEW p \in Nat, p < Phases(l, g, i), NEW x \in DOMAIN Code(l, g, i, p)
  PROVE  Addresses(x, Code(l, g, i, p)[x])
<1>1. Covering(l) /\ n \in Nat /\ n \in 0 .. l.S BY DEF InTiles, Covering, Positive
<1>2. Phases(l, g, i) = 1 + 2 * Segments(l) * n BY PhaseCodes
<1>3. CASE p = 0
  <2>1. Code(l, g, i, p) = Clear(l, g, i) BY <1>3, PhaseCodes
  <2>2. Addresses(x, Clear(l, g, i)[x]) BY <1>1, <2>1, ClearAddresses
  <2> QED BY <2>1, <2>2
<1>4. CASE p # 0
  <2> DEFINE k == Segments(l)
  <2>1. k \in Nat BY <1>1, SegmentCount DEF Positive
  <2>2. p < 1 + 2 * k * n BY <1>2
  <2> HIDE DEF k
  <2>3. \E q \in 0 .. k - 1, s \in 0 .. n - 1 : p = LoadPhase(n, q, s) \/ p = SumPhase(n, q, s)
    BY <1>1, <1>4, <2>1, <2>2, PhaseIs
  <2>4. PICK q \in 0 .. Segments(l) - 1, s \in 0 .. n - 1 :
          p = LoadPhase(n, q, s) \/ p = SumPhase(n, q, s)
    BY <2>3 DEF k
  <2>5. CASE p = LoadPhase(n, q, s)
    <3> DEFINE f == LoadM(l, g, i, q, s)
               h == IF s = 0 THEN LoadN(l, g, i, q) ELSE Nothing
               code == Code(l, g, i, p)
    <3>1. code = Merged(f, h) BY <2>5, PhaseCodes
    <3>2. x \in DOMAIN code OBVIOUS
    <3>3. (s = 0 => h = LoadN(l, g, i, q)) /\ (s # 0 => h = Nothing) OBVIOUS
    <3>4. \A y \in DOMAIN f : Addresses(y, f[y]) BY <1>1, LeftAddresses
    <3>5. \A y \in DOMAIN LoadN(l, g, i, q) : Addresses(y, LoadN(l, g, i, q)[y])
      BY <1>1, RightAddresses
    <3> HIDE DEF f, h, code
    <3>6. \A y \in DOMAIN h : Addresses(y, h[y])
      <4>1. CASE s = 0 BY <3>3, <3>5, <4>1
      <4>2. CASE s # 0 BY <3>3, <4>2, CodeOfNone
      <4> QED BY <4>1, <4>2
    <3>7. x \in DOMAIN Merged(f, h) BY <3>1, <3>2
    <3>8. DOMAIN Merged(f, h) = DOMAIN f \cup DOMAIN h BY CodeOfMerged
    <3>9. Merged(f, h)[x] = IF x \in DOMAIN f THEN f[x] ELSE h[x] BY <3>7 DEF Merged
    <3>10. Addresses(x, code[x])
      <4>1. CASE x \in DOMAIN f
        <5>1. code[x] = f[x] BY <3>1, <3>9, <4>1
        <5> QED BY <3>4, <4>1, <5>1
      <4>2. CASE x \notin DOMAIN f
        <5>1. code[x] = h[x] /\ x \in DOMAIN h BY <3>1, <3>7, <3>8, <3>9, <4>2
        <5> QED BY <3>6, <5>1
      <4> QED BY <4>1, <4>2
    <3> QED BY <3>10 DEF code
  <2>6. CASE p = SumPhase(n, q, s)
    <3> DEFINE f == Accumulate(l, g, i, q, s)
               y == OutCell(l, g, i, s)
               v == SumOf(l, g, i, q, s)
               in == row(l, g, i) + s * l.R < l.height /\ col(l, g, i) < l.width
    <3>1. Code(l, g, i, p) = f BY <2>6, PhaseCodes
    <3>2. f = IF in THEN At(y, v) ELSE Nothing BY DEF Accumulate, OutCell, SumOf
    <3>3. in => OutIn(l, g, i, s)
      <4>1. s \in 0 .. l.S - 1 BY <1>1 DEF Covering, Positive
      <4> QED BY <4>1 DEF OutIn
    <3>4. OutIn(l, g, i, s) => Addresses(y, v) BY <1>1, SumAddresses
    <3>5. x \in DOMAIN f BY <3>1
    <3> HIDE DEF f, in, v, y
    <3>6. in
      <4> SUFFICES ASSUME ~ in PROVE FALSE OBVIOUS
      <4>1. DOMAIN f = {} BY <3>2, CodeOfNone
      <4> QED BY <3>5, <4>1
    <3>7. x = y /\ f[x] = v
      <4>1. f = At(y, v) BY <3>2, <3>6
      <4>2. DOMAIN At(y, v) = {y} /\ At(y, v)[y] = v BY CodeOfOne
      <4> QED BY <3>5, <4>1, <4>2
    <3> QED BY <3>1, <3>3, <3>4, <3>6, <3>7
  <2> QED BY <2>4, <2>5, <2>6
<1> QED BY <1>3, <1>4

LEMMA PairsAddressed ==
  ASSUME NEW c, NEW l, Multiplies(c, l),
         \A g \in GroupOf(l), i \in ItemOf(l) : \A p \in Nat : p < Phases(l, g, i) =>
           \A x \in DOMAIN Code(l, g, i, p) : Addresses(x, Code(l, g, i, p)[x])
  PROVE  Addressed(c, l)
<1>1. DOMAIN Buffers(c) = {In, Second, Out} BY DEF Multiplies
<1>2. {In, Second, Out, Shared} \subseteq Int BY DEF In, Second, Out, Shared
<1>3. \A x : Address(x) =>
        x \in Int \X Int /\ x \in (DOMAIN Buffers(c) \cup {Shared}) \X Int
  BY <1>1, <1>2 DEF Address
<1> SUFFICES ASSUME NEW g \in GroupOf(l), NEW i \in ItemOf(l), NEW p \in Nat,
                    p < Phases(l, g, i), NEW x \in DOMAIN Code(l, g, i, p)
             PROVE  /\ x \in Int \X Int
                    /\ Range(Code(l, g, i, p)[x]) \subseteq (DOMAIN Buffers(c) \cup {Shared}) \X Int
  BY DEF Addressed
<1> DEFINE v == Code(l, g, i, p)[x]
<1>4. Addresses(x, v) OBVIOUS
<1> HIDE DEF v
<1>5. Range(v) \subseteq (DOMAIN Buffers(c) \cup {Shared}) \X Int
  BY <1>3, <1>4 DEF Addresses, Range
<1> QED BY <1>3, <1>4, <1>5 DEF Addresses, v

-----------------------------------------------------------------------------
\* The groups reach every row and every column.
Reaches(l) ==
  /\ l.width <= l.across * l.C
  /\ \E down \in Nat : l.groups = down * l.across /\ l.height <= down * (l.R * l.S)

LEMMA Reached ==
  ASSUME NEW l, Covering(l), Reaches(l), NEW r \in 0 .. l.height - 1, NEW k \in 0 .. l.width - 1
  PROVE  \E g \in GroupOf(l), i \in ItemOf(l) : \E m : OutIn(l, g, i, m) /\ OutCell(l, g, i, m) = P(l, r, k)
<1> DEFINE RS == l.R * l.S
<1>1. PICK down \in Nat : l.groups = down * l.across /\ l.height <= down * RS BY DEF Reaches
<1>2. /\ l.R \in Positive /\ l.S \in Positive /\ l.C \in Positive /\ l.across \in Positive
      /\ l.R \in Nat /\ l.S \in Nat /\ l.C \in Nat /\ l.across \in Nat
      /\ l.height \in Nat /\ l.width \in Nat
  BY DEF Covering, Positive
<1>3. RS \in Positive BY <1>2, Product
<1> DEFINE y == r \div RS
           u == r % RS
           x == k \div l.C
           v == k % l.C
<1>4. y \in 0 .. down - 1 /\ u \in 0 .. RS - 1 /\ r = y * RS + u
  <2> HIDE DEF RS
  <2>1. down * RS \in Nat BY <1>3, Times DEF Positive
  <2> DEFINE t == down * RS
  <2> HIDE DEF t
  <2>2. r \in 0 .. t - 1 BY <1>1, <1>2, <2>1 DEF t
  <2>3. r \in 0 .. down * RS - 1 BY <2>2 DEF t
  <2> QED BY <1>3, <2>3, PlaceOf
<1>5. x \in 0 .. l.across - 1 /\ v \in 0 .. l.C - 1 /\ k = x * l.C + v
  <2> DEFINE t == l.across * l.C
  <2>1. t \in Nat BY <1>2, Times
  <2>2. l.width <= t BY DEF Reaches
  <2> HIDE DEF t
  <2>3. k \in 0 .. t - 1 BY <1>2, <2>1, <2>2
  <2>4. k \in 0 .. l.across * l.C - 1 BY <2>3 DEF t
  <2> QED BY <1>2, <2>4, PlaceOf
<1> DEFINE m == u \div l.R
           b == u % l.R
<1>6. m \in 0 .. l.S - 1 /\ b \in 0 .. l.R - 1 /\ u = m * l.R + b
  <2> HIDE DEF u
  <2>1. l.R * l.S = l.S * l.R BY <1>2
  <2>2. u \in 0 .. l.S * l.R - 1 BY <1>4, <2>1
  <2> QED BY <1>2, <2>2, PlaceOf
<1> DEFINE g == y * l.across + x
<1> HIDE DEF y, u, x, v, m, b
<1>7. g \in GroupOf(l)
  <2>1. g \in 0 .. down * l.across - 1 BY <1>2, <1>4, <1>5, Place
  <2> QED BY <1>1, <2>1 DEF GroupOf
<1>8. g \div l.across = y /\ g % l.across = x
  <2>1. y \in Nat BY <1>4
  <2>2. g = l.across * y + x BY <1>2, <2>1
  <2>3. (l.across * y + x) \div l.across = y /\ (l.across * y + x) % l.across = x
    BY <1>2, <1>5, <2>1, Quotient
  <2> HIDE DEF g
  <2> QED BY <2>2, <2>3
<1> HIDE DEF g
<1>9. PICK i \in ItemOf(l) : l_row(l, i) = b /\ l_col(l, i) = v BY <1>5, <1>6, <1>7, ItemAt
<1>10. col(l, g, i) = k
  <2>1. col(l, g, i) = (g % l.across) * l.C + l_col(l, i) BY DEF col
  <2> QED BY <1>5, <1>8, <1>9, <2>1
<1>11. row(l, g, i) + m * l.R = r
  <2> HIDE DEF RS
  <2>1. row(l, g, i) = (g \div l.across) * (l.R * l.S) + l_row(l, i) BY <1>7, Coordinates
  <2>2. row(l, g, i) = y * RS + b BY <1>8, <1>9, <2>1 DEF RS
  <2> DEFINE e == y * RS
             f == m * l.R
  <2>3. e \in Nat /\ f \in Nat /\ b \in Nat
    <3>1. y \in Nat /\ m \in Nat /\ RS \in Nat BY <1>2, <1>3, <1>4, <1>6 DEF Positive
    <3> QED BY <1>2, <1>6, <3>1, Times
  <2>4. r = e + u /\ u = f + b /\ row(l, g, i) = e + b BY <1>4, <1>6, <2>2
  <2> HIDE DEF e, f
  <2>5. row(l, g, i) + f = r BY <2>3, <2>4
  <2> QED BY <2>5 DEF f
<1>12. OutIn(l, g, i, m)
  <2>1. r < l.height /\ k < l.width BY <1>2
  <2> QED BY <1>6, <1>10, <1>11, <2>1 DEF OutIn
<1>13. OutCell(l, g, i, m) = P(l, r, k) BY <1>10, <1>11 DEF OutCell
<1> QED BY <1>7, <1>12, <1>13

-----------------------------------------------------------------------------
\* With one user function for a row and a column: the pieces of both, in turn.
WholeOf(l, g, i) ==
  Zipped(l.dimension, LAMBDA k : M(l, row(l, g, i), k), LAMBDA k : N(l, k, col(l, g, i)))

IsGeneral(l) == Covering(l) /\ l.kernel = "SCL_ALLPAIRS, general" /\ l.S = 1

LEMMA WholeIs ==
  ASSUME NEW l, NEW g, NEW i, NEW d, d = l.dimension, NEW v, v = WholeOf(l, g, i)
  PROVE  /\ DOMAIN v = 1 .. 2 * d
         /\ \A j \in 1 .. 2 * d :
              v[j] = IF j % 2 = 1 THEN M(l, row(l, g, i), j \div 2)
                     ELSE N(l, j \div 2 - 1, col(l, g, i))
<1> DEFINE at(j) == IF j % 2 = 1 THEN M(l, row(l, g, i), j \div 2)
                    ELSE N(l, j \div 2 - 1, col(l, g, i))
<1>1. v = [j \in 1 .. 2 * d |-> at(j)] BY DEF WholeOf, Zipped
<1> HIDE DEF at
<1>2. DOMAIN v = 1 .. 2 * d /\ \A j \in 1 .. 2 * d : v[j] = at(j) BY <1>1
<1> QED BY <1>2 DEF at

LEMMA GeneralStores ==
  ASSUME NEW l, IsGeneral(l), NEW g \in GroupOf(l), NEW i \in ItemOf(l), NEW p,
         NEW o \in {0}
  PROVE  IF OutIn(l, g, i, o) THEN Stores(Code(l, g, i, p), OutCell(l, g, i, o), WholeOf(l, g, i))
         ELSE DOMAIN Code(l, g, i, p) = {}
<1>1. Covering(l) /\ l.S = 1 /\ l.kernel = "SCL_ALLPAIRS, general" /\ l.R \in Nat
  BY DEF IsGeneral, Covering, Positive
<1> DEFINE z == WholeOf(l, g, i)
           x == P(l, row(l, g, i), col(l, g, i))
           in == row(l, g, i) < l.height /\ col(l, g, i) < l.width
<1>2. Code(l, g, i, p) = IF in THEN At(x, z) ELSE Nothing
  BY <1>1 DEF Code, AllPairsGeneralCode, WholeOf
<1>3. row(l, g, i) + o * l.R = row(l, g, i)
  <2>1. row(l, g, i) \in Nat BY <1>1, Coordinates
  <2>2. l.R \in Nat BY <1>1
  <2>3. o * l.R = 0 BY <2>2
  <2> QED BY <2>1, <2>3
<1>4. OutCell(l, g, i, o) = x BY <1>3 DEF OutCell
<1>5. OutIn(l, g, i, o) <=> in
  <2>1. 0 .. l.S - 1 = {0}
    <3>1. l.S = 1 BY <1>1
    <3>2. 0 .. 1 - 1 = {0} OBVIOUS
    <3> QED BY <3>1, <3>2
  <2> QED BY <1>3, <2>1 DEF OutIn
<1> HIDE DEF z, x, in
<1>6. Stores(At(x, z), x, z) BY StoresOne
<1>7. CASE in BY <1>2, <1>4, <1>5, <1>6, <1>7 DEF z
<1>8. CASE ~ in BY <1>2, <1>5, <1>8, CodeOfNone
<1> QED BY <1>7, <1>8

LEMMA GeneralAddresses ==
  ASSUME NEW l, IsGeneral(l), NEW g \in GroupOf(l), NEW i \in ItemOf(l), NEW p,
         NEW x \in DOMAIN Code(l, g, i, p)
  PROVE  Addresses(x, Code(l, g, i, p)[x])
<1>1. PICK o \in {0} : o = 0 OBVIOUS
<1> DEFINE v == WholeOf(l, g, i)
           y == OutCell(l, g, i, o)
           d == l.dimension
           code == Code(l, g, i, p)
<1>2. Covering(l) /\ d \in Nat BY DEF IsGeneral, Covering, Positive
<1>3. OutIn(l, g, i, o) /\ Stores(code, y, v)
  <2>1. CASE OutIn(l, g, i, o) BY <2>1, GeneralStores
  <2>2. CASE ~ OutIn(l, g, i, o)
    <3>1. DOMAIN code = {} BY <2>2, GeneralStores
    <3> QED BY <3>1
  <2> QED BY <2>1, <2>2
<1>4. x = y /\ code[x] = v
  <2> HIDE DEF y, v
  <2>1. x \in DOMAIN code OBVIOUS
  <2> HIDE DEF code
  <2> QED BY <1>3, <2>1 DEF Stores
<1>5. Address(y) BY <1>2, <1>3, OutAddress
<1>6. row(l, g, i) \in Nat /\ col(l, g, i) \in Nat BY <1>2, Coordinates
<1>7. /\ DOMAIN v = 1 .. 2 * d
      /\ \A j \in 1 .. 2 * d :
           v[j] = IF j % 2 = 1 THEN M(l, row(l, g, i), j \div 2)
                  ELSE N(l, j \div 2 - 1, col(l, g, i))
  BY WholeIs
<1> HIDE DEF v, y, d, code
<1>8. ASSUME NEW j \in 1 .. 2 * d PROVE Address(v[j])
  <2>1. CASE j % 2 = 1
    <3>1. j \div 2 \in Nat /\ v[j] = M(l, row(l, g, i), j \div 2) BY <1>2, <1>7, <2>1
    <3> QED BY <1>2, <1>6, <3>1, CellsAddress
  <2>2. CASE j % 2 # 1
    <3>1. j \div 2 - 1 \in Nat /\ v[j] = N(l, j \div 2 - 1, col(l, g, i)) BY <1>2, <1>7, <2>2
    <3> QED BY <1>2, <1>6, <3>1, CellsAddress
  <2> QED BY <2>1, <2>2
<1>9. Addresses(x, code[x]) BY <1>4, <1>5, <1>7, <1>8 DEF Addresses
<1> QED BY <1>9 DEF code

LEMMA GeneralWrites ==
  ASSUME NEW c, NEW l, Multiplies(c, l), IsGeneral(l)
  PROVE  WritesOnce(c, 1)
<1>1. /\ Covering(l) /\ Only(c, l) /\ c.skeleton = "allpairs"
      /\ c.width = l.width /\ c.dimension = l.dimension
      /\ l.dimension \in Nat /\ l.height \in Nat /\ l.width \in Nat
  BY DEF Multiplies, Covering, Positive
<1>2. Launches(c)[1] = l BY <1>1, OnlyFacts
<1> SUFFICES ASSUME NEW g \in GroupOf(l), NEW i \in ItemOf(l), NEW x \in DOMAIN Code(l, g, i, 0)
             PROVE  Result(c, 1, x) = FlattenSeq([m \in DOMAIN Code(l, g, i, 0)[x] |->
                                        FirstFound(c, 1, Code(l, g, i, 0)[x][m])])
  BY <1>2 DEF WritesOnce
<1>3. PICK o \in {0} : o = 0 OBVIOUS
<1> DEFINE v == WholeOf(l, g, i)
           y == OutCell(l, g, i, o)
           d == l.dimension
           r == row(l, g, i)
           k == col(l, g, i)
           code == Code(l, g, i, 0)
           f == ProductTo(c, r, k, d)
           h == [m \in DOMAIN v |-> FirstFound(c, 1, v[m])]
           zero == 0
<1>4. OutIn(l, g, i, o) /\ Stores(code, y, v)
  <2>1. CASE OutIn(l, g, i, o) BY <2>1, GeneralStores
  <2>2. CASE ~ OutIn(l, g, i, o)
    <3>1. DOMAIN code = {} BY <2>2, GeneralStores
    <3> QED BY <3>1
  <2> QED BY <2>1, <2>2
<1>5. x = y /\ code[x] = v
  <2> HIDE DEF y, v
  <2>1. x \in DOMAIN code OBVIOUS
  <2> HIDE DEF code
  <2> QED BY <1>4, <2>1 DEF Stores
<1>6. r \in Nat /\ k \in Nat /\ r + o * l.R = r
  <2>1. r \in Nat /\ k \in Nat BY <1>1, Coordinates
  <2>2. o * l.R = 0 BY <1>1, <1>3 DEF Covering, Positive
  <2> HIDE DEF r
  <2> QED BY <2>1, <2>2
<1>7. r < l.height /\ k < l.width
  <2>1. r + o * l.R < l.height /\ k < l.width BY <1>4 DEF OutIn
  <2> QED BY <1>6, <2>1
<1>8. y[2] \div l.width = r /\ y[2] % l.width = k
  <2>1. y[2] \div l.width = r + o * l.R /\ y[2] % l.width = k BY <1>1, <1>4, OutCells
  <2> QED BY <1>6, <2>1
<1>9. Result(c, 1, y) = f
  <2> DEFINE a == y[2] \div l.width
             b == y[2] % l.width
  <2>1. Result(c, 1, y) = ProductTo(c, a, b, d) BY <1>1 DEF Result, AllPairs_Result
  <2>2. a = r /\ b = k BY <1>8
  <2> HIDE DEF a, b, r, k
  <2> QED BY <2>1, <2>2
<1>10. /\ DOMAIN v = 1 .. 2 * d
       /\ \A j \in 1 .. 2 * d : v[j] = IF j % 2 = 1 THEN M(l, r, j \div 2) ELSE N(l, j \div 2 - 1, k)
  BY WholeIs
<1>11. \A a \in 0 .. d - 1 : /\ FirstFound(c, 1, M(l, r, a)) = <<LeftLabel(c, r, a)>>
                             /\ FirstFound(c, 1, N(l, a, k)) = <<RightLabel(c, a, k)>>
                             /\ LeftLabel(c, r, a) \in Int /\ RightLabel(c, a, k) \in Int
  <2> TAKE a \in 0 .. d - 1
  <2>1. r \in 0 .. l.height - 1 /\ k \in 0 .. l.width - 1
    <3> HIDE DEF r, k
    <3> QED BY <1>1, <1>6, <1>7
  <2>2. a \in Nat OBVIOUS
  <2> QED BY <1>6, <2>1, <2>2, PairsLabels, LabelsAreNumbers
<1>12. f = [m \in 1 .. 2 * d |-> ProductAt(c, r, k, m)] BY DEF ProductTo
<1> HIDE DEF v, y, d, r, k, code, f
<1>13. d \in Nat BY <1>1 DEF d
<1>14. ASSUME NEW j \in 1 .. 2 * d
       PROVE  FirstFound(c, 1, v[j]) = <<f[j]>> /\ f[j] \in Int
  <2>1. f[j] = ProductAt(c, r, k, j) BY <1>12
  <2>2. CASE j % 2 = 1
    <3> DEFINE a == j \div 2
    <3>1. a \in 0 .. d - 1 BY <1>13, <2>2, OddEven
    <3>2. v[j] = M(l, r, a) /\ f[j] = LeftLabel(c, r, a) BY <1>10, <2>1, <2>2 DEF ProductAt
    <3> HIDE DEF a
    <3> QED BY <1>11, <3>1, <3>2
  <2>3. CASE j % 2 # 1
    <3> DEFINE a == j \div 2 - 1
    <3>1. a \in 0 .. d - 1
      <4> DEFINE e == j \div 2
      <4>1. e \in 1 .. d BY <1>13, <2>3, OddEven
      <4> HIDE DEF e
      <4>2. e - 1 \in 0 .. d - 1 BY <1>13, <4>1
      <4> QED BY <4>2 DEF e
    <3>2. v[j] = N(l, a, k) /\ f[j] = RightLabel(c, a, k) BY <1>10, <2>1, <2>3 DEF ProductAt
    <3> HIDE DEF a
    <3> QED BY <1>11, <3>1, <3>2
  <2> QED BY <2>2, <2>3
<1> DEFINE n == 2 * d
<1>15. n \in Nat BY <1>13
<1>16. Among(Int, f, n) BY <1>14 DEF Among
<1>17. DOMAIN h = 1 .. n /\ h = [m \in DOMAIN h |-> h[m]] BY <1>10
<1>18. \A m \in 1 .. n : h[m] = <<f[m]>> BY <1>10, <1>14
<1>19. Firsts(f, n) = f
  <2>1. DOMAIN f = 1 .. n /\ f = [m \in DOMAIN f |-> f[m]] BY <1>12
  <2> HIDE DEF n
  <2> QED BY <2>1 DEF Firsts
<1> HIDE DEF h, n
<1>20. FlattenSeq(h) = Firsts(f, n) BY <1>15, <1>16, <1>17, <1>18, FlattenLabels
<1>21. Result(c, 1, x) = FlattenSeq(h) BY <1>5, <1>9, <1>19, <1>20
<1> QED BY <1>5, <1>21 DEF h, code

LEMMA PairsMemory ==
  ASSUME NEW c, c.skeleton = "allpairs", AllPairsCall(c)
  PROVE  /\ Numbered(c)
         /\ DOMAIN Buffers(c) = {In, Second, Out}
         /\ Buffers(c)[In] = Labelled(c.height * c.dimension, 0)
         /\ Buffers(c)[Second] = Labelled(c.dimension * c.width, 100)
         /\ DOMAIN Buffers(c)[Out] = 0 .. c.height * c.width - 1
<1>1. Buffers(c) = [b \in {In, Second, Out} |->
                      CASE b = In     -> Labelled(c.height * c.dimension, 0)
                        [] b = Second -> Labelled(c.dimension * c.width, 100)
                        [] OTHER      -> Fresh(c.height * c.width)]
  BY DEF Buffers, AllPairsBuffers
<1>2. DOMAIN Buffers(c) = {In, Second, Out} BY <1>1
<1>3. /\ Buffers(c)[In] = Labelled(c.height * c.dimension, 0)
      /\ Buffers(c)[Second] = Labelled(c.dimension * c.width, 100)
      /\ Buffers(c)[Out] = Fresh(c.height * c.width)
  BY <1>1 DEF In, Second, Out
<1>4. {In, Second, Out} \subseteq Int \ {Shared} BY DEF In, Second, Out, Shared
<1>5. \A n, off : DOMAIN Labelled(n, off) \subseteq Int BY DEF Labelled
<1>6. DOMAIN Fresh(c.height * c.width) = 0 .. c.height * c.width - 1 BY DEF Fresh
<1>7. \A n : 0 .. n \subseteq Int OBVIOUS
<1>8. \A b \in DOMAIN Buffers(c) : DOMAIN Buffers(c)[b] \subseteq Int
  <2>1. DOMAIN Buffers(c)[In] \subseteq Int BY <1>3, <1>5
  <2>2. DOMAIN Buffers(c)[Second] \subseteq Int BY <1>3, <1>5
  <2>3. DOMAIN Buffers(c)[Out] \subseteq Int BY <1>3, <1>6, <1>7
  <2> QED BY <1>2, <2>1, <2>2, <2>3
<1> QED BY <1>2, <1>3, <1>4, <1>6, <1>8 DEF Numbered

\* A call's launch.
IsPairs(c, l) ==
  /\ Multiplies(c, l) /\ Reaches(l)
  /\ \/ IsGeneral(l)
     \/ \A g \in GroupOf(l) : \E n : InTiles(l, g, n)

LEMMA PairsLaunched ==
  ASSUME NEW c, c.skeleton = "allpairs", AllPairsCall(c)
  PROVE  \E l : IsPairs(c, l)
<1> DEFINE l == AllPairsLaunch(c)
           across == CeilDiv(c.width, c.C)
           down == CeilDiv(c.height, c.R * c.S)
<1>1. /\ LaunchOf(c) = {l} /\ Covering(l)
      /\ l.kernel = IF c.general THEN "SCL_ALLPAIRS, general" ELSE "SCL_ALLPAIRS"
  BY AllPairsFacts
<1>2. Launches(c) = <<l>> BY DEF Launches, AllPairsLaunches
<1>3. Only(c, l) BY <1>1, <1>2 DEF Only
<1>4. /\ c.height \in Nat /\ c.width \in Nat /\ c.C \in Positive /\ c.R \in Positive /\ c.S \in Positive
      /\ c.general \in BOOLEAN /\ (c.general => c.S = 1)
  BY DEF AllPairsCall, Positive
<1>5. /\ l.height = c.height /\ l.width = c.width /\ l.dimension = c.dimension
      /\ l.groups = across * down /\ l.across = across /\ l.C = c.C /\ l.R = c.R /\ l.S = c.S
  BY DEF AllPairsLaunch
<1>6. across \in Nat /\ c.width <= across * c.C BY <1>4, CeilDivided
<1>7. down \in Nat /\ c.height <= down * (c.R * c.S)
  <2>1. c.R * c.S \in Positive BY <1>4, Product
  <2> QED BY <1>4, <2>1, CeilDivided
<1> HIDE DEF across, down, l
<1>8. Reaches(l)
  <2>1. l.groups = down * l.across
    <3>1. across * down = down * across BY <1>6, <1>7
    <3> QED BY <1>5, <3>1
  <2>2. l.height <= down * (l.R * l.S) BY <1>5, <1>7
  <2>3. l.width <= l.across * l.C BY <1>5, <1>6
  <2> QED BY <1>7, <2>1, <2>2, <2>3 DEF Reaches
<1>9. Apart(c, l)
  <2>1. CASE c.general BY <1>1, <2>1, GeneralIsSafe
  <2>2. CASE ~ c.general BY <1>1, <2>2, TiledIsSafe
  <2> QED BY <2>1, <2>2
<1>10. Multiplies(c, l) BY <1>1, <1>3, <1>5, <1>9, PairsMemory DEF Multiplies
<1>11. CASE c.general
  <2>1. IsGeneral(l) BY <1>1, <1>4, <1>5, <1>11 DEF IsGeneral
  <2> QED BY <1>8, <1>10, <2>1 DEF IsPairs
<1>12. CASE ~ c.general
  <2>1. l.kernel = "SCL_ALLPAIRS" BY <1>1, <1>12
  <2>2. \A g \in GroupOf(l) : \E n : InTiles(l, g, n) BY <1>1, <2>1, TilesFacts DEF InTiles
  <2> QED BY <1>8, <1>10, <2>2 DEF IsPairs
<1> QED BY <1>11, <1>12

LEMMA PairsStored ==
  ASSUME NEW c, NEW l, IsPairs(c, l), NEW r \in 0 .. l.height - 1, NEW k \in 0 .. l.width - 1
  PROVE  \E g \in GroupOf(l) : StoredBy(l, g, P(l, r, k))
<1>1. Covering(l) /\ Reaches(l) BY DEF IsPairs, Multiplies
<1>2. PICK g \in GroupOf(l), i \in ItemOf(l) : \E m : OutIn(l, g, i, m) /\ OutCell(l, g, i, m) = P(l, r, k)
  BY <1>1, Reached
<1>3. PICK m : OutIn(l, g, i, m) /\ OutCell(l, g, i, m) = P(l, r, k) BY <1>2
<1> DEFINE x == P(l, r, k)
<1>4. CASE IsGeneral(l)
  <2>1. m \in {0}
    <3>1. m \in 0 .. l.S - 1 /\ l.S = 1 BY <1>3, <1>4 DEF OutIn, IsGeneral
    <3>2. m \in 0 .. 1 - 1 BY <3>1
    <3> QED BY <3>2
  <2>2. Stores(Code(l, g, i, 0), OutCell(l, g, i, m), WholeOf(l, g, i))
    BY <1>3, <1>4, <2>1, GeneralStores
  <2>3. x \in DOMAIN Code(l, g, i, 0) BY <1>3, <2>2 DEF Stores
  <2>4. OnePhase(l) BY <1>4 DEF IsGeneral, OnePhase
  <2>5. StoredBy(l, g, x) BY <2>3, <2>4, StoredOnce
  <2> QED BY <2>5
<1>5. ASSUME NEW n, InTiles(l, g, n) PROVE StoredBy(l, g, x)
  <2>1. StoredIn(l, g, 0, x) BY <1>3, <1>5, OutStored
  <2>2. 0 \in Nat OBVIOUS
  <2> HIDE DEF x
  <2> QED BY <2>1, <2>2 DEF StoredIn, StoredBy
<1> QED BY <1>4, <1>5 DEF IsPairs

LEMMA PairsExplained ==
  ASSUME NEW c, c.skeleton = "allpairs", AllPairsCall(c)
  PROVE  /\ Explained(c)
         /\ \A r \in 0 .. c.height - 1, k \in 0 .. c.width - 1 :
              Start(c, Len(Launches(c)) + 1, Cell(Out, r * c.width + k)) =
                ProductTo(c, r, k, c.dimension)
<1>1. PICK l : IsPairs(c, l) BY PairsLaunched
<1>2. /\ Multiplies(c, l) /\ Only(c, l) /\ Covering(l) /\ Apart(c, l) /\ Numbered(c)
      /\ l.height = c.height /\ l.width = c.width /\ l.dimension = c.dimension
      /\ c.width \in Positive /\ c.width \in Nat
  BY <1>1 DEF IsPairs, Multiplies, Covering, Positive
<1>3. Launches(c)[1] = l BY <1>2, OnlyFacts
<1>4. Writes(c, 1) /\ Leaves(c, 1) /\ Addressed(c, l)
  <2>1. CASE IsGeneral(l)
    <3>1. OnePhase(l) BY <2>1 DEF IsGeneral, OnePhase
    <3>2. Writes(c, 1) /\ Leaves(c, 1) BY <1>2, <1>3, <2>1, <3>1, GeneralWrites, OnceExplains
    <3>3. Addressed(c, l) BY <1>2, <2>1, GeneralAddresses, PairsAddressed
    <3> QED BY <3>2, <3>3
  <2>2. CASE \A g \in GroupOf(l) : \E n : InTiles(l, g, n)
    <3>1. Writes(c, 1) BY <1>2, <2>2, PairsWrite
    <3>2. Leaves(c, 1) BY <1>2, <2>2, PairsLeave
    <3>3. Addressed(c, l) BY <1>2, <2>2, PhaseAddresses, PairsAddressed
    <3> QED BY <3>1, <3>2, <3>3
  <2> QED BY <1>1, <2>1, <2>2 DEF IsPairs
<1>5. Explained(c) BY <1>2, <1>4, OnlyExplained
<1>6. ASSUME NEW r \in 0 .. c.height - 1, NEW k \in 0 .. c.width - 1
      PROVE  Start(c, Len(Launches(c)) + 1, Cell(Out, r * c.width + k)) =
               ProductTo(c, r, k, c.dimension)
  <2> DEFINE x == P(l, r, k)
  <2>1. \E g \in GroupOf(l) : StoredBy(l, g, x) BY <1>1, <1>2, PairsStored
  <2>2. Start(c, Len(Launches(c)) + 1, x) = Result(c, 1, x) BY <1>2, <2>1, AfterOnly
  <2>3. x = Cell(Out, r * c.width + k) BY <1>2 DEF P
  <2>4. x[2] = r * c.width + k BY <2>3 DEF Cell
  <2>5. x[2] \div c.width = r /\ x[2] % c.width = k
    <3>1. r \in Nat /\ r * c.width = c.width * r BY <1>2
    <3>2. (c.width * r + k) \div c.width = r /\ (c.width * r + k) % c.width = k
      BY <1>2, <3>1, Quotient
    <3> HIDE DEF x
    <3> QED BY <2>4, <3>1, <3>2
  <2>6. Result(c, 1, x) = ProductTo(c, x[2] \div c.width, x[2] % c.width, c.dimension)
    BY DEF Result, AllPairs_Result
  <2> DEFINE a == x[2] \div c.width
             b == x[2] % c.width
  <2>7. a = r /\ b = k BY <2>5
  <2>8. Result(c, 1, x) = ProductTo(c, a, b, c.dimension) BY <2>6
  <2> HIDE DEF a, b, x
  <2> QED BY <2>2, <2>3, <2>7, <2>8
<1> QED BY <1>5, <1>6

-----------------------------------------------------------------------------
(***************************************************************************)
(* MapOverlap.  Two phases fill the tile, each cell with what is at its    *)
(* place in the matrix or beyond; the third applies the function.          *)
(***************************************************************************)
\* A call's launch, its buffers, and where it is right.
Overlays(c, l) ==
  /\ c.skeleton = "overlap" /\ OverlapCall(c) /\ Tiled(l) /\ Only(c, l) /\ Numbered(c)
  /\ l.cols = c.cols /\ l.range = c.range /\ l.neutral = c.neutral
  /\ l.out = Out /\ l.elements \div l.cols = c.rows
  /\ l.cols = l.across * l.side /\ l.range <= l.side /\ l.side > 1
  /\ DOMAIN Buffers(c) = {In, Out, Constants}
  /\ Buffers(c)[In] = Labelled((c.rows + 2 * c.range) * c.cols, 0)
  /\ Buffers(c)[Constants] = At(0, NeutralElement)
  /\ DOMAIN Buffers(c)[Out] = 0 .. (c.rows + 2 * c.range) * c.cols - 1

LEMMA OverlayFacts ==
  ASSUME NEW c, NEW l, Overlays(c, l)
  PROVE  /\ Launches(c)[1] = l /\ Launches(c) \in Seq(LaunchOf(c)) /\ LaunchOf(c) = {l}
         /\ l.cols \in Nat /\ l.cols > 0 /\ l.range \in Nat /\ l.range > 0 /\ l.side \in Nat
         /\ l.side > 1 /\ l.range <= l.side /\ l.range <= l.cols /\ l.across \in Nat
         /\ l.neutral \in BOOLEAN /\ c.rows \in Nat
         /\ TileWidth(l) = l.side + 2 * l.range /\ TileWidth(l) \in Positive
         /\ l.local = TileWidth(l) * TileWidth(l)
<1>1. Launches(c)[1] = l /\ Launches(c) \in Seq(LaunchOf(c)) /\ LaunchOf(c) = {l}
  BY OnlyFacts DEF Overlays
<1>2. /\ l.cols \in Nat /\ l.cols > 0 /\ l.range \in Nat /\ l.range > 0 /\ l.side \in Nat
      /\ l.side > 1 /\ l.range <= l.side /\ l.across \in Nat /\ l.across > 0
      /\ l.neutral \in BOOLEAN /\ c.rows \in Nat /\ l.local = TileWidth(l) * TileWidth(l)
  <2>1. /\ c.rows \in Positive /\ c.cols \in Positive /\ c.range \in Positive /\ c.neutral \in BOOLEAN
    BY DEF Overlays, OverlapCall
  <2>2. /\ l.cols \in Positive /\ l.range \in Positive /\ l.side \in Positive
        /\ l.across \in Positive /\ l.local = TileWidth(l) * TileWidth(l)
    BY DEF Overlays, Tiled
  <2>3. l.neutral = c.neutral /\ l.side > 1 /\ l.range <= l.side BY DEF Overlays
  <2> QED BY <2>1, <2>2, <2>3 DEF Positive
<1>3. l.side <= l.cols
  <2>1. 1 * l.side <= l.across * l.side BY <1>2, Monotone
  <2>2. 1 * l.side = l.side /\ l.cols = l.across * l.side BY <1>2 DEF Overlays
  <2> QED BY <2>1, <2>2
<1>4. TileWidth(l) = l.side + 2 * l.range /\ TileWidth(l) \in Positive
  BY <1>2 DEF TileWidth, Positive
<1> QED BY <1>1, <1>2, <1>3, <1>4

\* Where what an item sees at row y and column x is from.
SourceOf(l, y, x) ==
  CASE x \in 0 .. l.cols - 1 -> Cell(In, y * l.cols + x)
    [] x \notin 0 .. l.cols - 1 /\ l.neutral -> Cell(Constants, 0)
    [] x \notin 0 .. l.cols - 1 /\ ~ l.neutral ->
         Cell(In, y * l.cols + (IF x < 0 THEN 0 ELSE l.cols - 1))

LEMMA InputLabels ==
  ASSUME NEW c, NEW l, Overlays(c, l), NEW m \in Nat
  PROVE  FirstFound(c, 1, Cell(In, m)) = <<InputLabel(c, m)>>
<1> DEFINE n == (c.rows + 2 * c.range) * c.cols
           one == 1
<1>1. n \in Nat
  <2>1. c.rows + 2 * c.range \in Nat /\ c.cols \in Nat BY DEF Overlays, OverlapCall, Positive
  <2> DEFINE a == c.rows + 2 * c.range
  <2>2. n = a * c.cols /\ a \in Nat BY <2>1
  <2> HIDE DEF n, a
  <2> QED BY <2>1, <2>2, Times
<1>2. /\ In \in DOMAIN Buffers(c) /\ In # Shared /\ Buffers(c)[In] = Labelled(n, 0)
  <2>1. DOMAIN Buffers(c) = {In, Out, Constants} BY DEF Overlays
  <2>2. Buffers(c)[In] = Labelled(n, 0) BY DEF Overlays
  <2>3. In # Shared BY DEF In, Shared
  <2> QED BY <2>1, <2>2, <2>3
<1>3. Launches(c)[one] = l /\ Launches(c) \in Seq(LaunchOf(c)) BY OverlayFacts DEF one
<1>4. CASE m \in 0 .. n - 1
  <2>1. FirstFound(c, 1, Cell(In, m)) = <<0 + m + 1>>
    BY <1>1, <1>2, <1>3, <1>4, BeginsLabelled
  <2>2. 0 + m + 1 = m + 1 OBVIOUS
  <2> QED BY <1>4, <2>1, <2>2 DEF InputLabel
<1>5. CASE m \notin 0 .. n - 1
  <2>1. DOMAIN Buffers(c)[In] = 0 .. n - 1 BY <1>2 DEF Labelled
  <2> HIDE DEF one, n
  <2>2. ~ Within(c, Launches(c)[one], Cell(In, m)) BY <1>2, <1>5, <2>1 DEF Within, Cell
  <2>3. FirstFound(c, one, Cell(In, m)) = JunkValue BY <2>2 DEF FirstFound
  <2> QED BY <1>5, <2>3 DEF InputLabel, JunkValue, n, one
<1> QED BY <1>4, <1>5

LEMMA PaddingLabel ==
  ASSUME NEW c, NEW l, Overlays(c, l)
  PROVE  FirstFound(c, 1, Cell(Constants, 0)) = << -1 >>
<1> DEFINE x == Cell(Constants, 0)
           one == 1
<1>1. Launches(c)[one] = l /\ Launches(c) \in Seq(LaunchOf(c)) BY OverlayFacts DEF one
<1>2. x[1] = Constants /\ x[2] = 0 /\ Constants # Shared BY DEF Cell, Constants, Shared
<1>3. /\ Constants \in DOMAIN Buffers(c) /\ 0 \in DOMAIN Buffers(c)[Constants]
      /\ Buffers(c)[Constants][0] = NeutralElement
  BY DEF Overlays, At
<1> HIDE DEF x
<1>4. Start(c, 1, x) = NeutralElement BY <1>1, <1>2, <1>3, StartOfFirst DEF Initially
<1>5. Within(c, Launches(c)[one], x) BY <1>2, <1>3 DEF Within
<1> QED BY <1>2, <1>4, <1>5 DEF FirstFound, x, one, NeutralElement

LEMMA SourceLabels ==
  ASSUME NEW c, NEW l, Overlays(c, l), NEW y \in Nat, NEW x \in Int
  PROVE  /\ FirstFound(c, 1, SourceOf(l, y, x)) = <<SeenLabel(c, y, x)>>
         /\ SourceOf(l, y, x) \in {In, Constants} \X Int
         /\ SeenLabel(c, y, x) \in Int
<1> DEFINE z == IF x < 0 THEN 0 ELSE l.cols - 1
           a == y * l.cols
<1>1. /\ l.cols \in Nat /\ l.cols > 0 /\ l.neutral \in BOOLEAN
      /\ l.cols = c.cols /\ l.neutral = c.neutral
  BY OverlayFacts DEF Overlays
<1>2. a \in Nat BY <1>1, Times
<1>3. z \in Nat BY <1>1
<1>4. SourceOf(l, y, x) =
        CASE x \in 0 .. l.cols - 1 -> Cell(In, a + x)
          [] x \notin 0 .. l.cols - 1 /\ l.neutral -> Cell(Constants, 0)
          [] x \notin 0 .. l.cols - 1 /\ ~ l.neutral -> Cell(In, a + z)
  BY DEF SourceOf
<1>5. SeenLabel(c, y, x) =
        CASE x \in 0 .. l.cols - 1 -> InputLabel(c, a + x)
          [] x \notin 0 .. l.cols - 1 /\ l.neutral -> -1
          [] x \notin 0 .. l.cols - 1 /\ ~ l.neutral -> InputLabel(c, a + z)
  BY <1>1 DEF SeenLabel
<1> HIDE DEF a, z
<1>6. \A m \in Nat : InputLabel(c, m) \in Int BY DEF InputLabel
<1>7. \A b \in {In, Constants}, m \in Int : Cell(b, m) \in {In, Constants} \X Int BY DEF Cell
<1>8. CASE x \in 0 .. l.cols - 1
  <2>1. a + x \in Nat BY <1>1, <1>2, <1>8
  <2>2. SourceOf(l, y, x) = Cell(In, a + x) /\ SeenLabel(c, y, x) = InputLabel(c, a + x)
    BY <1>4, <1>5, <1>8
  <2> QED BY <1>6, <1>7, <2>1, <2>2, InputLabels
<1>9. CASE x \notin 0 .. l.cols - 1 /\ l.neutral
  <2>1. SourceOf(l, y, x) = Cell(Constants, 0) /\ SeenLabel(c, y, x) = -1
    BY <1>4, <1>5, <1>9
  <2> QED BY <1>7, <2>1, PaddingLabel
<1>10. CASE x \notin 0 .. l.cols - 1 /\ ~ l.neutral
  <2>1. a + z \in Nat BY <1>2, <1>3
  <2>2. SourceOf(l, y, x) = Cell(In, a + z) /\ SeenLabel(c, y, x) = InputLabel(c, a + z)
    BY <1>4, <1>5, <1>10
  <2> QED BY <1>6, <1>7, <2>1, <2>2, InputLabels
<1> QED BY <1>1, <1>8, <1>9, <1>10

-----------------------------------------------------------------------------
\* A cell of the tile, its row and column, and where the tile is.
LEMMA SpotBack ==
  ASSUME NEW l, Tiled(l), NEW v \in 0 .. TileWidth(l) - 1, NEW u \in 0 .. TileWidth(l) - 1
  PROVE  /\ Spot(l, v, u)[1] = Shared
         /\ Spot(l, v, u)[2] \div TileWidth(l) = v /\ Spot(l, v, u)[2] % TileWidth(l) = u
<1> DEFINE W == TileWidth(l)
<1>1. W \in Positive /\ W \in Nat BY DEF Tiled, TileWidth, Positive
<1>2. Spot(l, v, u)[1] = Shared /\ Spot(l, v, u)[2] = v * W + u BY DEF Spot, Cell
<1> HIDE DEF W
<1>3. v \in Nat /\ u \in 0 .. W - 1 BY <1>1 DEF W
<1>4. v * W = W * v BY <1>1, <1>3
<1>5. (W * v + u) \div W = v /\ (W * v + u) % W = u BY <1>1, <1>3, Quotient
<1> QED BY <1>2, <1>4, <1>5 DEF W

FirstRow(l, g)    == (g \div l.across) * l.side
FirstColumn(l, g) == (g % l.across) * l.side

LEMMA FirstOfTile ==
  ASSUME NEW l, Tiled(l), NEW g \in GroupOf(l), NEW i \in ItemOf(l)
  PROVE  /\ FirstRow(l, g) \in Nat /\ FirstColumn(l, g) \in Nat
         /\ Row(l, g, i) = FirstRow(l, g) + LocalRow(l, i)
         /\ Column(l, g, i) = FirstColumn(l, g) + LocalColumn(l, i)
         /\ LocalRow(l, i) \in 0 .. l.side - 1 /\ LocalColumn(l, i) \in 0 .. l.side - 1
<1>1. /\ LocalRow(l, i) \in 0 .. l.side - 1 /\ LocalColumn(l, i) \in 0 .. l.side - 1
      /\ g \div l.across \in Nat /\ g % l.across \in 0 .. l.across - 1
  BY TileCoordinates
<1>2. l.side \in Nat /\ g % l.across \in Nat BY <1>1 DEF Tiled, Positive
<1>3. FirstRow(l, g) \in Nat /\ FirstColumn(l, g) \in Nat
  BY <1>1, <1>2, Times DEF FirstRow, FirstColumn
<1> QED BY <1>1, <1>3 DEF Row, Column, FirstRow, FirstColumn

LEMMA ColumnInside ==
  ASSUME NEW l, Tiled(l), l.cols = l.across * l.side, NEW g \in GroupOf(l), NEW i \in ItemOf(l)
  PROVE  Column(l, g, i) \in 0 .. l.cols - 1
<1>1. l.side \in Nat /\ l.across \in Nat BY DEF Tiled, Positive
<1>2. LocalColumn(l, i) \in 0 .. l.side - 1 /\ g % l.across \in 0 .. l.across - 1
  BY TileCoordinates
<1>3. (g % l.across) * l.side + LocalColumn(l, i) \in 0 .. l.across * l.side - 1
  BY <1>1, <1>2, Place
<1> QED BY <1>3 DEF Column

\* What an item loads from row a and column b, from its own.
LEMMA GlobalIs ==
  ASSUME NEW l, Tiled(l), NEW g \in GroupOf(l), NEW i \in ItemOf(l), NEW a \in Int, NEW b \in Int,
         NEW y \in Nat, y = a + Row(l, g, i) + l.range
  PROVE  Global(l, In, g, i, a, b) = Cell(In, y * l.cols + (Column(l, g, i) + b))
<1> DEFINE k == Column(l, g, i)
           z == a + Row(l, g, i)
           p == z * l.cols
           q == l.range * l.cols
<1>1. /\ l.cols \in Int /\ l.range \in Int /\ Row(l, g, i) \in Int /\ k \in Int /\ z \in Int
  BY TileCoordinates DEF Tiled, Positive
<1>2. p \in Int /\ q \in Int BY <1>1
<1>3. (z + l.range) * l.cols = p + q BY <1>1
<1>4. Global(l, In, g, i, a, b) = Cell(In, p + b + k + q) BY DEF Global
<1>5. y * l.cols = p + q BY <1>3
<1> HIDE DEF p, q, k
<1>6. p + b + k + q = (p + q) + (k + b) BY <1>1, <1>2
<1> QED BY <1>4, <1>5, <1>6 DEF k

\* The place in the matrix of the tile's row v and column u.
PlaceOfSpot(l, g, v, u) == SourceOf(l, FirstRow(l, g) + v, FirstColumn(l, g) + u - l.range)

\* Code copies what is at the place of each cell that it stores.
Faithful(l, g, f) ==
  \A x \in DOMAIN f : \E v, u \in 0 .. TileWidth(l) - 1 :
    x = Spot(l, v, u) /\ f[x] = <<PlaceOfSpot(l, g, v, u)>>

LEMMA NothingIsFaithful == ASSUME NEW l, NEW g PROVE Faithful(l, g, Nothing)
BY CodeOfNone DEF Faithful

LEMMA MergedIsFaithful ==
  ASSUME NEW l, NEW g, NEW f, NEW h, Faithful(l, g, f), Faithful(l, g, h)
  PROVE  Faithful(l, g, Merged(f, h))
<1> SUFFICES ASSUME NEW x \in DOMAIN Merged(f, h)
             PROVE  \E v, u \in 0 .. TileWidth(l) - 1 :
                      x = Spot(l, v, u) /\ Merged(f, h)[x] = <<PlaceOfSpot(l, g, v, u)>>
  BY DEF Faithful
<1>1. x \in DOMAIN f \cup DOMAIN h BY CodeOfMerged
<1>2. Merged(f, h)[x] = IF x \in DOMAIN f THEN f[x] ELSE h[x] BY DEF Merged
<1>3. CASE x \in DOMAIN f
  <2>1. Merged(f, h)[x] = f[x] BY <1>2, <1>3
  <2> QED BY <1>3, <2>1 DEF Faithful
<1>4. CASE x \notin DOMAIN f
  <2>1. Merged(f, h)[x] = h[x] /\ x \in DOMAIN h BY <1>1, <1>2, <1>4
  <2> QED BY <2>1 DEF Faithful
<1> QED BY <1>3, <1>4

\* From the offsets of an item.
CopiesPlace(l, g, i, from, o) ==
  \E v, u \in 0 .. TileWidth(l) - 1 :
    /\ v = o[1] + LocalRow(l, i) + l.range /\ u = l.range + LocalColumn(l, i) + o[2]
    /\ from[o] = PlaceOfSpot(l, g, v, u)

LEMMA CopiedIsFaithful ==
  ASSUME NEW l, Tiled(l), NEW g \in GroupOf(l), NEW i \in ItemOf(l), NEW from,
         DOMAIN from \subseteq Int \X Int, \A o \in DOMAIN from : CopiesPlace(l, g, i, from, o)
  PROVE  Faithful(l, g, CopiedAt(l, i, from))
<1> DEFINE f == CopiedAt(l, i, from)
           which(x) == CHOOSE o \in DOMAIN from : Tile(l, i, o[1], o[2]) = x
<1>1. DOMAIN f = {Tile(l, i, o[1], o[2]) : o \in DOMAIN from} BY DEF CopiedAt
<1>2. \A x \in DOMAIN f : f[x] = <<from[which(x)]>> BY DEF CopiedAt
<1>3. \A x \in DOMAIN f : /\ which(x) \in DOMAIN from
                          /\ Tile(l, i, which(x)[1], which(x)[2]) = x
  BY <1>1
<1> HIDE DEF f, which
<1> SUFFICES ASSUME NEW x \in DOMAIN f
             PROVE  \E v, u \in 0 .. TileWidth(l) - 1 :
                      x = Spot(l, v, u) /\ f[x] = <<PlaceOfSpot(l, g, v, u)>>
  BY DEF Faithful, f
<1> DEFINE o == which(x)
<1>4. o \in DOMAIN from /\ Tile(l, i, o[1], o[2]) = x /\ f[x] = <<from[o]>> BY <1>2, <1>3
<1> HIDE DEF o
<1>5. o[1] \in Int /\ o[2] \in Int BY <1>4
<1>6. x = Spot(l, o[1] + LocalRow(l, i) + l.range, l.range + LocalColumn(l, i) + o[2])
  BY <1>4, <1>5, TileIsSpot
<1>7. PICK v \in 0 .. TileWidth(l) - 1, u \in 0 .. TileWidth(l) - 1 :
        /\ v = o[1] + LocalRow(l, i) + l.range /\ u = l.range + LocalColumn(l, i) + o[2]
        /\ from[o] = PlaceOfSpot(l, g, v, u)
  BY <1>4 DEF CopiesPlace
<1> QED BY <1>4, <1>6, <1>7

-----------------------------------------------------------------------------
\* Where an item's copies are from, inside of the matrix and on either side.
LEMMA PlaceSeen ==
  ASSUME NEW l, Tiled(l), l.cols = l.across * l.side, l.neutral \in BOOLEAN,
         NEW g \in GroupOf(l), NEW i \in ItemOf(l),
         NEW a \in Int, NEW b \in Int, NEW v \in Nat, NEW u \in Nat,
         v = a + LocalRow(l, i) + l.range, u = l.range + LocalColumn(l, i) + b
  PROVE  LET k == Column(l, g, i)
         IN  /\ k + b \in 0 .. l.cols - 1 =>
                  Global(l, In, g, i, a, b) = PlaceOfSpot(l, g, v, u)
             /\ k + b < 0 => Padding(l, g, i, a, - k) = PlaceOfSpot(l, g, v, u)
             /\ k + b >= l.cols => Padding(l, g, i, a, l.cols - k - 1) = PlaceOfSpot(l, g, v, u)
<1> DEFINE k == Column(l, g, i)
           y == FirstRow(l, g) + v
           n == l.cols
           p == y * n
<1>1. /\ FirstRow(l, g) \in Nat /\ FirstColumn(l, g) \in Nat
      /\ Row(l, g, i) = FirstRow(l, g) + LocalRow(l, i)
      /\ k = FirstColumn(l, g) + LocalColumn(l, i)
      /\ LocalRow(l, i) \in 0 .. l.side - 1 /\ LocalColumn(l, i) \in 0 .. l.side - 1
  BY FirstOfTile
<1>2. k \in 0 .. n - 1 BY ColumnInside
<1>3. l.range \in Nat /\ l.side \in Nat /\ n \in Nat /\ n > 0 BY DEF Tiled, Positive
<1>4. y \in Nat /\ y = a + Row(l, g, i) + l.range
  <2>1. LocalRow(l, i) \in Nat BY <1>1, <1>3
  <2> QED BY <1>1, <1>3, <2>1
<1>5. \A d \in Int : Global(l, In, g, i, a, d) = Cell(In, p + (k + d))
  <2> TAKE d \in Int
  <2> HIDE DEF y, k
  <2>1. Global(l, In, g, i, a, d) = Cell(In, y * l.cols + (Column(l, g, i) + d)) BY <1>4, GlobalIs
  <2> QED BY <2>1 DEF k
<1>6. FirstColumn(l, g) + u - l.range = k + b
  <2>1. LocalColumn(l, i) \in Nat BY <1>1, <1>3
  <2> QED BY <1>1, <1>3, <2>1
<1>7. PlaceOfSpot(l, g, v, u) = SourceOf(l, y, k + b) BY <1>6 DEF PlaceOfSpot
<1>8. SourceOf(l, y, k + b) =
        CASE k + b \in 0 .. n - 1 -> Cell(In, p + (k + b))
          [] k + b \notin 0 .. n - 1 /\ l.neutral -> Cell(Constants, 0)
          [] k + b \notin 0 .. n - 1 /\ ~ l.neutral ->
               Cell(In, p + (IF k + b < 0 THEN 0 ELSE n - 1))
  BY DEF SourceOf
<1>9. \A d : Padding(l, g, i, a, d) =
               IF l.neutral THEN Cell(Constants, 0) ELSE Global(l, In, g, i, a, d)
  BY DEF Padding
<1> DEFINE z == k + b
<1>10. z \in Int BY <1>2
<1> HIDE DEF y, k, p, n, z
<1>11. - k \in Int /\ k + - k = 0 /\ n - k - 1 \in Int /\ k + (n - k - 1) = n - 1 BY <1>2, <1>3
<1>12. SourceOf(l, y, z) =
        CASE z \in 0 .. n - 1 -> Cell(In, p + z)
          [] z \notin 0 .. n - 1 /\ l.neutral -> Cell(Constants, 0)
          [] z \notin 0 .. n - 1 /\ ~ l.neutral -> Cell(In, p + (IF z < 0 THEN 0 ELSE n - 1))
  BY <1>8 DEF z
<1>13. PlaceOfSpot(l, g, v, u) = SourceOf(l, y, z) BY <1>7 DEF z
<1>14. ASSUME z \in 0 .. n - 1 PROVE Global(l, In, g, i, a, b) = PlaceOfSpot(l, g, v, u)
  <2>1. SourceOf(l, y, z) = Cell(In, p + z) BY <1>12, <1>14
  <2> QED BY <1>5, <1>13, <2>1 DEF z
<1>15. ASSUME z < 0 PROVE Padding(l, g, i, a, - k) = PlaceOfSpot(l, g, v, u)
  <2>1. z \notin 0 .. n - 1 BY <1>3, <1>10, <1>15
  <2>2. Global(l, In, g, i, a, - k) = Cell(In, p + 0) BY <1>5, <1>11
  <2>3. CASE l.neutral BY <1>9, <1>12, <1>13, <2>1, <2>3
  <2>4. CASE ~ l.neutral
    <3>1. SourceOf(l, y, z) = Cell(In, p + 0) BY <1>12, <1>15, <2>1, <2>4
    <3> QED BY <1>9, <1>13, <2>2, <2>4, <3>1
  <2> QED BY <2>3, <2>4
<1>16. ASSUME z >= n PROVE Padding(l, g, i, a, n - k - 1) = PlaceOfSpot(l, g, v, u)
  <2>1. z \notin 0 .. n - 1 /\ ~ (z < 0) BY <1>3, <1>10, <1>16
  <2>2. Global(l, In, g, i, a, n - k - 1) = Cell(In, p + (n - 1)) BY <1>5, <1>11
  <2>3. CASE l.neutral BY <1>9, <1>12, <1>13, <2>1, <2>3
  <2>4. CASE ~ l.neutral
    <3>1. SourceOf(l, y, z) = Cell(In, p + (n - 1)) BY <1>12, <2>1, <2>4
    <3> QED BY <1>9, <1>13, <2>2, <2>4, <3>1
  <2> QED BY <2>3, <2>4
<1> QED BY <1>14, <1>15, <1>16 DEF z, k, n

\* The first phase.
LEMMA CentreIsFaithful ==
  ASSUME NEW l, Tiled(l), l.cols = l.across * l.side, l.neutral \in BOOLEAN,
         NEW g \in GroupOf(l), NEW i \in ItemOf(l)
  PROVE  Faithful(l, g, Code(l, g, i, 0))
<1> DEFINE to == Tile(l, i, 0, 0)
           from == Global(l, In, g, i, 0, 0)
           f == Code(l, g, i, 0)
           v == LocalRow(l, i) + l.range
           u == l.range + LocalColumn(l, i)
<1>1. f = Copied(to, from) BY DEF Tiled, Code, OverlapCode
<1>2. v \in 0 .. TileWidth(l) - 1 /\ u \in 0 .. TileWidth(l) - 1 /\ DOMAIN f = {Spot(l, v, u)}
  BY TileLoads
<1>3. l.range \in Nat /\ l.side \in Nat BY DEF Tiled, Positive
<1>4. LocalRow(l, i) \in Int /\ LocalColumn(l, i) \in Int BY TileCoordinates
<1>5. from = PlaceOfSpot(l, g, v, u)
  <2> DEFINE o == 0
  <2>1. /\ o \in Int /\ v = o + LocalRow(l, i) + l.range /\ u = l.range + LocalColumn(l, i) + o
        /\ v \in Nat /\ u \in Nat
    BY <1>2, <1>3, <1>4
  <2>2. Column(l, g, i) + o \in 0 .. l.cols - 1
    <3>1. Column(l, g, i) \in 0 .. l.cols - 1 BY ColumnInside
    <3> QED BY <3>1
  <2> HIDE DEF o, v, u
  <2>3. Global(l, In, g, i, o, o) = PlaceOfSpot(l, g, v, u) BY <2>1, <2>2, PlaceSeen
  <2> QED BY <2>3 DEF o
<1> HIDE DEF to, from, f, v, u
<1>6. DOMAIN f = {to} /\ f[to] = <<from>> BY <1>1, CodeOfCopy
<1>7. to = Spot(l, v, u) BY <1>2, <1>6
<1>8. Faithful(l, g, f) BY <1>2, <1>5, <1>6, <1>7 DEF Faithful
<1> QED BY <1>8 DEF f

\* The border above and below.
LEMMA NorthIsFaithful ==
  ASSUME NEW l, Tiled(l), l.cols = l.across * l.side, l.neutral \in BOOLEAN,
         NEW g \in GroupOf(l), NEW i \in ItemOf(l)
  PROVE  Faithful(l, g, North(l, g, i)) /\ Faithful(l, g, South(l, g, i))
<1>1. /\ l.range \in Nat /\ l.range > 0 /\ l.side \in Nat
      /\ TileWidth(l) = l.side + 2 * l.range
  BY DEF Tiled, Positive, TileWidth
<1>2. LocalColumn(l, i) \in 0 .. l.side - 1 /\ LocalRow(l, i) \in 0 .. l.side - 1
  BY TileCoordinates
<1>3. Column(l, g, i) \in 0 .. l.cols - 1 BY ColumnInside
<1>4. ASSUME NEW D, D \subseteq Int,
             \A a \in D : a + LocalRow(l, i) + l.range \in 0 .. TileWidth(l) - 1
      PROVE  Faithful(l, g, CopiedAt(l, i, [o \in D \X {0} |-> Global(l, In, g, i, o[1], 0)]))
  <2> DEFINE from == [o \in D \X {0} |-> Global(l, In, g, i, o[1], 0)]
  <2>1. DOMAIN from = D \X {0} /\ \A o \in D \X {0} : from[o] = Global(l, In, g, i, o[1], 0)
    OBVIOUS
  <2> HIDE DEF from
  <2>a. \A o \in D \X {0} : o[1] \in D /\ o[2] = 0 OBVIOUS
  <2>b. D \X {0} \subseteq Int \X Int
    <3> SUFFICES ASSUME NEW o \in D \X {0} PROVE o \in Int \X Int OBVIOUS
    <3>1. o = <<o[1], o[2]>> OBVIOUS
    <3>2. o[1] \in Int BY <1>4, <2>a
    <3>3. o[2] \in Int BY <2>a
    <3> QED BY <3>1, <3>2, <3>3
  <2>2. DOMAIN from \subseteq Int \X Int BY <2>1, <2>b
  <2>3. ASSUME NEW o \in DOMAIN from PROVE CopiesPlace(l, g, i, from, o)
    <3> DEFINE a == o[1]
               b == o[2]
               v == a + LocalRow(l, i) + l.range
               u == l.range + LocalColumn(l, i) + b
    <3>1. a \in D /\ a \in Int /\ b = 0
      <4>1. o \in D \X {0} BY <2>1, <2>3
      <4>2. a \in D /\ b = 0 BY <2>a, <4>1
      <4> QED BY <1>4, <4>2
    <3>2. v \in 0 .. TileWidth(l) - 1 /\ u \in 0 .. TileWidth(l) - 1
      BY <1>1, <1>2, <1>4, <3>1
    <3>3. Column(l, g, i) + b \in 0 .. l.cols - 1 /\ b \in Int BY <1>3, <3>1
    <3>4. from[o] = Global(l, In, g, i, a, b) BY <2>1, <3>1
    <3> HIDE DEF a, b
    <3>5. v \in Nat /\ u \in Nat BY <3>2
    <3>6. Global(l, In, g, i, a, b) = PlaceOfSpot(l, g, v, u) BY <3>1, <3>3, <3>5, PlaceSeen
    <3>7. v = o[1] + LocalRow(l, i) + l.range /\ u = l.range + LocalColumn(l, i) + o[2] BY DEF a, b
    <3> HIDE DEF v, u
    <3> QED BY <3>2, <3>4, <3>6, <3>7 DEF CopiesPlace
  <2>4. Faithful(l, g, CopiedAt(l, i, from)) BY <2>2, <2>3, CopiedIsFaithful
  <2> QED BY <2>4 DEF from
<1>5. Faithful(l, g, North(l, g, i))
  <2>1. CASE LocalRow(l, i) # 0 BY <2>1, NothingIsFaithful DEF North
  <2>2. CASE LocalRow(l, i) = 0
    <3> DEFINE D == - l.range .. -1
    <3>1. D \subseteq Int /\ \A a \in D : a + LocalRow(l, i) + l.range \in 0 .. TileWidth(l) - 1
      BY <1>1, <2>2
    <3>2. North(l, g, i) = CopiedAt(l, i, [o \in D \X {0} |-> Global(l, In, g, i, o[1], 0)])
      BY <2>2 DEF North
    <3> HIDE DEF D
    <3> QED BY <1>4, <3>1, <3>2
  <2> QED BY <2>1, <2>2
<1>6. Faithful(l, g, South(l, g, i))
  <2>1. CASE LocalRow(l, i) # l.side - 1 BY <2>1, NothingIsFaithful DEF South
  <2>2. CASE LocalRow(l, i) = l.side - 1
    <3> DEFINE D == 1 .. l.range
    <3>1. D \subseteq Int /\ \A a \in D : a + LocalRow(l, i) + l.range \in 0 .. TileWidth(l) - 1
      BY <1>1, <2>2
    <3>2. South(l, g, i) = CopiedAt(l, i, [o \in D \X {0} |-> Global(l, In, g, i, o[1], 0)])
      BY <2>2 DEF South
    <3> HIDE DEF D
    <3> QED BY <1>4, <3>1, <3>2
  <2> QED BY <2>1, <2>2
<1> QED BY <1>5, <1>6

-----------------------------------------------------------------------------
\* A column beside the tile, from the items of its second row.
CopiesColumn(l, g, i, b, from) ==
  /\ DOMAIN from = Rows(l) \X {b}
  /\ \A o \in Rows(l) \X {b} : \A v, u \in Nat :
       v = o[1] + LocalRow(l, i) + l.range /\ u = l.range + LocalColumn(l, i) + b
       => from[o] = PlaceOfSpot(l, g, v, u)

LEMMA SideIsFaithful ==
  ASSUME NEW l, Tiled(l), NEW g \in GroupOf(l), NEW i \in ItemOf(l), LocalRow(l, i) = 1,
         NEW b \in Int, l.range + LocalColumn(l, i) + b \in 0 .. TileWidth(l) - 1,
         NEW from, CopiesColumn(l, g, i, b, from)
  PROVE  Faithful(l, g, CopiedAt(l, i, from))
<1>1. /\ l.range \in Nat /\ l.side \in Nat /\ TileWidth(l) = l.side + 2 * l.range
  BY DEF Tiled, Positive, TileWidth
<1>2. LocalColumn(l, i) \in Nat
  <2>1. LocalColumn(l, i) \in 0 .. l.side - 1 BY TileCoordinates
  <2> QED BY <1>1, <2>1
<1>3. \A a \in Rows(l) : a \in Int /\ a + LocalRow(l, i) + l.range \in 0 .. TileWidth(l) - 1
  BY <1>1 DEF Rows
<1>4. \A o \in Rows(l) \X {b} : o[1] \in Rows(l) /\ o[2] = b /\ o = <<o[1], o[2]>> OBVIOUS
<1>5. DOMAIN from \subseteq Int \X Int
  <2> SUFFICES ASSUME NEW o \in Rows(l) \X {b} PROVE o \in Int \X Int BY DEF CopiesColumn
  <2>1. o = <<o[1], o[2]>> BY <1>4
  <2>2. o[1] \in Int BY <1>3, <1>4
  <2>3. o[2] \in Int BY <1>4
  <2> QED BY <2>1, <2>2, <2>3
<1>6. ASSUME NEW o \in DOMAIN from PROVE CopiesPlace(l, g, i, from, o)
  <2> DEFINE v == o[1] + LocalRow(l, i) + l.range
             u == l.range + LocalColumn(l, i) + o[2]
  <2>1. o \in Rows(l) \X {b} BY <1>6 DEF CopiesColumn
  <2>2. o[1] \in Rows(l) /\ o[2] = b BY <1>4, <2>1
  <2>3. v \in 0 .. TileWidth(l) - 1 /\ u \in 0 .. TileWidth(l) - 1 BY <1>3, <2>2
  <2>4. v = o[1] + LocalRow(l, i) + l.range /\ u = l.range + LocalColumn(l, i) + b
        /\ u = l.range + LocalColumn(l, i) + o[2]
    BY <2>2
  <2> HIDE DEF v, u
  <2>5. v \in Nat /\ u \in Nat BY <2>3
  <2>6. from[o] = PlaceOfSpot(l, g, v, u) BY <2>1, <2>4, <2>5 DEF CopiesColumn
  <2> QED BY <2>3, <2>4, <2>6 DEF CopiesPlace
<1> QED BY <1>5, <1>6, CopiedIsFaithful

\* The columns on the left and on the right, of any item.
PaddedWest(l, g, i) ==
  [o \in Rows(l) \X {- l.range} |-> Padding(l, g, i, o[1], - Column(l, g, i))]
BesideWest(l, g, i) ==
  [o \in Rows(l) \X {- l.range} |-> Global(l, In, g, i, o[1], - l.range)]
PaddedEast(l, g, i) ==
  [o \in Rows(l) \X {l.range} |-> Padding(l, g, i, o[1], l.cols - Column(l, g, i) - 1)]
BesideEast(l, g, i) ==
  [o \in Rows(l) \X {l.range} |-> Global(l, In, g, i, o[1], l.range)]

LEMMA WestIs ==
  ASSUME NEW l, Tiled(l), l.cols = l.across * l.side, NEW g \in GroupOf(l), NEW i \in ItemOf(l)
  PROVE  /\ LocalRow(l, i) # 1 => West(l, g, i) = Nothing
         /\ LocalRow(l, i) = 1 /\ Column(l, g, i) < l.range =>
              West(l, g, i) = CopiedAt(l, i, PaddedWest(l, g, i))
         /\ LocalRow(l, i) = 1 /\ ~ (Column(l, g, i) < l.range) /\ LocalColumn(l, i) < l.range =>
              West(l, g, i) = CopiedAt(l, i, BesideWest(l, g, i))
         /\ LocalRow(l, i) = 1 /\ ~ (Column(l, g, i) < l.range) /\ ~ (LocalColumn(l, i) < l.range)
              => West(l, g, i) = Nothing
<1> DEFINE k == Column(l, g, i)
           f1 == CopiedAt(l, i, PaddedWest(l, g, i))
           f2 == CopiedAt(l, i, BesideWest(l, g, i))
<1>1. West(l, g, i) =
        CASE LocalRow(l, i) # 1 \/ k >= l.cols -> Nothing
          [] LocalRow(l, i) = 1 /\ k < l.cols /\ k < l.range -> f1
          [] LocalRow(l, i) = 1 /\ k \in l.range .. l.cols - 1 ->
               IF LocalColumn(l, i) < l.range THEN f2 ELSE Nothing
  BY DEF West, PaddedWest, BesideWest
<1>2. k \in 0 .. l.cols - 1 /\ l.range \in Nat /\ l.cols \in Nat
  BY ColumnInside DEF Tiled, Positive
<1> HIDE DEF f1, f2, k
<1>3. k < l.cols /\ ~ (k >= l.cols) /\ (~ (k < l.range) <=> k \in l.range .. l.cols - 1) BY <1>2
<1>4. CASE LocalRow(l, i) # 1 BY <1>1, <1>4
<1>5. CASE LocalRow(l, i) = 1 /\ k < l.range
  <2>1. West(l, g, i) = f1 BY <1>1, <1>3, <1>5
  <2> QED BY <1>5, <2>1 DEF k, f1
<1>6. CASE LocalRow(l, i) = 1 /\ ~ (k < l.range)
  <2>1. West(l, g, i) = IF LocalColumn(l, i) < l.range THEN f2 ELSE Nothing
    BY <1>1, <1>3, <1>6
  <2> QED BY <1>6, <2>1 DEF k, f2
<1> QED BY <1>4, <1>5, <1>6

LEMMA EastIs ==
  ASSUME NEW l, Tiled(l), l.cols = l.across * l.side, l.range <= l.side, l.range <= l.cols,
         NEW g \in GroupOf(l), NEW i \in ItemOf(l)
  PROVE  LET last   == Column(l, g, i) >= l.cols - l.range
             inside == LocalColumn(l, i) >= l.side - l.range
         IN  /\ LocalRow(l, i) # 1 => East(l, g, i) = Nothing
             /\ LocalRow(l, i) = 1 /\ last =>
                  East(l, g, i) = CopiedAt(l, i, PaddedEast(l, g, i))
             /\ LocalRow(l, i) = 1 /\ ~ last /\ inside =>
                  East(l, g, i) = CopiedAt(l, i, BesideEast(l, g, i))
             /\ LocalRow(l, i) = 1 /\ ~ last /\ ~ inside => East(l, g, i) = Nothing
<1> DEFINE k == Column(l, g, i)
           last == k >= l.cols - l.range
           inside == LocalColumn(l, i) >= l.side - l.range
           f1 == CopiedAt(l, i, PaddedEast(l, g, i))
           f2 == CopiedAt(l, i, BesideEast(l, g, i))
<1>1. East(l, g, i) =
        CASE LocalRow(l, i) # 1 \/ k >= l.cols -> Nothing
          [] LocalRow(l, i) = 1 /\ k < l.cols /\ (l.range <= l.cols /\ last) -> f1
          [] LocalRow(l, i) = 1 /\ k < l.cols /\ ~ (l.range <= l.cols /\ last) ->
               IF l.range <= l.side /\ inside THEN f2 ELSE Nothing
  BY DEF East, PaddedEast, BesideEast
<1>2. k \in 0 .. l.cols - 1 /\ l.range \in Nat /\ l.cols \in Nat
  BY ColumnInside DEF Tiled, Positive
<1>3. k < l.cols /\ ~ (k >= l.cols) BY <1>2
<1> HIDE DEF f1, f2, k, last, inside
<1>4. CASE LocalRow(l, i) # 1 BY <1>1, <1>4
<1>5. CASE LocalRow(l, i) = 1 /\ last BY <1>1, <1>3, <1>5 DEF k, f1, last
<1>6. CASE LocalRow(l, i) = 1 /\ ~ last
  <2>1. East(l, g, i) = IF inside THEN f2 ELSE Nothing
    BY <1>1, <1>3, <1>6
  <2> QED BY <1>6, <2>1 DEF k, f2, last, inside
<1> QED BY <1>4, <1>5, <1>6 DEF k, last, inside

LEMMA WestIsFaithful ==
  ASSUME NEW l, Tiled(l), l.cols = l.across * l.side, l.neutral \in BOOLEAN,
         NEW g \in GroupOf(l), NEW i \in ItemOf(l)
  PROVE  Faithful(l, g, West(l, g, i))
<1> DEFINE k == Column(l, g, i)
           b == - l.range
<1>1. /\ l.range \in Nat /\ l.range > 0 /\ l.side \in Nat /\ l.cols \in Nat
      /\ TileWidth(l) = l.side + 2 * l.range
  BY DEF Tiled, Positive, TileWidth
<1>2. k \in 0 .. l.cols - 1 BY ColumnInside
<1>3. LocalColumn(l, i) \in 0 .. l.side - 1 BY TileCoordinates
<1>4. b \in Int /\ l.range + LocalColumn(l, i) + b \in 0 .. TileWidth(l) - 1 BY <1>1, <1>3
<1>5. \A o \in Rows(l) \X {b} : o[1] \in Int BY <1>1 DEF Rows
<1>6. CASE LocalRow(l, i) = 1 /\ k < l.range
  <2> DEFINE from == PaddedWest(l, g, i)
  <2>1. DOMAIN from = Rows(l) \X {b} /\ \A o \in Rows(l) \X {b} : from[o] = Padding(l, g, i, o[1], - k)
    BY DEF PaddedWest
  <2>2. k + b < 0 BY <1>1, <1>2, <1>6
  <2>3. West(l, g, i) = CopiedAt(l, i, from) BY <1>6, WestIs
  <2> HIDE DEF from, k, b
  <2>4. ASSUME NEW o \in Rows(l) \X {b}, NEW v \in Nat, NEW u \in Nat,
               v = o[1] + LocalRow(l, i) + l.range, u = l.range + LocalColumn(l, i) + b
        PROVE  from[o] = PlaceOfSpot(l, g, v, u)
    <3> DEFINE a == o[1]
    <3>1. a \in Int /\ from[o] = Padding(l, g, i, a, - k) BY <1>5, <2>1
    <3>2. v = a + LocalRow(l, i) + l.range /\ u = l.range + LocalColumn(l, i) + b BY <2>4
    <3> HIDE DEF a
    <3>3. Padding(l, g, i, a, - k) = PlaceOfSpot(l, g, v, u)
      BY <1>4, <2>2, <3>1, <3>2, PlaceSeen DEF k
    <3> QED BY <3>1, <3>3
  <2>5. CopiesColumn(l, g, i, b, from) BY <2>1, <2>4 DEF CopiesColumn
  <2> QED BY <1>4, <1>6, <2>3, <2>5, SideIsFaithful
<1>7. CASE LocalRow(l, i) = 1 /\ ~ (k < l.range) /\ LocalColumn(l, i) < l.range
  <2> DEFINE from == BesideWest(l, g, i)
  <2>1. DOMAIN from = Rows(l) \X {b} /\ \A o \in Rows(l) \X {b} : from[o] = Global(l, In, g, i, o[1], b)
    BY DEF BesideWest
  <2>2. k + b \in 0 .. l.cols - 1 BY <1>1, <1>2, <1>7
  <2>3. West(l, g, i) = CopiedAt(l, i, from) BY <1>7, WestIs
  <2> HIDE DEF from, k, b
  <2>4. ASSUME NEW o \in Rows(l) \X {b}, NEW v \in Nat, NEW u \in Nat,
               v = o[1] + LocalRow(l, i) + l.range, u = l.range + LocalColumn(l, i) + b
        PROVE  from[o] = PlaceOfSpot(l, g, v, u)
    <3> DEFINE a == o[1]
    <3>1. a \in Int /\ from[o] = Global(l, In, g, i, a, b) BY <1>5, <2>1
    <3>2. v = a + LocalRow(l, i) + l.range /\ u = l.range + LocalColumn(l, i) + b BY <2>4
    <3> HIDE DEF a
    <3>3. Global(l, In, g, i, a, b) = PlaceOfSpot(l, g, v, u)
      BY <1>4, <2>2, <3>1, <3>2, PlaceSeen DEF k
    <3> QED BY <3>1, <3>3
  <2>5. CopiesColumn(l, g, i, b, from) BY <2>1, <2>4 DEF CopiesColumn
  <2> QED BY <1>4, <1>7, <2>3, <2>5, SideIsFaithful
<1>8. CASE LocalRow(l, i) # 1 \/ (~ (k < l.range) /\ ~ (LocalColumn(l, i) < l.range))
  BY <1>8, WestIs, NothingIsFaithful
<1> QED BY <1>6, <1>7, <1>8

LEMMA EastIsFaithful ==
  ASSUME NEW l, Tiled(l), l.cols = l.across * l.side, l.neutral \in BOOLEAN,
         l.range <= l.side, l.range <= l.cols, NEW g \in GroupOf(l), NEW i \in ItemOf(l)
  PROVE  Faithful(l, g, East(l, g, i))
<1> DEFINE k == Column(l, g, i)
           b == l.range
           last == k >= l.cols - l.range
           inside == LocalColumn(l, i) >= l.side - l.range
<1>1. /\ l.range \in Nat /\ l.range > 0 /\ l.side \in Nat /\ l.cols \in Nat
      /\ TileWidth(l) = l.side + 2 * l.range
  BY DEF Tiled, Positive, TileWidth
<1>2. k \in 0 .. l.cols - 1 BY ColumnInside
<1>3. LocalColumn(l, i) \in 0 .. l.side - 1 BY TileCoordinates
<1>4. b \in Int /\ l.range + LocalColumn(l, i) + b \in 0 .. TileWidth(l) - 1 BY <1>1, <1>3
<1>5. \A o \in Rows(l) \X {b} : o[1] \in Int BY <1>1 DEF Rows
<1>6. CASE LocalRow(l, i) = 1 /\ last
  <2> DEFINE from == PaddedEast(l, g, i)
  <2>1. DOMAIN from = Rows(l) \X {b}
        /\ \A o \in Rows(l) \X {b} : from[o] = Padding(l, g, i, o[1], l.cols - k - 1)
    BY DEF PaddedEast
  <2>2. k + b >= l.cols BY <1>1, <1>2, <1>6
  <2>3. East(l, g, i) = CopiedAt(l, i, from) BY <1>6, EastIs
  <2> HIDE DEF from, k, b
  <2>4. ASSUME NEW o \in Rows(l) \X {b}, NEW v \in Nat, NEW u \in Nat,
               v = o[1] + LocalRow(l, i) + l.range, u = l.range + LocalColumn(l, i) + b
        PROVE  from[o] = PlaceOfSpot(l, g, v, u)
    <3> DEFINE a == o[1]
    <3>1. a \in Int /\ from[o] = Padding(l, g, i, a, l.cols - k - 1) BY <1>5, <2>1
    <3>2. v = a + LocalRow(l, i) + l.range /\ u = l.range + LocalColumn(l, i) + b BY <2>4
    <3> HIDE DEF a
    <3>3. Padding(l, g, i, a, l.cols - k - 1) = PlaceOfSpot(l, g, v, u)
      BY <1>4, <2>2, <3>1, <3>2, PlaceSeen DEF k
    <3> QED BY <3>1, <3>3
  <2>5. CopiesColumn(l, g, i, b, from) BY <2>1, <2>4 DEF CopiesColumn
  <2> QED BY <1>4, <1>6, <2>3, <2>5, SideIsFaithful
<1>7. CASE LocalRow(l, i) = 1 /\ ~ last /\ inside
  <2> DEFINE from == BesideEast(l, g, i)
  <2>1. DOMAIN from = Rows(l) \X {b} /\ \A o \in Rows(l) \X {b} : from[o] = Global(l, In, g, i, o[1], b)
    BY DEF BesideEast
  <2>2. k + b \in 0 .. l.cols - 1 BY <1>1, <1>2, <1>7
  <2>3. East(l, g, i) = CopiedAt(l, i, from) BY <1>7, EastIs
  <2> HIDE DEF from, k, b
  <2>4. ASSUME NEW o \in Rows(l) \X {b}, NEW v \in Nat, NEW u \in Nat,
               v = o[1] + LocalRow(l, i) + l.range, u = l.range + LocalColumn(l, i) + b
        PROVE  from[o] = PlaceOfSpot(l, g, v, u)
    <3> DEFINE a == o[1]
    <3>1. a \in Int /\ from[o] = Global(l, In, g, i, a, b) BY <1>5, <2>1
    <3>2. v = a + LocalRow(l, i) + l.range /\ u = l.range + LocalColumn(l, i) + b BY <2>4
    <3> HIDE DEF a
    <3>3. Global(l, In, g, i, a, b) = PlaceOfSpot(l, g, v, u)
      BY <1>4, <2>2, <3>1, <3>2, PlaceSeen DEF k
    <3> QED BY <3>1, <3>3
  <2>5. CopiesColumn(l, g, i, b, from) BY <2>1, <2>4 DEF CopiesColumn
  <2> QED BY <1>4, <1>7, <2>3, <2>5, SideIsFaithful
<1>8. CASE LocalRow(l, i) # 1 \/ (~ last /\ ~ inside)
  BY <1>8, EastIs, NothingIsFaithful
<1> QED BY <1>6, <1>7, <1>8

\* The second phase.
LEMMA BorderIsFaithful ==
  ASSUME NEW l, Tiled(l), l.cols = l.across * l.side, l.neutral \in BOOLEAN,
         l.range <= l.side, l.range <= l.cols, NEW g \in GroupOf(l), NEW i \in ItemOf(l)
  PROVE  Faithful(l, g, Code(l, g, i, 1))
<1> DEFINE n == North(l, g, i)
           s == South(l, g, i)
           w == West(l, g, i)
           e == East(l, g, i)
<1>1. Code(l, g, i, 1) = Merged(Merged(e, w), Merged(s, n)) BY DEF Tiled, Code, OverlapCode
<1>2. Faithful(l, g, n) /\ Faithful(l, g, s) BY NorthIsFaithful
<1>3. Faithful(l, g, w) /\ Faithful(l, g, e) BY WestIsFaithful, EastIsFaithful
<1> HIDE DEF n, s, w, e
<1>4. Faithful(l, g, Merged(e, w)) /\ Faithful(l, g, Merged(s, n)) BY <1>2, <1>3, MergedIsFaithful
<1> QED BY <1>1, <1>4, MergedIsFaithful

-----------------------------------------------------------------------------
\* Who stores a cell of the tile.
LEMMA TileItemAt ==
  ASSUME NEW l, Tiled(l), NEW r \in 0 .. l.side - 1, NEW k \in 0 .. l.side - 1
  PROVE  \E i \in ItemOf(l) : LocalRow(l, i) = r /\ LocalColumn(l, i) = k
<1>1. l.side \in Positive /\ l.side \in Nat /\ l.items = l.side * l.side /\ r \in Nat
  BY DEF Tiled, Positive
<1> DEFINE i == r * l.side + k
<1>2. i \in 0 .. l.side * l.side - 1 BY <1>1, Place
<1>3. (l.side * r + k) \div l.side = r /\ (l.side * r + k) % l.side = k BY <1>1, Quotient
<1>4. l.side * r = r * l.side BY <1>1
<1>5. i \div l.side = r /\ i % l.side = k BY <1>3, <1>4
<1> HIDE DEF i
<1>6. i \in ItemOf(l) BY <1>1, <1>2 DEF ItemOf
<1> QED BY <1>5, <1>6 DEF LocalRow, LocalColumn

LEMMA CopiedStores ==
  ASSUME NEW l, Tiled(l), NEW g \in GroupOf(l), NEW i \in ItemOf(l), NEW from,
         NEW a \in Int, NEW b \in Int, <<a, b>> \in DOMAIN from
  PROVE  Spot(l, a + LocalRow(l, i) + l.range, l.range + LocalColumn(l, i) + b)
           \in DOMAIN CopiedAt(l, i, from)
<1> DEFINE o == <<a, b>>
<1>1. o[1] = a /\ o[2] = b OBVIOUS
<1>2. DOMAIN CopiedAt(l, i, from) = {Tile(l, i, d[1], d[2]) : d \in DOMAIN from} BY DEF CopiedAt
<1> HIDE DEF o
<1>3. Tile(l, i, o[1], o[2]) \in DOMAIN CopiedAt(l, i, from) BY <1>2 DEF o
<1>4. Tile(l, i, a, b) = Spot(l, a + LocalRow(l, i) + l.range, l.range + LocalColumn(l, i) + b)
  BY TileIsSpot
<1> QED BY <1>1, <1>3, <1>4

LEMMA BorderStores ==
  ASSUME NEW l, Tiled(l), NEW g \in GroupOf(l), NEW i \in ItemOf(l), NEW x,
         \/ x \in DOMAIN North(l, g, i) \/ x \in DOMAIN South(l, g, i)
         \/ x \in DOMAIN West(l, g, i) \/ x \in DOMAIN East(l, g, i)
  PROVE  StoredIn(l, g, 1, x)
<1> DEFINE n == North(l, g, i)
           s == South(l, g, i)
           w == West(l, g, i)
           e == East(l, g, i)
<1>1. Code(l, g, i, 1) = Merged(Merged(e, w), Merged(s, n)) BY DEF Tiled, Code, OverlapCode
<1>2. x \in DOMAIN n \/ x \in DOMAIN s \/ x \in DOMAIN w \/ x \in DOMAIN e OBVIOUS
<1>3. Phases(l, g, i) = 3 BY DEF Tiled, Phases, OnePhase, OverlapPhases
<1> HIDE DEF n, s, w, e
<1> DEFINE f == Merged(e, w)
           h == Merged(s, n)
<1>a. DOMAIN f = DOMAIN e \cup DOMAIN w BY CodeOfMerged
<1>b. DOMAIN h = DOMAIN s \cup DOMAIN n BY CodeOfMerged
<1>c. Code(l, g, i, 1) = Merged(f, h) BY <1>1
<1> HIDE DEF f, h
<1>d. DOMAIN Merged(f, h) = DOMAIN f \cup DOMAIN h BY CodeOfMerged
<1>6. x \in DOMAIN Code(l, g, i, 1) BY <1>2, <1>a, <1>b, <1>c, <1>d
<1>7. 1 < Phases(l, g, i) BY <1>3
<1> QED BY <1>6, <1>7 DEF StoredIn

LEMMA TileIsStored ==
  ASSUME NEW l, Tiled(l), l.cols = l.across * l.side, l.range <= l.side, l.range <= l.cols,
         l.side > 1, NEW g \in GroupOf(l),
         NEW v \in 0 .. TileWidth(l) - 1, NEW u \in 0 .. TileWidth(l) - 1
  PROVE  StoredIn(l, g, 0, Spot(l, v, u)) \/ StoredIn(l, g, 1, Spot(l, v, u))
<1>1. /\ l.range \in Nat /\ l.range > 0 /\ l.side \in Nat /\ l.cols \in Nat
      /\ TileWidth(l) = l.side + 2 * l.range
  BY DEF Tiled, Positive, TileWidth
<1>2. v \in Nat /\ u \in Nat /\ v < l.side + 2 * l.range /\ u < l.side + 2 * l.range BY <1>1
<1> DEFINE x == Spot(l, v, u)
<1>3. ASSUME NEW i \in ItemOf(l), NEW from, NEW a \in Int, NEW b \in Int, <<a, b>> \in DOMAIN from,
             v = a + LocalRow(l, i) + l.range, u = l.range + LocalColumn(l, i) + b
      PROVE  x \in DOMAIN CopiedAt(l, i, from)
  BY <1>3, CopiedStores
<1> HIDE DEF x
<1>4. CASE u < l.range
  <2>1. u \in 0 .. l.side - 1 /\ 1 \in 0 .. l.side - 1 BY <1>1, <1>2, <1>4
  <2>2. PICK i \in ItemOf(l) : LocalRow(l, i) = 1 /\ LocalColumn(l, i) = u BY <2>1, TileItemAt
  <2> DEFINE a == v - 1 - l.range
             b == - l.range
  <2>3. /\ a \in Int /\ b \in Int /\ a \in Rows(l) /\ b \in {b}
        /\ v = a + LocalRow(l, i) + l.range /\ u = l.range + LocalColumn(l, i) + b
    BY <1>1, <1>2, <2>2 DEF Rows
  <2>4. LocalColumn(l, i) < l.range BY <1>4, <2>2
  <2>5. /\ DOMAIN PaddedWest(l, g, i) = Rows(l) \X {b} /\ DOMAIN BesideWest(l, g, i) = Rows(l) \X {b}
    BY DEF PaddedWest, BesideWest
  <2> HIDE DEF a, b
  <2>6. <<a, b>> \in Rows(l) \X {b} BY <2>3
  <2>7. /\ x \in DOMAIN CopiedAt(l, i, PaddedWest(l, g, i))
        /\ x \in DOMAIN CopiedAt(l, i, BesideWest(l, g, i))
    BY <1>3, <2>3, <2>5, <2>6
  <2>8. \/ West(l, g, i) = CopiedAt(l, i, PaddedWest(l, g, i))
        \/ West(l, g, i) = CopiedAt(l, i, BesideWest(l, g, i))
    BY <2>2, <2>4, WestIs
  <2>9. x \in DOMAIN West(l, g, i) BY <2>7, <2>8
  <2> QED BY <2>9, BorderStores DEF x
<1>5. CASE u >= l.side + l.range
  <2> DEFINE k == u - 2 * l.range
  <2>1. k \in 0 .. l.side - 1 /\ 1 \in 0 .. l.side - 1 /\ k >= l.side - l.range
    BY <1>1, <1>2, <1>5
  <2>2. PICK i \in ItemOf(l) : LocalRow(l, i) = 1 /\ LocalColumn(l, i) = k BY <2>1, TileItemAt
  <2> DEFINE a == v - 1 - l.range
             b == l.range
  <2>3. /\ a \in Int /\ b \in Int /\ a \in Rows(l) /\ b \in {b}
        /\ v = a + LocalRow(l, i) + l.range /\ u = l.range + LocalColumn(l, i) + b
    BY <1>1, <1>2, <2>2 DEF Rows
  <2>4. LocalColumn(l, i) >= l.side - l.range BY <2>1, <2>2
  <2>5. /\ DOMAIN PaddedEast(l, g, i) = Rows(l) \X {b} /\ DOMAIN BesideEast(l, g, i) = Rows(l) \X {b}
    BY DEF PaddedEast, BesideEast
  <2> HIDE DEF a, b
  <2>6. <<a, b>> \in Rows(l) \X {b} BY <2>3
  <2>7. /\ x \in DOMAIN CopiedAt(l, i, PaddedEast(l, g, i))
        /\ x \in DOMAIN CopiedAt(l, i, BesideEast(l, g, i))
    BY <1>3, <2>3, <2>5, <2>6
  <2>8. \/ East(l, g, i) = CopiedAt(l, i, PaddedEast(l, g, i))
        \/ East(l, g, i) = CopiedAt(l, i, BesideEast(l, g, i))
    BY <2>2, <2>4, EastIs
  <2>9. x \in DOMAIN East(l, g, i) BY <2>7, <2>8
  <2> QED BY <2>9, BorderStores DEF x
<1>6. CASE ~ (u < l.range) /\ ~ (u >= l.side + l.range)
  <2> DEFINE k == u - l.range
             b == 0
  <2>1. k \in 0 .. l.side - 1 BY <1>1, <1>2, <1>6
  <2>2. CASE v < l.range
    <3>1. 0 \in 0 .. l.side - 1 BY <1>1
    <3>2. PICK i \in ItemOf(l) : LocalRow(l, i) = 0 /\ LocalColumn(l, i) = k
      BY <2>1, <3>1, TileItemAt
    <3> DEFINE a == v - l.range
               from == [o \in (- l.range .. -1) \X {0} |-> Global(l, In, g, i, o[1], 0)]
    <3>3. /\ a \in Int /\ b \in Int /\ a \in - l.range .. -1
          /\ v = a + LocalRow(l, i) + l.range /\ u = l.range + LocalColumn(l, i) + b
      BY <1>1, <1>2, <2>2, <3>2
    <3>4. DOMAIN from = (- l.range .. -1) \X {b} OBVIOUS
    <3>5. North(l, g, i) = CopiedAt(l, i, from) BY <3>2 DEF North
    <3> HIDE DEF a, b, from
    <3>6. <<a, b>> \in DOMAIN from BY <3>3, <3>4
    <3>7. x \in DOMAIN North(l, g, i) BY <1>3, <3>3, <3>5, <3>6
    <3> QED BY <3>7, BorderStores DEF x
  <2>3. CASE v >= l.side + l.range
    <3>1. l.side - 1 \in 0 .. l.side - 1 BY <1>1
    <3>2. PICK i \in ItemOf(l) : LocalRow(l, i) = l.side - 1 /\ LocalColumn(l, i) = k
      BY <2>1, <3>1, TileItemAt
    <3> DEFINE a == v - l.range - (l.side - 1)
               from == [o \in (1 .. l.range) \X {0} |-> Global(l, In, g, i, o[1], 0)]
    <3>3. /\ a \in Int /\ b \in Int /\ a \in 1 .. l.range
          /\ v = a + LocalRow(l, i) + l.range /\ u = l.range + LocalColumn(l, i) + b
      BY <1>1, <1>2, <2>3, <3>2
    <3>4. DOMAIN from = (1 .. l.range) \X {b} OBVIOUS
    <3>5. South(l, g, i) = CopiedAt(l, i, from) BY <3>2 DEF South
    <3> HIDE DEF a, b, from
    <3>6. <<a, b>> \in DOMAIN from BY <3>3, <3>4
    <3>7. x \in DOMAIN South(l, g, i) BY <1>3, <3>3, <3>5, <3>6
    <3> QED BY <3>7, BorderStores DEF x
  <2>4. CASE ~ (v < l.range) /\ ~ (v >= l.side + l.range)
    <3> DEFINE r == v - l.range
    <3>1. r \in 0 .. l.side - 1 BY <1>1, <1>2, <2>4
    <3>2. PICK i \in ItemOf(l) : LocalRow(l, i) = r /\ LocalColumn(l, i) = k
      BY <2>1, <3>1, TileItemAt
    <3>3. LocalRow(l, i) + l.range = v /\ l.range + LocalColumn(l, i) = u BY <1>1, <1>2, <3>2
    <3>4. x \in DOMAIN Code(l, g, i, 0)
      <4>1. DOMAIN Code(l, g, i, 0) = {Spot(l, LocalRow(l, i) + l.range, l.range + LocalColumn(l, i))}
        BY TileLoads
      <4> QED BY <3>3, <4>1 DEF x
    <3>5. Phases(l, g, i) = 3 BY DEF Tiled, Phases, OnePhase, OverlapPhases
    <3>6. 0 < Phases(l, g, i) BY <3>5
    <3>7. StoredIn(l, g, 0, x) BY <3>4, <3>6 DEF StoredIn
    <3> QED BY <3>7 DEF x
  <2> QED BY <2>2, <2>3, <2>4
<1> QED BY <1>4, <1>5, <1>6

-----------------------------------------------------------------------------
\* What is seen in a row y and a column x of a tile is what the tile has there.
LEMMA OverlayTiled ==
  ASSUME NEW c, NEW l, Overlays(c, l)
  PROVE  /\ Tiled(l) /\ l.cols = l.across * l.side /\ l.neutral \in BOOLEAN
         /\ l.range <= l.side /\ l.range <= l.cols /\ l.side > 1 /\ l.out = Out
         /\ Launches(c)[1] = l /\ Only(c, l)
         /\ \A g, i : Phases(l, g, i) = 3
         /\ ~ OnePhase(l) /\ c.skeleton = "overlap"
<1>1. Tiled(l) /\ l.kernel = "SCL_MAPOVERLAP" BY DEF Overlays, Tiled
<1>2. ~ OnePhase(l) /\ \A g, i : Phases(l, g, i) = 3 BY <1>1 DEF Phases, OnePhase, OverlapPhases
<1> QED BY <1>1, <1>2, OverlayFacts DEF Overlays

LEMMA OverlapWritten ==
  ASSUME NEW c, NEW l, Overlays(c, l), NEW g, NEW x
  PROVE  /\ Written(c, 1, g, 0, x) = <<TileLabel(c, l, g, x[2])>>
         /\ Written(c, 1, g, 1, x) = <<TileLabel(c, l, g, x[2])>>
         /\ Written(c, 1, g, 2, x) = Overlap_Result(c, x)
         /\ Result(c, 1, x) = Overlap_Result(c, x)
<1>1. Launches(c)[1] = l /\ ~ OnePhase(l) /\ c.skeleton = "overlap" BY OverlayTiled
<1>2. \A p : Written(c, 1, g, p, x) = Overlap_Written(c, l, g, p, x) BY <1>1 DEF Written
<1>3. \A p : Overlap_Written(c, l, g, p, x) =
               IF p = 2 THEN Overlap_Result(c, x) ELSE <<TileLabel(c, l, g, x[2])>>
  BY DEF Overlap_Written
<1>4. Result(c, 1, x) = Overlap_Result(c, x) BY <1>1 DEF Result
<1> QED BY <1>2, <1>3, <1>4

\* The label of a spot.
SpotLabel(c, l, g, v, u) == SeenLabel(c, FirstRow(l, g) + v, FirstColumn(l, g) + u - l.range)

LEMMA SpotLabels ==
  ASSUME NEW c, NEW l, Overlays(c, l), NEW g \in GroupOf(l),
         NEW v \in 0 .. TileWidth(l) - 1, NEW u \in 0 .. TileWidth(l) - 1
  PROVE  /\ TileLabel(c, l, g, Spot(l, v, u)[2]) = SpotLabel(c, l, g, v, u)
         /\ FirstFound(c, 1, PlaceOfSpot(l, g, v, u)) = <<SpotLabel(c, l, g, v, u)>>
         /\ PlaceOfSpot(l, g, v, u) \in {In, Constants} \X Int
         /\ SpotLabel(c, l, g, v, u) \in Int
<1>1. Tiled(l) BY OverlayTiled
<1> DEFINE n == Spot(l, v, u)[2]
           W == TileWidth(l)
<1>2. n \div W = v /\ n % W = u BY <1>1, SpotBack
<1>3. TileLabel(c, l, g, n) = SeenLabel(c, FirstRow(l, g) + n \div W, FirstColumn(l, g) + (n % W) - l.range)
  BY DEF TileLabel, FirstRow, FirstColumn
<1> DEFINE a == n \div W
           b == n % W
<1>4. TileLabel(c, l, g, n) = SeenLabel(c, FirstRow(l, g) + a, FirstColumn(l, g) + b - l.range)
  BY <1>3
<1>5. a = v /\ b = u BY <1>2
<1> HIDE DEF n, a, b
<1>6. TileLabel(c, l, g, n) = SpotLabel(c, l, g, v, u) BY <1>4, <1>5 DEF SpotLabel
<1> DEFINE y == FirstRow(l, g) + v
           x == FirstColumn(l, g) + u - l.range
<1>7. y \in Nat /\ x \in Int
  <2>1. l.side \in Nat /\ l.side > 0 /\ l.range \in Nat /\ W = l.side + 2 * l.range
    BY <1>1 DEF Tiled, Positive, TileWidth
  <2>2. 0 \in 0 .. l.side - 1 BY <2>1
  <2>3. PICK i \in ItemOf(l) : LocalRow(l, i) = 0 BY <1>1, <2>2, TileItemAt
  <2>4. FirstRow(l, g) \in Nat /\ FirstColumn(l, g) \in Nat BY <1>1, <2>3, FirstOfTile
  <2> QED BY <2>1, <2>4
<1> HIDE DEF y, x
<1>8. /\ FirstFound(c, 1, SourceOf(l, y, x)) = <<SeenLabel(c, y, x)>>
      /\ SourceOf(l, y, x) \in {In, Constants} \X Int
      /\ SeenLabel(c, y, x) \in Int
  BY <1>7, SourceLabels
<1>9. PlaceOfSpot(l, g, v, u) = SourceOf(l, y, x) /\ SpotLabel(c, l, g, v, u) = SeenLabel(c, y, x)
  BY DEF PlaceOfSpot, SpotLabel, y, x
<1> QED BY <1>6, <1>8, <1>9 DEF n

\* The first two phases store in the tile, and the last in the output.
LEMMA OverlapStoredIn ==
  ASSUME NEW l, Tiled(l), l.cols = l.across * l.side, l.neutral \in BOOLEAN,
         l.range <= l.side, l.range <= l.cols, NEW g \in GroupOf(l), NEW x, NEW p \in Nat,
         StoredIn(l, g, p, x)
  PROVE  /\ p \in {0, 1, 2}
         /\ p \in {0, 1} => x[1] = Shared
         /\ p = 2 => x[1] = l.out
<1>1. PICK i \in ItemOf(l) : p < Phases(l, g, i) /\ x \in DOMAIN Code(l, g, i, p) BY DEF StoredIn
<1>2. Phases(l, g, i) = 3 BY DEF Tiled, Phases, OnePhase, OverlapPhases
<1>3. p \in {0, 1, 2} BY <1>1, <1>2
<1>4. \A code : DOMAIN code \subseteq Touched(code) BY DEF Touched
<1>5. CASE p = 2
  <2>1. x = <<l.out, OutPlace(l, g, i)>> BY <1>1, <1>4, <1>5, StencilStores
  <2> QED BY <1>3, <1>5, <2>1
<1>6. CASE p \in {0, 1}
  <2>1. Faithful(l, g, Code(l, g, i, p)) BY <1>6, CentreIsFaithful, BorderIsFaithful
  <2>2. PICK v \in 0 .. TileWidth(l) - 1, u \in 0 .. TileWidth(l) - 1 : x = Spot(l, v, u)
    BY <1>1, <2>1 DEF Faithful
  <2>3. x[1] = Shared BY <2>2, SpotBack
  <2>4. p # 2 BY <1>6
  <2> QED BY <1>3, <2>3, <2>4
<1> QED BY <1>3, <1>5, <1>6

\* What is not stored is found as it was.
LEMMA FoundOfMatrix ==
  ASSUME NEW c, NEW l, Overlays(c, l), NEW g \in GroupOf(l), NEW p \in {0, 1},
         NEW y \in {In, Constants} \X Int
  PROVE  Found(c, 1, g, p, y) = FirstFound(c, 1, y)
<1> DEFINE one == 1
<1>1. Launches(c)[one] = l BY OverlayTiled
<1>2. /\ Tiled(l) /\ l.cols = l.across * l.side /\ l.neutral \in BOOLEAN
      /\ l.range <= l.side /\ l.range <= l.cols
  BY OverlayTiled
<1> HIDE DEF one
<1>3. y[1] # Shared
  <2>1. y[1] \in {In, Constants} OBVIOUS
  <2> QED BY <2>1 DEF In, Constants, Shared
<1>4. \A q \in 0 .. p - 1 : ~ StoredIn(l, g, q, y)
  <2>1. \A q \in 0 .. p - 1 : q \in Nat /\ q \in {0, 1} OBVIOUS
  <2> QED BY <1>2, <1>3, <2>1, OverlapStoredIn
<1>5. p \in Nat OBVIOUS
<1>6. Found(c, one, g, p, y) = FirstFound(c, one, y) BY <1>1, <1>3, <1>4, <1>5, FoundUntouched
<1> QED BY <1>6 DEF one

\* The tile is complete when the function is applied.
LEMMA FoundInTile ==
  ASSUME NEW c, NEW l, Overlays(c, l), NEW g \in GroupOf(l),
         NEW v \in 0 .. TileWidth(l) - 1, NEW u \in 0 .. TileWidth(l) - 1
  PROVE  Found(c, 1, g, 2, Spot(l, v, u)) = <<SpotLabel(c, l, g, v, u)>>
<1> DEFINE one == 1
           two == 2
           x == Spot(l, v, u)
<1>1. Launches(c)[one] = l BY OverlayTiled
<1>2. /\ Tiled(l) /\ l.cols = l.across * l.side /\ l.neutral \in BOOLEAN
      /\ l.range <= l.side /\ l.range <= l.cols /\ l.side > 1
  BY OverlayTiled
<1>3. StoredIn(l, g, 0, x) \/ StoredIn(l, g, 1, x) BY <1>2, TileIsStored
<1>4. x[1] = Shared /\ x[2] \in 0 .. l.local - 1 BY <1>2, Spots
<1>5. /\ Written(c, 1, g, 0, x) = <<SpotLabel(c, l, g, v, u)>>
      /\ Written(c, 1, g, 1, x) = <<SpotLabel(c, l, g, v, u)>>
  BY OverlapWritten, SpotLabels
<1> HIDE DEF x, one, two
<1>6. Within(c, Launches(c)[one], x) BY <1>1, <1>4 DEF Within
<1>7. PICK q \in {0, 1} : StoredIn(l, g, q, x) /\ \A r \in q + 1 .. two - 1 : ~ StoredIn(l, g, r, x)
  <2>1. CASE StoredIn(l, g, 1, x)
    <3>1. 1 + 1 .. two - 1 = {} BY DEF two
    <3> QED BY <2>1, <3>1
  <2>2. CASE ~ StoredIn(l, g, 1, x)
    <3>1. \A r \in 0 + 1 .. two - 1 : r = 1 BY DEF two
    <3> QED BY <1>3, <2>2, <3>1
  <2> QED BY <2>1, <2>2
<1>8. two \in Nat /\ q \in 0 .. two - 1 BY <1>7 DEF two
<1>9. Found(c, one, g, two, x) = Written(c, one, g, q, x)
  BY <1>1, <1>6, <1>7, <1>8, FoundWritten
<1>10. Written(c, one, g, q, x) = <<SpotLabel(c, l, g, v, u)>> BY <1>5, <1>7 DEF one
<1> QED BY <1>9, <1>10 DEF one, two, x

-----------------------------------------------------------------------------
\* The neighbourhood in the tile.
LEMMA WindowCells ==
  ASSUME NEW l, Tiled(l), NEW g \in GroupOf(l), NEW i \in ItemOf(l),
         NEW w, w = 2 * l.range + 1, NEW n \in 1 .. w * w
  PROVE  /\ (n - 1) \div w \in 0 .. w - 1 /\ (n - 1) % w \in 0 .. w - 1
         /\ LocalRow(l, i) + (n - 1) \div w \in 0 .. TileWidth(l) - 1
         /\ LocalColumn(l, i) + ((n - 1) % w) \in 0 .. TileWidth(l) - 1
         /\ Window(l, i)[n] = Spot(l, LocalRow(l, i) + (n - 1) \div w, LocalColumn(l, i) + ((n - 1) % w))
<1>1. /\ l.range \in Nat /\ l.side \in Nat /\ TileWidth(l) = l.side + 2 * l.range
      /\ w \in Nat /\ w \in Positive
  BY DEF Tiled, Positive, TileWidth
<1>2. LocalRow(l, i) \in 0 .. l.side - 1 /\ LocalColumn(l, i) \in 0 .. l.side - 1
  BY TileCoordinates
<1> DEFINE m == n - 1
           a == m \div w
           b == m % w
<1>3. m \in 0 .. w * w - 1
  <2> DEFINE ww == w * w
  <2>1. ww \in Nat BY <1>1, Times
  <2>2. n \in 1 .. ww OBVIOUS
  <2> HIDE DEF ww
  <2>3. n - 1 \in 0 .. ww - 1 BY <2>1, <2>2
  <2> QED BY <2>3 DEF ww
<1> HIDE DEF m
<1>4. a \in 0 .. w - 1 /\ b \in 0 .. w - 1 BY <1>1, <1>3, PlaceOf
<1>5. Window(l, i)[n] = Tile(l, i, a - l.range, b - l.range)
  <2>1. Window(l, i) = [k \in 1 .. w * w |->
          Tile(l, i, ((k - 1) \div w) - l.range, ((k - 1) % w) - l.range)]
    BY DEF Window
  <2> QED BY <2>1 DEF m
<1> HIDE DEF a, b
<1>6. Tile(l, i, a - l.range, b - l.range) =
        Spot(l, (a - l.range) + LocalRow(l, i) + l.range, l.range + LocalColumn(l, i) + (b - l.range))
  BY <1>1, <1>4, TileIsSpot
<1>7. /\ (a - l.range) + LocalRow(l, i) + l.range = LocalRow(l, i) + a
      /\ l.range + LocalColumn(l, i) + (b - l.range) = LocalColumn(l, i) + b
      /\ LocalRow(l, i) + a \in 0 .. TileWidth(l) - 1
      /\ LocalColumn(l, i) + b \in 0 .. TileWidth(l) - 1
  BY <1>1, <1>2, <1>4
<1> QED BY <1>4, <1>5, <1>6, <1>7 DEF a, b, m

\* The last phase writes the stencil.
LEMMA StencilWrites ==
  ASSUME NEW c, NEW l, Overlays(c, l), NEW g \in GroupOf(l), NEW i \in ItemOf(l),
         NEW x \in DOMAIN Code(l, g, i, 2)
  PROVE  IsWritten(c, g, 2, x, Code(l, g, i, 2)[x])
<1> DEFINE in == Row(l, g, i) < l.elements \div l.cols /\ Column(l, g, i) < l.cols
           at == Global(l, l.out, g, i, 0, 0)
           z == Window(l, i)
           f == Code(l, g, i, 2)
           w == 2 * l.range + 1
           ww == w * w
<1>1. Tiled(l) /\ l.cols = l.across * l.side BY OverlayTiled
<1>2. f = IF in THEN At(at, z) ELSE Nothing BY <1>1 DEF Tiled, Code, OverlapCode
<1>3. x \in DOMAIN f OBVIOUS
<1>4. x = <<l.out, OutPlace(l, g, i)>>
  <2>1. \A code : DOMAIN code \subseteq Touched(code) BY DEF Touched
  <2> QED BY <1>1, <2>1, StencilStores
<1>5. DOMAIN z = 1 .. ww BY DEF Window
<1> HIDE DEF f, at, z, in
<1>6. f[x] = z
  <2>1. CASE in
    <3>1. f = At(at, z) BY <1>2, <2>1
    <3>2. DOMAIN At(at, z) = {at} /\ At(at, z)[at] = z BY CodeOfOne
    <3>3. x = at BY <1>3, <3>1, <3>2
    <3> QED BY <3>1, <3>2, <3>3
  <2>2. CASE ~ in
    <3>1. DOMAIN f = {} BY <1>2, <2>2, CodeOfNone
    <3> QED BY <1>3, <3>1
  <2> QED BY <2>1, <2>2
<1>7. /\ FirstRow(l, g) \in Nat /\ FirstColumn(l, g) \in Nat
      /\ Row(l, g, i) = FirstRow(l, g) + LocalRow(l, i)
      /\ Column(l, g, i) = FirstColumn(l, g) + LocalColumn(l, i)
      /\ LocalRow(l, i) \in 0 .. l.side - 1 /\ LocalColumn(l, i) \in 0 .. l.side - 1
  BY <1>1, FirstOfTile
<1>8. /\ l.range \in Nat /\ l.side \in Nat /\ l.cols \in Nat /\ l.cols \in Positive
      /\ w \in Nat /\ w = 2 * l.range + 1
  BY <1>1 DEF Tiled, Positive
<1>9. ww \in Nat BY <1>8, Times
<1> DEFINE y == Row(l, g, i) + l.range
           k == Column(l, g, i)
           label(n) == SeenLabel(c, y + (n - 1) \div w - l.range, k + ((n - 1) % w) - l.range)
<1>10. y \in Nat /\ k \in 0 .. l.cols - 1
  <2>1. k \in 0 .. l.cols - 1 BY <1>1, ColumnInside
  <2>2. Row(l, g, i) \in Nat BY <1>1, TileCoordinates
  <2> QED BY <1>8, <2>1, <2>2
<1>11. x[2] \div l.cols = y /\ x[2] % l.cols = k
  <2> HIDE DEF y, k
  <2>1. x[2] = y * l.cols + k BY <1>4 DEF OutPlace, y, k
  <2>2. y * l.cols = l.cols * y BY <1>8, <1>10
  <2>3. (l.cols * y + k) \div l.cols = y /\ (l.cols * y + k) % l.cols = k BY <1>8, <1>10, Quotient
  <2> QED BY <2>1, <2>2, <2>3
<1>12. Overlap_Result(c, x) = [n \in 1 .. ww |-> label(n)]
  <2>1. l.cols = c.cols /\ l.range = c.range BY DEF Overlays
  <2>2. Overlap_Result(c, x) = Stencil(c, x[2] \div l.cols, x[2] % l.cols)
    BY <2>1 DEF Overlap_Result
  <2> DEFINE u == x[2] \div l.cols
             v == x[2] % l.cols
  <2>3. u = y /\ v = k BY <1>11
  <2>4. Overlap_Result(c, x) = Stencil(c, u, v) BY <2>2
  <2> HIDE DEF u, v, y, k
  <2>5. Overlap_Result(c, x) = Stencil(c, y, k) BY <2>3, <2>4
  <2> QED BY <2>1, <2>5 DEF Stencil
<1>13. ASSUME NEW n \in 1 .. ww
       PROVE  Found(c, 1, g, 2, z[n]) = <<label(n)>> /\ label(n) \in Int
  <2> DEFINE a == (n - 1) \div w
             b == (n - 1) % w
             v == LocalRow(l, i) + a
             u == LocalColumn(l, i) + b
  <2>1. /\ a \in 0 .. w - 1 /\ b \in 0 .. w - 1
        /\ v \in 0 .. TileWidth(l) - 1 /\ u \in 0 .. TileWidth(l) - 1
        /\ z[n] = Spot(l, v, u)
    BY <1>1, <1>8, <1>13, WindowCells DEF z
  <2>2. label(n) = SeenLabel(c, y + a - l.range, k + b - l.range) OBVIOUS
  <2> HIDE DEF a, b, label
  <2>3. Found(c, 1, g, 2, Spot(l, v, u)) = <<SpotLabel(c, l, g, v, u)>>
        /\ SpotLabel(c, l, g, v, u) \in Int
    BY <2>1, FoundInTile, SpotLabels
  <2>4. y + a - l.range = FirstRow(l, g) + v /\ k + b - l.range = FirstColumn(l, g) + u - l.range
    BY <1>7, <1>8, <2>1
  <2>5. SpotLabel(c, l, g, v, u) = label(n) BY <2>2, <2>4 DEF SpotLabel
  <2> HIDE DEF v, u
  <2> QED BY <2>1, <2>3, <2>5
<1> DEFINE h == [j \in DOMAIN z |-> Found(c, 1, g, 2, z[j])]
           s == [n \in 1 .. ww |-> label(n)]
<1> HIDE DEF label, ww
<1>14. DOMAIN h = 1 .. ww /\ h = [m \in DOMAIN h |-> h[m]] /\ \A m \in 1 .. ww : h[m] = <<s[m]>>
  BY <1>5, <1>13
<1>15. Among(Int, s, ww) BY <1>13 DEF Among
<1>16. Firsts(s, ww) = s BY DEF Firsts
<1> HIDE DEF h, s
<1>17. FlattenSeq(h) = s BY <1>9, <1>14, <1>15, <1>16, FlattenLabels
<1>18. Written(c, 1, g, 2, x) = s BY <1>12, OverlapWritten DEF s
<1>19. IsWritten(c, g, 2, x, z) BY <1>17, <1>18 DEF IsWritten, h
<1> QED BY <1>6, <1>19 DEF f

LEMMA OverlapWrites ==
  ASSUME NEW c, NEW l, Overlays(c, l)
  PROVE  Writes(c, 1)
<1>1. /\ Tiled(l) /\ l.cols = l.across * l.side /\ l.neutral \in BOOLEAN
      /\ l.range <= l.side /\ l.range <= l.cols /\ Launches(c)[1] = l
      /\ \A g, i : Phases(l, g, i) = 3
  BY OverlayTiled
<1>2. ASSUME NEW g \in GroupOf(l), NEW i \in ItemOf(l), NEW p \in Nat, p < Phases(l, g, i),
             NEW x \in DOMAIN Code(l, g, i, p)
      PROVE  IsWritten(c, g, p, x, Code(l, g, i, p)[x])
  <2>1. p \in {0, 1, 2} BY <1>1, <1>2
  <2>2. CASE p = 2 BY <2>2, StencilWrites
  <2>3. CASE p \in {0, 1}
    <3>1. Faithful(l, g, Code(l, g, i, p)) BY <1>1, <2>3, CentreIsFaithful, BorderIsFaithful
    <3>2. PICK v \in 0 .. TileWidth(l) - 1, u \in 0 .. TileWidth(l) - 1 :
            x = Spot(l, v, u) /\ Code(l, g, i, p)[x] = <<PlaceOfSpot(l, g, v, u)>>
      BY <3>1 DEF Faithful
    <3> DEFINE y == PlaceOfSpot(l, g, v, u)
               b == SpotLabel(c, l, g, v, u)
               s == Code(l, g, i, p)[x]
    <3>3. y \in {In, Constants} \X Int /\ FirstFound(c, 1, y) = <<b>> /\ b \in Int BY SpotLabels
    <3>4. Found(c, 1, g, p, y) = <<b>> BY <2>3, <3>3, FoundOfMatrix
    <3>5. Written(c, 1, g, p, x) = <<b>> BY <2>3, <3>2, OverlapWritten, SpotLabels
    <3>6. s = <<y>> BY <3>2
    <3> HIDE DEF y, b, s
    <3>7. IsWritten(c, g, p, x, s) BY <3>3, <3>4, <3>5, <3>6, OneWritten
    <3> QED BY <3>7 DEF s
  <2> QED BY <2>1, <2>2, <2>3
<1>3. ASSUME NEW g \in GroupOf(l), NEW i \in ItemOf(l), NEW p \in Nat, p < Phases(l, g, i),
             NEW x \in DOMAIN Code(l, g, i, p)
      PROVE  Written(c, 1, g, p, x) =
               FlattenSeq([n \in DOMAIN Code(l, g, i, p)[x] |->
                             Found(c, 1, g, p, Code(l, g, i, p)[x][n])])
  BY <1>2, <1>3 DEF IsWritten
<1> QED BY <1>1, <1>3 DEF Writes

LEMMA OverlapLeaves ==
  ASSUME NEW c, NEW l, Overlays(c, l)
  PROVE  Leaves(c, 1)
<1> DEFINE one == 1
           two == 2
<1>1. /\ Tiled(l) /\ l.cols = l.across * l.side /\ l.neutral \in BOOLEAN
      /\ l.range <= l.side /\ l.range <= l.cols /\ Launches(c)[one] = l
      /\ \A g, i : Phases(l, g, i) = 3
  BY OverlayTiled
<1> HIDE DEF one, two
<1> SUFFICES ASSUME NEW g \in GroupOf(l), NEW p \in Nat, NEW x,
                    x[1] # Shared, StoredBy(l, g, x), \A i \in ItemOf(l) : Phases(l, g, i) <= p
             PROVE  Value(c, one, g, p, x) = Result(c, one, x)
  BY <1>1 DEF Leaves, one
<1>2. PICK i \in ItemOf(l), q \in Nat : q < Phases(l, g, i) /\ x \in DOMAIN Code(l, g, i, q)
  BY DEF StoredBy
<1>3. StoredIn(l, g, q, x) BY <1>2 DEF StoredIn
<1>4. q \in {0, 1, 2} /\ q \notin {0, 1} BY <1>1, <1>3, OverlapStoredIn
<1>5. q = two BY <1>4 DEF two
<1>6. 3 <= p BY <1>1, <1>2
<1>7. two \in 0 .. p - 1 BY <1>6 DEF two
<1>8. \A r \in two + 1 .. p - 1 : ~ StoredIn(l, g, r, x)
  <2>1. \A r \in two + 1 .. p - 1 : r \in Nat /\ r \notin {0, 1, 2} BY DEF two
  <2> QED BY <1>1, <2>1, OverlapStoredIn
<1>9. Value(c, one, g, p, x) = Written(c, one, g, two, x)
  BY <1>1, <1>3, <1>5, <1>7, <1>8, ValueWritten
<1>10. Written(c, 1, g, 2, x) = Result(c, 1, x) BY OverlapWritten
<1> QED BY <1>9, <1>10 DEF one, two

-----------------------------------------------------------------------------
LEMMA OverlapAddressed ==
  ASSUME NEW c, NEW l, Overlays(c, l)
  PROVE  Addressed(c, l)
<1>1. /\ Tiled(l) /\ l.cols = l.across * l.side /\ l.neutral \in BOOLEAN
      /\ l.range <= l.side /\ l.range <= l.cols /\ l.out = Out
      /\ \A g, i : Phases(l, g, i) = 3
  BY OverlayTiled
<1>2. /\ DOMAIN Buffers(c) = {In, Out, Constants}
      /\ {In, Out, Constants, Shared} \subseteq Int
  BY DEF Overlays, In, Out, Constants, Shared
<1> SUFFICES ASSUME NEW g \in GroupOf(l), NEW i \in ItemOf(l), NEW p \in Nat,
                    p < Phases(l, g, i), NEW x \in DOMAIN Code(l, g, i, p)
             PROVE  /\ x \in Int \X Int
                    /\ Range(Code(l, g, i, p)[x]) \subseteq (DOMAIN Buffers(c) \cup {Shared}) \X Int
  BY DEF Addressed
<1>3. p \in {0, 1, 2} BY <1>1
<1> DEFINE s == Code(l, g, i, p)[x]
           to == (DOMAIN Buffers(c) \cup {Shared}) \X Int
<1>4. CASE p \in {0, 1}
  <2>1. Faithful(l, g, Code(l, g, i, p)) BY <1>1, <1>4, CentreIsFaithful, BorderIsFaithful
  <2>2. PICK v \in 0 .. TileWidth(l) - 1, u \in 0 .. TileWidth(l) - 1 :
          x = Spot(l, v, u) /\ s = <<PlaceOfSpot(l, g, v, u)>>
    BY <2>1 DEF Faithful
  <2>3. PlaceOfSpot(l, g, v, u) \in {In, Constants} \X Int BY SpotLabels
  <2>4. x \in Int \X Int
    <3> DEFINE n == v * TileWidth(l) + u
    <3>1. x = <<Shared, n>> BY <2>2 DEF Spot, Cell
    <3>2. n \in Int
      <4>1. TileWidth(l) \in Nat /\ v \in Nat /\ u \in Nat BY OverlayFacts DEF Positive
      <4>2. v * TileWidth(l) \in Nat BY <4>1, Times
      <4> QED BY <4>1, <4>2
    <3> HIDE DEF n
    <3> QED BY <1>2, <3>1, <3>2
  <2> DEFINE y == PlaceOfSpot(l, g, v, u)
  <2>5. y \in to BY <1>2, <2>3
  <2>6. s = <<y>> BY <2>2
  <2> HIDE DEF s, to, y
  <2>7. Range(s) \subseteq to BY <2>5, <2>6 DEF Range
  <2> QED BY <2>4, <2>7 DEF s, to
<1>5. CASE p = 2
  <2> DEFINE in == Row(l, g, i) < l.elements \div l.cols /\ Column(l, g, i) < l.cols
             at == Global(l, l.out, g, i, 0, 0)
             z == Window(l, i)
             f == Code(l, g, i, p)
  <2>1. f = IF in THEN At(at, z) ELSE Nothing BY <1>1, <1>5 DEF Tiled, Code, OverlapCode
  <2>2. x = <<Out, OutPlace(l, g, i)>>
    <3>1. \A code : DOMAIN code \subseteq Touched(code) BY DEF Touched
    <3> QED BY <1>1, <1>5, <3>1, StencilStores
  <2>3. OutPlace(l, g, i) \in Int
    <3>1. l.cols \in Nat /\ l.range \in Nat /\ Row(l, g, i) \in Nat /\ Column(l, g, i) \in Nat
      BY <1>1, TileCoordinates, OverlayFacts
    <3> DEFINE r == Row(l, g, i) + l.range
    <3>2. r \in Nat BY <3>1
    <3>3. OutPlace(l, g, i) = r * l.cols + Column(l, g, i) BY DEF OutPlace
    <3> HIDE DEF r
    <3>4. r * l.cols \in Nat BY <3>1, <3>2, Times
    <3> QED BY <3>1, <3>3, <3>4
  <2>4. \A n \in DOMAIN z : z[n] \in {Shared} \X Int
    <3> DEFINE w == 2 * l.range + 1
    <3>1. DOMAIN z = 1 .. w * w /\ w = 2 * l.range + 1 BY DEF Window
    <3> HIDE DEF w
    <3> SUFFICES ASSUME NEW n \in DOMAIN z PROVE z[n] \in {Shared} \X Int OBVIOUS
    <3> DEFINE v == LocalRow(l, i) + (n - 1) \div w
               u == LocalColumn(l, i) + ((n - 1) % w)
    <3>2. v \in 0 .. TileWidth(l) - 1 /\ u \in 0 .. TileWidth(l) - 1 /\ z[n] = Spot(l, v, u)
      <4>1. n \in 1 .. w * w BY <3>1
      <4> QED BY <1>1, <3>1, <4>1, WindowCells
    <3> HIDE DEF v, u, z
    <3> DEFINE m == v * TileWidth(l) + u
    <3>3. z[n] = <<Shared, m>> BY <3>2 DEF Spot, Cell
    <3>4. TileWidth(l) \in Nat /\ v \in Nat /\ u \in Nat BY <3>2, OverlayFacts DEF Positive
    <3>5. v * TileWidth(l) \in Nat BY <3>4, Times
    <3>6. m \in Int BY <3>4, <3>5
    <3> HIDE DEF m
    <3> QED BY <3>3, <3>6
  <2> HIDE DEF f, at, z, in
  <2>5. f[x] = z
    <3>1. x \in DOMAIN f BY DEF f
    <3>2. CASE in
      <4>1. f = At(at, z) BY <2>1, <3>2
      <4>2. DOMAIN At(at, z) = {at} /\ At(at, z)[at] = z BY CodeOfOne
      <4>3. x = at BY <3>1, <4>1, <4>2
      <4> QED BY <4>1, <4>2, <4>3
    <3>3. CASE ~ in
      <4>1. DOMAIN f = {} BY <2>1, <3>3, CodeOfNone
      <4> QED BY <3>1, <4>1
    <3> QED BY <3>2, <3>3
  <2>6. s = z BY <2>5 DEF f
  <2>7. {Shared} \X Int \subseteq to OBVIOUS
  <2> HIDE DEF s, to
  <2>8. Range(s) \subseteq to BY <2>4, <2>6, <2>7 DEF Range
  <2>9. x \in Int \X Int
    <3> DEFINE n == OutPlace(l, g, i)
    <3> HIDE DEF n
    <3>1. x = <<Out, n>> /\ n \in Int /\ Out \in Int BY <1>2, <2>2, <2>3 DEF n
    <3> QED BY <3>1
  <2> QED BY <2>8, <2>9 DEF s, to
<1> QED BY <1>3, <1>4, <1>5

LEMMA OverlapMemory ==
  ASSUME NEW c, c.skeleton = "overlap", OverlapCall(c)
  PROVE  /\ Numbered(c)
         /\ DOMAIN Buffers(c) = {In, Out, Constants}
         /\ Buffers(c)[In] = Labelled((c.rows + 2 * c.range) * c.cols, 0)
         /\ Buffers(c)[Constants] = At(0, NeutralElement)
         /\ DOMAIN Buffers(c)[Out] = 0 .. (c.rows + 2 * c.range) * c.cols - 1
<1> DEFINE n == (c.rows + 2 * c.range) * c.cols
<1>1. Buffers(c) = [b \in {In, Out, Constants} |->
                      CASE b = In  -> Labelled(n, 0)
                        [] b = Out -> Fresh(n)
                        [] OTHER   -> At(0, NeutralElement)]
  BY DEF Buffers, OverlapBuffers
<1> HIDE DEF n
<1>2. DOMAIN Buffers(c) = {In, Out, Constants} BY <1>1
<1>3. /\ Buffers(c)[In] = Labelled(n, 0) /\ Buffers(c)[Out] = Fresh(n)
      /\ Buffers(c)[Constants] = At(0, NeutralElement)
  BY <1>1 DEF In, Out, Constants
<1>4. {In, Out, Constants} \subseteq Int \ {Shared} BY DEF In, Out, Constants, Shared
<1>5. DOMAIN Labelled(n, 0) \subseteq Int BY DEF Labelled
<1>6. DOMAIN Fresh(n) = 0 .. n - 1 BY DEF Fresh
<1>7. DOMAIN At(0, NeutralElement) = {0} BY DEF At
<1>8. 0 .. n - 1 \subseteq Int /\ {0} \subseteq Int OBVIOUS
<1>9. \A b \in DOMAIN Buffers(c) : DOMAIN Buffers(c)[b] \subseteq Int
  BY <1>2, <1>3, <1>5, <1>6, <1>7, <1>8
<1> QED BY <1>2, <1>3, <1>4, <1>6, <1>9 DEF Numbered, n

\* The groups reach every row.
Overlaid(c, l) ==
  /\ Overlays(c, l)
  /\ \E down \in Nat : l.groups = down * l.across /\ c.rows <= down * l.side

LEMMA OverlapLaunched ==
  ASSUME NEW c, c.skeleton = "overlap", OverlapCall(c), AllRows(c), WholeTiles(c), Narrow(c),
         c.out # In
  PROVE  \E l : Overlaid(c, l) /\ Apart(c, l)
<1> DEFINE l == OverlapLaunch(c)
           elements == c.rows * c.cols
           across == CeilDiv(c.cols, c.side)
           covered == CeilToMultipleOf(elements \div c.total, c.side)
           down == covered \div c.side
<1>1. LaunchOf(c) = {l} /\ Tiled(l) /\ l.cols = l.across * l.side /\ l.out = c.out
  BY OverlapFacts
<1>2. Launches(c) = <<l>> BY DEF Launches, OverlapLaunches
<1>3. Only(c, l) BY <1>1, <1>2 DEF Only
<1>4. /\ c.rows \in Nat /\ c.total \in Positive /\ c.cols \in Positive /\ c.cols \in Nat
      /\ c.side \in Positive /\ c.side \in Nat /\ c.out = Out
  BY DEF OverlapCall, Positive
<1>5. /\ l.groups = across * down /\ l.across = across /\ l.elements = elements
      /\ l.cols = c.cols /\ l.side = c.side /\ l.range = c.range /\ l.neutral = c.neutral
  BY DEF OverlapLaunch
<1>6. across \in Nat BY <1>4, CeilDivided
<1>7. elements \in Nat BY <1>4, Times
<1>8. c.rows <= covered BY DEF AllRows
<1>9. down \in Nat /\ covered = down * c.side
  <2>1. elements \div c.total \in Nat BY <1>4, <1>7, Division
  <2> DEFINE a == elements \div c.total
  <2>2. covered = CeilToMultipleOf(a, c.side) /\ a \in Nat BY <2>1
  <2> HIDE DEF elements, a, covered
  <2>3. CeilToMultipleOf(a, c.side) \div c.side \in Nat
        /\ CeilToMultipleOf(a, c.side) = (CeilToMultipleOf(a, c.side) \div c.side) * c.side
    BY <1>4, <2>2, Rounded DEF Positive
  <2> QED BY <2>2, <2>3
<1>10. elements \div c.cols = c.rows
  <2>1. 0 \in 0 .. c.cols - 1 BY <1>4 DEF Positive
  <2>2. (c.cols * c.rows + 0) \div c.cols = c.rows BY <1>4, <2>1, Quotient
  <2>3. c.cols * c.rows + 0 = elements BY <1>4
  <2> QED BY <2>2, <2>3
<1>11. Apart(c, l)
  <2>1. l \in LaunchOf(c) BY <1>1
  <2> HIDE DEF l
  <2> QED BY <2>1, OverlapIsSafe
<1> HIDE DEF l, elements, across, down, covered
<1>12. l.elements \div l.cols = c.rows BY <1>5, <1>10
<1>13. l.range <= l.side /\ l.side > 1 BY <1>5 DEF Narrow
<1>14. Overlays(c, l)
  BY <1>1, <1>3, <1>4, <1>5, <1>12, <1>13, OverlapMemory DEF Overlays
<1>15. across * down = down * across BY <1>6, <1>9
<1>16. l.groups = down * l.across /\ c.rows <= down * l.side BY <1>5, <1>8, <1>9, <1>15
<1> QED BY <1>9, <1>11, <1>14, <1>16 DEF Overlaid

\* Some item computes the element at row r and column k.
LEMMA OverlapStored ==
  ASSUME NEW c, NEW l, Overlaid(c, l), NEW r \in 0 .. c.rows - 1, NEW k \in 0 .. c.cols - 1
  PROVE  \E g \in GroupOf(l) : StoredBy(l, g, Cell(Out, (r + c.range) * c.cols + k))
<1>1. /\ Overlays(c, l) /\ Tiled(l) /\ l.cols = l.across * l.side /\ l.out = Out
      /\ \A g, i : Phases(l, g, i) = 3
  BY OverlayTiled DEF Overlaid
<1>2. PICK down \in Nat : l.groups = down * l.across /\ c.rows <= down * l.side BY DEF Overlaid
<1>3. /\ l.cols = c.cols /\ l.range = c.range /\ l.elements \div l.cols = c.rows
      /\ l.side \in Nat /\ l.side \in Positive /\ l.across \in Nat /\ l.across \in Positive
      /\ c.rows \in Nat /\ c.cols \in Nat
  BY <1>1 DEF Overlays, OverlapCall, Tiled, Positive
<1> DEFINE y == r \div l.side
           u == r % l.side
           x == k \div l.side
           v == k % l.side
<1>4. y \in 0 .. down - 1 /\ u \in 0 .. l.side - 1 /\ r = y * l.side + u
  <2> DEFINE t == down * l.side
  <2>1. t \in Nat /\ c.rows <= t BY <1>2, <1>3, Times
  <2> HIDE DEF t
  <2>2. r \in 0 .. t - 1 BY <1>3, <2>1
  <2>3. r \in 0 .. down * l.side - 1 BY <2>2 DEF t
  <2> QED BY <1>3, <2>3, PlaceOf
<1>5. x \in 0 .. l.across - 1 /\ v \in 0 .. l.side - 1 /\ k = x * l.side + v
  <2>1. k \in 0 .. l.across * l.side - 1 BY <1>1, <1>3
  <2> QED BY <1>3, <2>1, PlaceOf
<1> DEFINE g == y * l.across + x
<1> HIDE DEF y, u, x, v
<1>6. g \in GroupOf(l)
  <2>1. g \in 0 .. down * l.across - 1 BY <1>3, <1>4, <1>5, Place
  <2> QED BY <1>2, <2>1 DEF GroupOf
<1>7. g \div l.across = y /\ g % l.across = x
  <2>1. y \in Nat BY <1>4
  <2>2. g = l.across * y + x BY <1>3, <2>1
  <2>3. (l.across * y + x) \div l.across = y /\ (l.across * y + x) % l.across = x
    BY <1>3, <1>5, <2>1, Quotient
  <2> HIDE DEF g
  <2> QED BY <2>2, <2>3
<1> HIDE DEF g
<1>8. PICK i \in ItemOf(l) : LocalRow(l, i) = u /\ LocalColumn(l, i) = v
  BY <1>1, <1>4, <1>5, TileItemAt
<1>9. Row(l, g, i) = r /\ Column(l, g, i) = k BY <1>4, <1>5, <1>7, <1>8 DEF Row, Column
<1> DEFINE in == Row(l, g, i) < l.elements \div l.cols /\ Column(l, g, i) < l.cols
           at == Global(l, l.out, g, i, 0, 0)
           z == Window(l, i)
           f == Code(l, g, i, 2)
<1>10. in BY <1>3, <1>9
<1>11. f = IF in THEN At(at, z) ELSE Nothing BY <1>1 DEF Tiled, Code, OverlapCode
<1>12. at \in DOMAIN f
  <2> HIDE DEF f, at, z, in
  <2>1. f = At(at, z) BY <1>10, <1>11
  <2>2. DOMAIN At(at, z) = {at} BY CodeOfOne
  <2> QED BY <2>1, <2>2
<1>13. at = <<l.out, OutPlace(l, g, i)>>
  <2>1. \A code : DOMAIN code \subseteq Touched(code) BY DEF Touched
  <2> HIDE DEF at
  <2> QED BY <1>1, <1>6, <1>12, <2>1, StencilStores
<1>14. OutPlace(l, g, i) = (r + c.range) * c.cols + k BY <1>3, <1>9 DEF OutPlace
<1>15. Cell(Out, (r + c.range) * c.cols + k) = at BY <1>1, <1>13, <1>14 DEF Cell
<1> HIDE DEF at, f
<1>16. 2 \in Nat /\ 2 < Phases(l, g, i) BY <1>1
<1>17. StoredBy(l, g, at) BY <1>8, <1>12, <1>16 DEF StoredBy, f
<1> QED BY <1>6, <1>15, <1>17

LEMMA OverlapExplained ==
  ASSUME NEW c, c.skeleton = "overlap", OverlapCall(c), AllRows(c), WholeTiles(c), Narrow(c),
         c.out # In
  PROVE  /\ Explained(c)
         /\ \A r \in 0 .. c.rows - 1, k \in 0 .. c.cols - 1 :
              Start(c, Len(Launches(c)) + 1, Cell(Out, (r + c.range) * c.cols + k)) =
                Stencil(c, r + c.range, k)
<1>1. PICK l : Overlaid(c, l) /\ Apart(c, l) BY OverlapLaunched
<1>2. Overlays(c, l) BY <1>1 DEF Overlaid
<1>3. Only(c, l) /\ Numbered(c) BY <1>2 DEF Overlays
<1>4. Explained(c)
  BY <1>1, <1>2, <1>3, OverlapWrites, OverlapLeaves, OverlapAddressed, OnlyExplained
<1>5. ASSUME NEW r \in 0 .. c.rows - 1, NEW k \in 0 .. c.cols - 1
      PROVE  Start(c, Len(Launches(c)) + 1, Cell(Out, (r + c.range) * c.cols + k)) =
               Stencil(c, r + c.range, k)
  <2> DEFINE y == r + c.range
             m == y * c.cols + k
             x == Cell(Out, m)
  <2>1. \E g \in GroupOf(l) : StoredBy(l, g, x) BY <1>1, OverlapStored
  <2>2. Start(c, Len(Launches(c)) + 1, x) = Result(c, 1, x) BY <1>3, <2>1, AfterOnly
  <2>3. Result(c, 1, x) = Overlap_Result(c, x) BY <1>2, OverlapWritten
  <2>4. /\ c.rows \in Nat /\ c.range \in Nat /\ c.cols \in Positive /\ c.cols \in Nat
    BY DEF OverlapCall, Positive
  <2>5. y \in Nat BY <2>4
  <2>6. x[2] = m BY DEF Cell
  <2> HIDE DEF x, y
  <2>7. m \div c.cols = y /\ m % c.cols = k
    <3>1. y * c.cols = c.cols * y BY <2>4, <2>5
    <3>2. (c.cols * y + k) \div c.cols = y /\ (c.cols * y + k) % c.cols = k
      BY <2>4, <2>5, Quotient
    <3> QED BY <3>1, <3>2
  <2> HIDE DEF m
  <2>8. Overlap_Result(c, x) = Stencil(c, m \div c.cols, m % c.cols) BY <2>6 DEF Overlap_Result
  <2> DEFINE a == m \div c.cols
             b == m % c.cols
  <2>9. a = y /\ b = k BY <2>7
  <2>10. Overlap_Result(c, x) = Stencil(c, a, b) BY <2>8
  <2> HIDE DEF a, b
  <2>11. Overlap_Result(c, x) = Stencil(c, y, k) BY <2>9, <2>10
  <2> QED BY <2>2, <2>3, <2>11 DEF x, y, m
<1> QED BY <1>4, <1>5

-----------------------------------------------------------------------------
(***************************************************************************)
(* Zip combines the elements of the same place, each once, for every size  *)
(* and work group, in whatever order groups and warps run, also if the     *)
(* output is one of the operands.                                          *)
(***************************************************************************)
LEMMA DoneZip == KInv /\ VInv => ZipIsPointwise
<1> SUFFICES ASSUME KInv, VInv, call.skeleton = "zip", todo = << >>
             PROVE  \A n \in 0 .. call.n - 1 : mem[call.out][n] = <<n + 1, 100 + n + 1>>
  BY DEF ZipIsPointwise, Computed
<1>1. call # None BY DEF None
<1>2. call \in Requests BY <1>1 DEF KInv, CallOK
<1>3. ZipCall(call) BY <1>2, RequestsAssumption DEF IsCall
<1>4. /\ Explained(call)
      /\ \A n \in 0 .. call.n - 1 :
           Start(call, Len(Launches(call)) + 1, Cell(call.out, n)) = <<n + 1, 100 + n + 1>>
  BY <1>3, ZipExplained
<1>5. /\ DOMAIN mem = DOMAIN Buffers(call)
      /\ \A b \in DOMAIN mem : DOMAIN mem[b] = DOMAIN Buffers(call)[b]
      /\ \A b \in DOMAIN mem : \A n \in DOMAIN mem[b] :
           mem[b][n] = Start(call, Len(Launches(call)) + 1, Cell(b, n))
  BY <1>1, <1>4, EveryCallIsScheduled, DoneValues
<1>6. Buffers(call) = ZipBuffers(call) BY DEF Buffers
<1>7. \A b \in {In, Second, Out} : DOMAIN ZipBuffers(call)[b] = 0 .. call.n - 1
  BY DEF ZipBuffers, Labelled, Fresh
<1>8. DOMAIN ZipBuffers(call) = {In, Second, Out} BY DEF ZipBuffers
<1>9. call.out \in {In, Second, Out} BY <1>3 DEF ZipCall
<1>10. call.out \in DOMAIN mem /\ DOMAIN mem[call.out] = 0 .. call.n - 1
  BY <1>5, <1>6, <1>7, <1>8, <1>9
<1> QED BY <1>4, <1>5, <1>10

\* Zip (detail/ZipDef.h): when a call is over, each element of the result is
\* the function of the two elements that were given, in whatever order items ran.
THEOREM ZipsArePointwise == Spec => []ZipIsPointwise
<1>1. Spec => [](KInv /\ VInv) BY ValuesInvariance
<1>2. KInv /\ VInv => ZipIsPointwise BY DoneZip
<1> QED BY <1>1, <1>2, PTL

(***************************************************************************)
(* Map computes each element of a device's part from the input of the same *)
(* place, and no other element of its output, in its six forms.            *)
(***************************************************************************)
\* What an element of Out has to be, as the property states it.
LEMMA MapLabels ==
  ASSUME NEW c, MapCall(c), OnePart(c), NEW n \in Nat,
         n - MapBase(c) * c.cols \in 0 .. Part(c) * c.cols - 1
  PROVE  LET d == n - MapBase(c) * c.cols
         IN  MapSource(c, n) =
               IF OfElements(c) THEN d
               ELSE IF OfIndices(c) THEN c.first + d
               ELSE (c.first + d \div c.cols) * CeilToMultipleOf(c.cols, c.side) + (d % c.cols)
<1> DEFINE d == n - MapBase(c) * c.cols
           r == d \div c.cols
           k == d % c.cols
           w == CeilToMultipleOf(c.cols, c.side)
<1>1. /\ Part(c) \in Nat /\ MapBase(c) \in Nat /\ c.cols \in Positive /\ c.cols \in Nat
      /\ Offset(c) \in Nat /\ c.form \in MapForm
      /\ ~ OfPoints(c) => c.cols = 1
  BY MapBounds
<1>2. d \in 0 .. Part(c) * c.cols - 1 OBVIOUS
<1>3. MapBase(c) * c.cols \in Nat BY <1>1, Times
<1>4. n = d + MapBase(c) * c.cols
  <2> DEFINE first == MapBase(c) * c.cols
  <2>1. first \in Nat /\ d = n - first BY <1>3
  <2> HIDE DEF first, d
  <2>2. n = d + first BY <2>1
  <2> QED BY <2>2 DEF first
<1> HIDE DEF d
<1>5. r \in 0 .. Part(c) - 1 /\ k \in 0 .. c.cols - 1 /\ d = r * c.cols + k
  BY <1>1, <1>2, PlaceOf
<1> HIDE DEF r, k, w
<1>6. r \in Nat /\ k \in Nat /\ IsOfMap(c, r, k) BY <1>1, <1>5 DEF IsOfMap
<1>7. n = MapAt(c, r, k)
  <2>1. (r + MapBase(c)) * c.cols = r * c.cols + MapBase(c) * c.cols BY <1>1, <1>6
  <2> DEFINE a == r * c.cols
             first == MapBase(c) * c.cols
  <2>2. a \in Nat /\ first \in Nat BY <1>1, <1>6, Times
  <2>3. n = d + first /\ d = a + k /\ MapAt(c, r, k) = a + first + k
    BY <1>4, <1>5, <2>1 DEF MapAt
  <2> HIDE DEF a, first
  <2> QED BY <1>6, <2>2, <2>3
<1>8. MapSource(c, n) = MapFrom(c, r, k) BY <1>6, <1>7, MapSources
<1>9. ~ OfElements(c) => Offset(c) = c.first BY DEF OnePart
<1>10. ~ OfPoints(c) => d = r
  <2> SUFFICES ASSUME ~ OfPoints(c) PROVE d = r OBVIOUS
  <2>1. c.cols = 1 BY <1>1
  <2>2. k = 0 /\ d = r * 1 + k BY <1>5, <2>1
  <2> QED BY <1>6, <2>2
<1>11. CASE OfElements(c)
  <2>1. ~ OfPoints(c) BY <1>11 DEF OfElements, OfPoints
  <2> QED BY <1>8, <1>10, <1>11, <2>1 DEF MapFrom, d
<1>12. CASE ~ OfElements(c) /\ OfIndices(c)
  <2>1. ~ OfPoints(c) BY <1>12 DEF OfIndices, OfPoints
  <2>2. MapFrom(c, r, k) = r + c.first BY <1>9, <1>12 DEF MapFrom
  <2>3. r + c.first = c.first + d BY <1>1, <1>6, <1>9, <1>10, <1>12, <2>1
  <2> QED BY <1>8, <1>12, <2>2, <2>3 DEF d
<1>13. CASE ~ OfElements(c) /\ ~ OfIndices(c)
  <2>1. MapFrom(c, r, k) = (r + c.first) * w + k BY <1>9, <1>13 DEF MapFrom, w
  <2>2. r + c.first = c.first + r BY <1>1, <1>6, <1>9, <1>13
  <2> QED BY <1>8, <1>13, <2>1, <2>2 DEF d, r, k, w
<1> QED BY <1>11, <1>12, <1>13

LEMMA DoneMap ==
  ASSUME Tolerated \cap {"onePart", "wholeGroups", "wholeColumns"} = {}
  PROVE  KInv /\ VInv => MapIsPointwise
<1> SUFFICES ASSUME KInv, VInv, call.skeleton = "map", todo = << >>
             PROVE  MapIsPointwise
  BY DEF MapIsPointwise, Computed
<1>1. call # None BY DEF None
<1>2. call \in Requests /\ Acceptable(call) BY <1>1 DEF KInv, CallOK
<1>3. MapCall(call) BY <1>2, RequestsAssumption DEF IsCall
<1>4. OnePart(call) /\ WholeGroups(call) /\ WholeColumns(call) BY <1>2 DEF Acceptable, Meets
<1>5. /\ Explained(call)
      /\ \A n \in 0 .. OutSize(call) - 1 :
           Start(call, Len(Launches(call)) + 1, Cell(Out, n)) =
             IF n - MapBase(call) * call.cols \in 0 .. Part(call) * call.cols - 1
             THEN <<MapSource(call, n) + 1>> ELSE JunkValue
  BY <1>3, <1>4, MapExplained
<1>6. /\ DOMAIN mem = DOMAIN Buffers(call)
      /\ \A b \in DOMAIN mem : DOMAIN mem[b] = DOMAIN Buffers(call)[b]
      /\ \A b \in DOMAIN mem : \A n \in DOMAIN mem[b] :
           mem[b][n] = Start(call, Len(Launches(call)) + 1, Cell(b, n))
  BY <1>1, <1>5, EveryCallIsScheduled, DoneValues
<1>7. Out \in DOMAIN mem /\ DOMAIN mem[Out] = 0 .. OutSize(call) - 1 /\ OutSize(call) \in Nat
  <2>1. Out \in DOMAIN Buffers(call) /\ Buffers(call)[Out] = Fresh(OutSize(call))
        /\ OutSize(call) \in Nat
    BY <1>3, MapMemory
  <2> QED BY <1>6, <2>1 DEF Fresh
<1> DEFINE part  == call.parts[call.device] * call.cols
           from  == IF call.form \in {"indices, no result", "points, no result"}
                    THEN call.first * call.cols ELSE 0
           width == CeilToMultipleOf(call.cols, call.side)
           label(k) == IF OfElements(call) THEN k + 1
                       ELSE IF OfIndices(call) THEN call.first + k + 1
                       ELSE (call.first + k \div call.cols) * width + (k % call.cols) + 1
<1>8. SUFFICES ASSUME NEW n \in DOMAIN mem[Out]
               PROVE  mem[Out][n] = IF n - from \in 0 .. part - 1 THEN <<label(n - from)>>
                                    ELSE JunkValue
  BY DEF MapIsPointwise
<1>9. part = Part(call) * call.cols BY DEF Part
<1>10. from = MapBase(call) * call.cols
  <2>1. CASE call.form \in {"indices, no result", "points, no result"}
    <3>1. ~ OfElements(call) BY <2>1 DEF OfElements
    <3>2. MapBase(call) = call.first BY <2>1, <3>1, <1>4 DEF MapBase, OnePart
    <3> QED BY <2>1, <3>2
  <2>2. CASE call.form \notin {"indices, no result", "points, no result"}
    <3>1. MapBase(call) = 0 /\ call.cols \in Nat BY <2>2, <1>3, MapBounds DEF MapBase
    <3>2. 0 * call.cols = 0 BY <3>1
    <3> QED BY <2>2, <3>1, <3>2
  <2> QED BY <2>1, <2>2
<1> HIDE DEF part, from, width
<1>11. n \in 0 .. OutSize(call) - 1 /\ n \in Nat BY <1>7, <1>8
<1>12. mem[Out][n] = IF n - from \in 0 .. part - 1 THEN <<MapSource(call, n) + 1>> ELSE JunkValue
  BY <1>5, <1>6, <1>7, <1>9, <1>10, <1>11
<1>13. ASSUME n - from \in 0 .. part - 1 PROVE MapSource(call, n) + 1 = label(n - from)
  <2> DEFINE d == n - from
  <2>1. MapSource(call, n) =
          IF OfElements(call) THEN d
          ELSE IF OfIndices(call) THEN call.first + d
          ELSE (call.first + d \div call.cols) * width + (d % call.cols)
    BY <1>3, <1>4, <1>9, <1>10, <1>11, <1>13, MapLabels DEF width
  <2> HIDE DEF d
  <2>2. CASE OfElements(call) BY <2>1, <2>2 DEF d
  <2>3. CASE ~ OfElements(call) /\ OfIndices(call) BY <2>1, <2>3 DEF d
  <2>4. CASE ~ OfElements(call) /\ ~ OfIndices(call) BY <2>1, <2>4 DEF d
  <2> QED BY <2>2, <2>3, <2>4
<1> HIDE DEF label
<1> QED BY <1>12, <1>13

\* Map (detail/MapDef.h): when a call is over, the whole result is the
\* function of the elements, indices or points, for calls that keep the rules.
THEOREM MapsArePointwise ==
  ASSUME Tolerated \cap {"onePart", "wholeGroups", "wholeColumns"} = {}
  PROVE  Spec => []MapIsPointwise
<1>1. Spec => [](KInv /\ VInv) BY ValuesInvariance
<1>2. KInv /\ VInv => MapIsPointwise BY DoneMap
<1> QED BY <1>1, <1>2, PTL

(***************************************************************************)
(* AllPairs computes, for each row of the left matrix and each column of   *)
(* the right one, the zip of the two in the order of their elements, for   *)
(* every size, work group, tile and segment, tiled and general.            *)
(***************************************************************************)
LEMMA DoneAllPairs == KInv /\ VInv => AllPairsIsProduct
<1> SUFFICES ASSUME KInv, VInv, call.skeleton = "allpairs", todo = << >>,
                    NEW r \in 0 .. call.height - 1, NEW c \in 0 .. call.width - 1
             PROVE  mem[Out][r * call.width + c] =
                      FlattenSeq([k \in 1 .. call.dimension |->
                        <<r * call.dimension + k, 100 + (k - 1) * call.width + c + 1>>])
  BY DEF AllPairsIsProduct, Computed
<1>1. call # None BY DEF None
<1>2. call \in Requests BY <1>1 DEF KInv, CallOK
<1>3. AllPairsCall(call) BY <1>2, RequestsAssumption DEF IsCall
<1>4. /\ Explained(call)
      /\ Start(call, Len(Launches(call)) + 1, Cell(Out, r * call.width + c)) =
           ProductTo(call, r, c, call.dimension)
  BY <1>3, PairsExplained
<1>5. /\ DOMAIN mem = DOMAIN Buffers(call)
      /\ \A b \in DOMAIN mem : DOMAIN mem[b] = DOMAIN Buffers(call)[b]
      /\ \A b \in DOMAIN mem : \A n \in DOMAIN mem[b] :
           mem[b][n] = Start(call, Len(Launches(call)) + 1, Cell(b, n))
  BY <1>1, <1>4, EveryCallIsScheduled, DoneValues
<1>6. /\ DOMAIN Buffers(call) = {In, Second, Out}
      /\ DOMAIN Buffers(call)[Out] = 0 .. call.height * call.width - 1
  BY <1>3, PairsMemory
<1>7. call.height \in Nat /\ call.width \in Nat /\ call.dimension \in Nat
  BY <1>3 DEF AllPairsCall, Positive
<1>8. r \in Nat /\ c \in Nat OBVIOUS
<1>9. r * call.width + c \in 0 .. call.height * call.width - 1 BY <1>7, Place
<1>10. mem[Out][r * call.width + c] = ProductTo(call, r, c, call.dimension)
  BY <1>4, <1>5, <1>6, <1>9
<1>11. FlattenSeq([k \in 1 .. call.dimension |->
         <<r * call.dimension + k, 100 + (k - 1) * call.width + c + 1>>]) =
         ProductTo(call, r, c, call.dimension)
  BY <1>7, <1>8, ProductIs
<1> QED BY <1>10, <1>11

\* AllPairs (detail/AllPairsKernel.cl, AllPairsKernel2.cl): when a call is over,
\* each element of the output is the reduction of the zip of its row and column.
THEOREM ProductsAreRight == Spec => []AllPairsIsProduct
<1>1. Spec => [](KInv /\ VInv) BY ValuesInvariance
<1>2. KInv /\ VInv => AllPairsIsProduct BY DoneAllPairs
<1> QED BY <1>1, <1>2, PTL

(***************************************************************************)
(* MapOverlap applies the function to the neighbourhood of each element,   *)
(* padded beyond the first and the last column, for every size, tile and   *)
(* range, in whatever order the groups' items fill the tiles.              *)
(***************************************************************************)
\* The input holds what is seen of it.
LEMMA InsideInput ==
  ASSUME NEW c, OverlapCall(c), NEW r \in 0 .. c.rows - 1, NEW a \in 0 .. 2 * c.range,
         NEW k \in 0 .. c.cols - 1
  PROVE  InputLabel(c, (r + a) * c.cols + k) = (r + a) * c.cols + k + 1
<1>1. c.rows \in Nat /\ c.range \in Nat /\ c.cols \in Nat BY DEF OverlapCall, Positive
<1> DEFINE y == r + a
           h == c.rows + 2 * c.range
           n == y * c.cols + k
<1>2. h \in Nat /\ y \in 0 .. h - 1 BY <1>1
<1> HIDE DEF y, h
<1>3. n \in 0 .. h * c.cols - 1 BY <1>1, <1>2, Place
<1> DEFINE p == y * c.cols
<1>4. p \in Nat BY <1>1, <1>2, Times
<1>5. InputLabel(c, n) = n + 1 BY <1>3 DEF InputLabel, h
<1> QED BY <1>5 DEF y

\* The property's label of what is seen, and the model's.
LEMMA LabelSeen ==
  ASSUME NEW c, OverlapCall(c), NEW r \in 0 .. c.rows - 1, NEW a \in 0 .. 2 * c.range,
         NEW x \in Int
  PROVE  SeenLabel(c, r + a, x) =
           IF x \in 0 .. c.cols - 1 THEN (r + a) * c.cols + x + 1
           ELSE IF c.neutral THEN -1
           ELSE (r + a) * c.cols + (IF x < 0 THEN 1 ELSE c.cols)
<1>1. /\ c.rows \in Nat /\ c.range \in Nat /\ c.cols \in Nat /\ c.cols > 0 /\ c.neutral \in BOOLEAN
  BY DEF OverlapCall, Positive
<1> DEFINE z == IF x < 0 THEN 0 ELSE c.cols - 1
           y == r + a
           p == y * c.cols
<1>2. p \in Nat
  <2>1. y \in Nat BY <1>1
  <2> HIDE DEF y
  <2> QED BY <1>1, <2>1, Times
<1>3. \A k \in 0 .. c.cols - 1 : InputLabel(c, p + k) = p + k + 1 BY InsideInput
<1>4. z \in 0 .. c.cols - 1 /\ z + 1 = IF x < 0 THEN 1 ELSE c.cols BY <1>1
<1>5. SeenLabel(c, y, x) =
        CASE x \in 0 .. c.cols - 1 -> InputLabel(c, p + x)
          [] x \notin 0 .. c.cols - 1 /\ c.neutral -> -1
          [] x \notin 0 .. c.cols - 1 /\ ~ c.neutral -> InputLabel(c, p + z)
  BY DEF SeenLabel
<1> HIDE DEF p, z, y
<1> DEFINE e == IF x < 0 THEN 1 ELSE c.cols
<1>6. z + 1 = e /\ z \in Int BY <1>1, <1>4
<1> HIDE DEF e
<1>7. SeenLabel(c, y, x) =
        IF x \in 0 .. c.cols - 1 THEN p + x + 1 ELSE IF c.neutral THEN -1 ELSE p + e
  <2>1. CASE x \in 0 .. c.cols - 1
    <3>1. SeenLabel(c, y, x) = InputLabel(c, p + x) BY <1>5, <2>1
    <3> QED BY <1>3, <2>1, <3>1
  <2>2. CASE x \notin 0 .. c.cols - 1 /\ c.neutral BY <1>5, <2>2
  <2>3. CASE x \notin 0 .. c.cols - 1 /\ ~ c.neutral
    <3>1. SeenLabel(c, y, x) = InputLabel(c, p + z) BY <1>5, <2>3
    <3>2. InputLabel(c, p + z) = p + z + 1 BY <1>3, <1>4
    <3>3. p + z + 1 = p + e BY <1>2, <1>6
    <3> QED BY <2>3, <3>1, <3>2, <3>3
  <2> QED BY <1>1, <2>1, <2>2, <2>3
<1> QED BY <1>7 DEF p, y, e

LEMMA WithinHalo ==
  ASSUME NEW m \in Nat, NEW n \in Nat, NEW r \in 0 .. m - 1,
         NEW h, NEW y, h = m + 2 * n /\ y = r + n
  PROVE  h \in Nat /\ y \in 0 .. h - 1
OBVIOUS

LEMMA DoneOverlap ==
  ASSUME Tolerated \cap {"allRows", "wholeTiles", "separate", "narrow"} = {}
  PROVE  KInv /\ VInv => OverlapIsStencil
<1> SUFFICES ASSUME KInv, VInv, call.skeleton = "overlap", todo = << >>
             PROVE  OverlapIsStencil
  BY DEF OverlapIsStencil, Computed
<1>1. call # None BY DEF None
<1>2. call \in Requests /\ Acceptable(call) BY <1>1 DEF KInv, CallOK
<1>3. OverlapCall(call) BY <1>2, RequestsAssumption DEF IsCall
<1>4. AllRows(call) /\ WholeTiles(call) /\ call.out # In /\ Narrow(call)
  BY <1>2 DEF Acceptable, Meets
<1>5. /\ Explained(call)
      /\ \A r \in 0 .. call.rows - 1, k \in 0 .. call.cols - 1 :
           Start(call, Len(Launches(call)) + 1, Cell(Out, (r + call.range) * call.cols + k)) =
             Stencil(call, r + call.range, k)
  BY <1>3, <1>4, OverlapExplained
<1>6. /\ DOMAIN mem = DOMAIN Buffers(call)
      /\ \A b \in DOMAIN mem : DOMAIN mem[b] = DOMAIN Buffers(call)[b]
      /\ \A b \in DOMAIN mem : \A n \in DOMAIN mem[b] :
           mem[b][n] = Start(call, Len(Launches(call)) + 1, Cell(b, n))
  BY <1>1, <1>5, EveryCallIsScheduled, DoneValues
<1>7. /\ DOMAIN Buffers(call) = {In, Out, Constants}
      /\ DOMAIN Buffers(call)[Out] = 0 .. (call.rows + 2 * call.range) * call.cols - 1
  BY <1>3, OverlapMemory
<1>8. /\ call.rows \in Nat /\ call.cols \in Nat /\ call.range \in Nat /\ call.out = Out
      /\ call.range > 0
  BY <1>3, <1>4 DEF OverlapCall, Positive
<1> DEFINE w == 2 * call.range + 1
           label(y, x) ==
             IF x \in 0 .. call.cols - 1 THEN y * call.cols + x + 1
             ELSE IF call.neutral THEN -1
             ELSE y * call.cols + (IF x < 0 THEN 1 ELSE call.cols)
<1>9. ASSUME NEW r \in 0 .. call.rows - 1, NEW c \in 0 .. call.cols - 1
      PROVE  mem[Out][(r + call.range) * call.cols + c] =
               [k \in 1 .. w * w |->
                  label(r + (k - 1) \div w, c + ((k - 1) % w) - call.range)]
  <2>1. mem[Out][(r + call.range) * call.cols + c] = Stencil(call, r + call.range, c)
    <3> DEFINE y == r + call.range
               h == call.rows + 2 * call.range
    <3>1. h \in Nat /\ y \in 0 .. h - 1
      <4> DEFINE m == call.rows
                 n == call.range
      <4>1. m \in Nat /\ n \in Nat /\ r \in 0 .. m - 1 BY <1>8
      <4>2. h = m + 2 * n /\ y = r + n OBVIOUS
      <4> HIDE DEF m, n, w, label, h, y
      <4> QED BY <4>1, <4>2, WithinHalo
    <3> HIDE DEF y, h
    <3>2. y * call.cols + c \in 0 .. h * call.cols - 1 BY <1>8, <3>1, Place
    <3>3. mem[Out][y * call.cols + c] = Start(call, Len(Launches(call)) + 1, Cell(Out, y * call.cols + c))
      BY <1>6, <1>7, <3>2 DEF h
    <3> QED BY <1>5, <3>3 DEF y
  <2> DEFINE seen(k) == SeenLabel(call, r + call.range + (k - 1) \div w - call.range,
                                        c + ((k - 1) % w) - call.range)
             wanted(k) == label(r + (k - 1) \div w, c + ((k - 1) % w) - call.range)
  <2>2. Stencil(call, r + call.range, c) = [k \in 1 .. w * w |-> seen(k)] BY DEF Stencil
  <2>3. ASSUME NEW k \in 1 .. w * w
        PROVE  seen(k) = wanted(k)
    <3> DEFINE a == (k - 1) \div w
               b == (k - 1) % w
               x == c + b - call.range
    <3>1. a \in 0 .. w - 1 /\ b \in 0 .. w - 1
      <4>1. w \in Nat /\ w \in Positive BY <1>8 DEF Positive
      <4> DEFINE ww == w * w
      <4> HIDE DEF w
      <4>2. ww \in Nat /\ k \in 1 .. ww BY <4>1, Times
      <4> HIDE DEF ww
      <4>3. k - 1 \in 0 .. ww - 1 BY <4>2
      <4> QED BY <4>1, <4>3, PlaceOf DEF ww
    <3>2. a \in 0 .. 2 * call.range /\ x \in Int
      <4> HIDE DEF a, b
      <4> QED BY <1>8, <3>1
    <3>3. r + call.range + a - call.range = r + a
      <4> HIDE DEF a
      <4> QED BY <1>8, <3>2
    <3>4. seen(k) = SeenLabel(call, r + call.range + a - call.range, x) OBVIOUS
    <3>5. wanted(k) = label(r + a, x) OBVIOUS
    <3> HIDE DEF a, x, seen, wanted
    <3>6. SeenLabel(call, r + a, x) = label(r + a, x) BY <1>3, <3>2, LabelSeen
    <3> QED BY <3>3, <3>4, <3>5, <3>6
  <2> HIDE DEF seen, wanted, w
  <2>4. [k \in 1 .. w * w |-> seen(k)] = [k \in 1 .. w * w |-> wanted(k)] BY <2>3
  <2> QED BY <2>1, <2>2, <2>4 DEF wanted
<1> HIDE DEF w
<1> QED BY <1>8, <1>9 DEF OverlapIsStencil, w

\* MapOverlap (detail/MapOverlapKernel.cl): when a call is over whose rows all
\* have items, whose tiles are whole and no smaller than the range, and whose
\* output is not its input, each element is that of its padded neighbourhood.
THEOREM OverlapsAreStencils ==
  ASSUME Tolerated \cap {"allRows", "wholeTiles", "separate", "narrow"} = {}
  PROVE  Spec => []OverlapIsStencil
<1>1. Spec => [](KInv /\ VInv) BY ValuesInvariance
<1>2. KInv /\ VInv => OverlapIsStencil BY DoneOverlap
<1> QED BY <1>1, <1>2, PTL
=============================================================================
